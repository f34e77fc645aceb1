--------------------------------- MODULE Vtab ---------------------------------
(***************************************************************************)
(* Virtual tables written in Go (build tag sqlite_vtable): CreateModule, the  *)
(* C callbacks that SQLite calls (cXInit, cXOpen, ...), the Go functions they *)
(* call by way of a handle (goMInit, goVOpen, ...), and what is left of them   *)
(* when the connection is closed.                                            *)
(*                                                                         *)
(* SQLite, external, decides when a callback is made, and holds the           *)
(* connection's mutex meanwhile: a connection has one callback at a time.     *)
(* Each connection has one module name, one virtual table at a time and one   *)
(* statement on it with one cursor.  It is used by one goroutine; the runtime's *)
(* finalizer ends a statement that was dropped.                              *)
(***************************************************************************)
EXTENDS Naturals

CONSTANTS
  Conns,
  Addresses,  \* bound: addresses malloc has for handles
  MaxObjects, \* bound: modules, tables and cursors of each connection
  None        \* no object; as a handle, the NULL pointer

Module == "module"
Table  == "table"
Cursor == "cursor"

\* A Go value that a handle stands for, numbered as it was made.
Objects == [conn : Conns, kind : {Module, Table, Cursor}, n : Nat]

\* What SQLite holds: pClientData, a goVTab or a goVTabCursor, with the handle
\* in it; no object when Open failed.
Refs == [obj : Objects \cup {None}, handle : Addresses \cup {None}]

CursorCalls == {"xFilter", "xNext", "xEof", "xColumn", "xRowid"}
Callbacks == {"xCreate", "xConnect", "xBestIndex", "xOpen", "xUpdate", "xClose",
              "xDestroy", "xDisconnect", "destructor"} \cup CursorCalls

Calls == [fn : Callbacks, ref : Refs]

ASSUME ConstantsAssumption ==
  /\ None \notin Addresses \cup Objects \cup Refs \cup Calls
  /\ MaxObjects \in [Conns -> Nat]

VARIABLES
  handleVals, \* handle -> connection and value
  made,       \* objects made for each connection
  live,       \* Go objects not released: not destroyed, disconnected or closed
  lost,       \* Go objects whose C struct could not be allocated
  structs,    \* objects whose goVTab or goVTabCursor is allocated
  kept,       \* of these, the ones whose release returned an error
  pc,         \* where the goroutine of each connection is
  db,         \* its sqlite3 object
  module,     \* the module registered
  tab,        \* the table SQLite has connected
  stmt,       \* the statement on it: "none", "prepared", "running", ...
  cur,        \* its cursor
  call,       \* the callback SQLite is making
  panicked,   \* a trampoline panicked, which ends the process
  stray       \* history: a callback was made of a connection without handles

goVars     == <<made, live, lost>>
cVars      == <<structs, kept>>
sqliteVars == <<db, module, tab, cur>>
vars == <<handleVals, goVars, cVars, pc, sqliteVars, stmt, call, panicked, stray>>

Goto(c, l) == pc' = [pc EXCEPT ![c] = l]

-----------------------------------------------------------------------------
(* Handles (callback.go), and the objects they stand for *)

Put(f, k, v) == [i \in DOMAIN f \cup {k} |-> IF i = k THEN v ELSE f[i]]

OwnHandles(c) == {p \in DOMAIN handleVals : handleVals[p].conn = c}

\* A new value of c and its handle.
New(c, kind, p) == [obj |-> [conn |-> c, kind |-> kind, n |-> made[c] + 1], handle |-> p]

\* Faulty variant: the handle is made before the connection is known.
NewHandleOfNobody(c, ref) ==
  /\ made[c] < MaxObjects[c] /\ ref.handle \in Addresses \ DOMAIN handleVals
  /\ handleVals' = Put(handleVals, ref.handle, [conn |-> None, val |-> ref.obj])
  /\ made' = [made EXCEPT ![c] = @ + 1]

NewHandle(c, ref) ==
  /\ made[c] < MaxObjects[c] /\ ref.handle \in Addresses \ DOMAIN handleVals
  /\ handleVals' = Put(handleVals, ref.handle, [conn |-> c, val |-> ref.obj])
  /\ made' = [made EXCEPT ![c] = @ + 1]

\* The kind of value each trampoline asserts its handle to have.
Expected(fn) ==
  CASE fn \in {"xCreate", "xConnect", "destructor"}                          -> Module
    [] fn \in {"xBestIndex", "xOpen", "xUpdate", "xDestroy", "xDisconnect"} -> Table
    [] fn \in {"xClose"} \cup CursorCalls                                    -> Cursor

\* lookupHandle(...).(*T) of the callback in progress.
Found(c) ==
  LET p == call[c].ref.handle
  IN p \in DOMAIN handleVals /\ handleVals[p].val.kind = Expected(call[c].fn)

It(c) == handleVals[call[c].ref.handle].val

\* The trampoline of a callback in fns is running, and has found its value.
Running(c, fns) == call[c] # None /\ call[c].fn \in fns /\ Found(c)

\* The type assertion panics.
Panic(c) ==
  /\ call[c] # None /\ ~Found(c)
  /\ panicked' = TRUE
  /\ UNCHANGED <<handleVals, goVars, cVars, pc, sqliteVars, stmt, call>>

Calling(c, fn, ref) == call' = [call EXCEPT ![c] = [fn |-> fn, ref |-> ref]]
Return(c)           == call' = [call EXCEPT ![c] = None]

-----------------------------------------------------------------------------
(* The callbacks: the C function and the Go function it calls.  What SQLite   *)
(* does with the result is part of the step.                                 *)

\* cXInit and goMInit: an error of Create or Connect, or a connection that is
\* not the module's, ...
XInitFails(c) ==
  /\ Running(c, {"xCreate", "xConnect"})
  /\ Return(c)
  /\ UNCHANGED <<handleVals, goVars, cVars, pc, sqliteVars, stmt, panicked>>

\* ... or a table, whose goVTab is allocated after it, or not.
XInit(c) ==
  /\ Running(c, {"xCreate", "xConnect"})
  /\ It(c).conn = c /\ pc[c] # "closed"
  /\ \E p \in Addresses :
       LET t == New(It(c).conn, Table, p)
       IN /\ NewHandle(It(c).conn, t)
          /\ \/ /\ tab' = [tab EXCEPT ![c] = t]
                /\ structs' = structs \cup {t.obj}
                /\ live' = live \cup {t.obj}
                /\ UNCHANGED lost
             \/ /\ lost' = lost \cup {t.obj}
                /\ UNCHANGED <<tab, structs, live>>
  /\ Return(c)
  /\ UNCHANGED <<kept, pc, db, module, stmt, cur, panicked>>

\* cXBestIndex while a statement is prepared: it is, or an error is returned.
XBestIndex(c) ==
  /\ Running(c, {"xBestIndex"})
  /\ stmt' = [stmt EXCEPT ![c] = "prepared"] \/ UNCHANGED stmt
  /\ Return(c)
  /\ UNCHANGED <<handleVals, goVars, cVars, pc, sqliteVars, panicked>>

\* cXOpen and goVOpen, when Open succeeds: a statement whose cursor cannot be
\* allocated ends with an error.
XOpen(c) ==
  /\ Running(c, {"xOpen"})
  /\ \E p \in Addresses :
       LET k == New(It(c).conn, Cursor, p)
       IN /\ NewHandle(It(c).conn, k)
          /\ \/ /\ cur' = [cur EXCEPT ![c] = k]
                /\ stmt' = [stmt EXCEPT ![c] = "running"]
                /\ structs' = structs \cup {k.obj}
                /\ live' = live \cup {k.obj}
                /\ UNCHANGED lost
             \/ /\ lost' = lost \cup {k.obj}
                /\ UNCHANGED <<cur, stmt, structs, live>>
  /\ Return(c)
  /\ UNCHANGED <<kept, pc, db, module, tab, panicked>>

\* Open returns an error: cXOpen does not look at it.
XOpenFails(c) ==
  /\ Running(c, {"xOpen"})
  /\ \/ /\ cur' = [cur EXCEPT ![c] = [obj |-> None, handle |-> None]]
        /\ stmt' = [stmt EXCEPT ![c] = "running"]
     \/ UNCHANGED <<cur, stmt>>
  /\ Return(c)
  /\ UNCHANGED <<handleVals, goVars, cVars, pc, db, module, tab, panicked>>

\* Filter, Next, EOF, Column and Rowid of the cursor, Insert, Update and Delete
\* of the table; after an error SQLite halts the statement and closes its cursor.
XUse(c) ==
  /\ Running(c, CursorCalls \cup {"xUpdate"})
  /\ \/ Return(c) /\ UNCHANGED stmt
     \/ /\ call[c].fn # "xEof"
        /\ Calling(c, "xClose", cur[c])
        /\ stmt' = [stmt EXCEPT ![c] = "prepared"]
  /\ UNCHANGED <<handleVals, goVars, cVars, pc, sqliteVars, panicked>>

\* Faulty variant: the cursor's struct is freed, the Go cursor not closed.
XCloseFreesOnly(c) ==
  /\ Running(c, {"xClose"})
  /\ structs' = structs \ {call[c].ref.obj}
  /\ cur' = [cur EXCEPT ![c] = None]
  /\ Return(c)
  /\ UNCHANGED <<handleVals, goVars, kept, pc, db, module, tab, stmt, panicked>>

\* cXClose: on an error the struct is not freed; SQLite forgets it either way.
XClose(c) ==
  /\ Running(c, {"xClose"})
  /\ live' = live \ {It(c)}
  /\ \/ structs' = structs \ {call[c].ref.obj} /\ UNCHANGED kept
     \/ kept' = kept \cup {call[c].ref.obj} /\ UNCHANGED structs
  /\ cur' = [cur EXCEPT ![c] = None]
  /\ Return(c)
  /\ UNCHANGED <<handleVals, made, lost, pc, db, module, tab, stmt, panicked>>

Without(p) == [q \in DOMAIN handleVals \ {p} |-> handleVals[q]]

\* Faulty variant: the table's handle is deleted, although Destroy may fail.
XDestroyDeletes(c) ==
  /\ Running(c, {"xDestroy"})
  /\ \/ /\ live' = live \ {It(c)}
        /\ structs' = structs \ {call[c].ref.obj}
        /\ tab' = [tab EXCEPT ![c] = None]
     \/ UNCHANGED <<live, structs, tab>>
  /\ handleVals' = Without(call[c].ref.handle)
  /\ Return(c)
  /\ UNCHANGED <<made, lost, kept, pc, db, module, cur, stmt, panicked>>

\* Faulty variant: the goVTab is freed although Destroy failed.
XDestroyFreesAlways(c) ==
  /\ Running(c, {"xDestroy"})
  /\ structs' = structs \ {call[c].ref.obj}
  /\ \/ live' = live \ {It(c)} /\ tab' = [tab EXCEPT ![c] = None]
     \/ UNCHANGED <<live, tab>>
  /\ Return(c)
  /\ UNCHANGED <<handleVals, made, lost, kept, pc, db, module, cur, stmt, panicked>>

\* cXRelease for DROP TABLE: on an error the table stays.
XDestroy(c) ==
  /\ Running(c, {"xDestroy"})
  /\ \/ /\ live' = live \ {It(c)}
        /\ structs' = structs \ {call[c].ref.obj}
        /\ tab' = [tab EXCEPT ![c] = None]
     \/ UNCHANGED <<live, structs, tab>>
  /\ Return(c)
  /\ UNCHANGED <<handleVals, made, lost, kept, pc, db, module, cur, stmt, panicked>>

\* cXRelease otherwise: SQLite forgets the table whatever is returned.
XDisconnect(c) ==
  /\ Running(c, {"xDisconnect"})
  /\ live' = live \ {It(c)}
  /\ \/ structs' = structs \ {call[c].ref.obj} /\ UNCHANGED kept
     \/ kept' = kept \cup {call[c].ref.obj} /\ UNCHANGED structs
  /\ tab' = [tab EXCEPT ![c] = None]
  /\ Return(c)
  /\ UNCHANGED <<handleVals, made, lost, pc, db, module, cur, stmt, panicked>>

\* goMDestroy
XDestructor(c) ==
  /\ Running(c, {"destructor"})
  /\ live' = live \ {It(c)}
  /\ module' = [module EXCEPT ![c] = None]
  /\ Return(c)
  /\ UNCHANGED <<handleVals, made, lost, cVars, pc, db, tab, cur, stmt, panicked>>

-----------------------------------------------------------------------------
(* What the program does, and the callbacks SQLite makes for it *)

Idle(c) == pc[c] = "open" /\ call[c] = None

Open(c) ==
  /\ pc[c] = "new"
  /\ Goto(c, "open")
  /\ db' = [db EXCEPT ![c] = "open"]
  /\ UNCHANGED <<handleVals, goVars, cVars, module, tab, stmt, cur, call, panicked>>

\* SQLite calls the destructor at once when it refuses the module.
CreateModule(c) ==
  /\ Idle(c) /\ module[c] = None
  /\ \E p \in Addresses :
       LET m == New(c, Module, p)
       IN /\ NewHandle(c, m)
          /\ live' = live \cup {m.obj}
          /\ \/ module' = [module EXCEPT ![c] = m] /\ UNCHANGED call
             \/ Calling(c, "destructor", m) /\ UNCHANGED module
  /\ UNCHANGED <<lost, cVars, pc, db, tab, stmt, cur, panicked>>

Invoke(c, fn, ref) ==
  /\ Calling(c, fn, ref)
  /\ UNCHANGED <<handleVals, goVars, cVars, pc, sqliteVars, stmt, panicked>>

\* CREATE VIRTUAL TABLE, or the first use of a table.
ConnectTable(c, fn) ==
  /\ Idle(c) /\ module[c] # None /\ tab[c] = None /\ stmt[c] = "none"
  /\ Invoke(c, fn, module[c])

Prepare(c) ==
  /\ Idle(c) /\ tab[c] # None /\ stmt[c] = "none"
  /\ Invoke(c, "xBestIndex", tab[c])

\* The first step of the statement opens its cursor, ...
Begin(c) ==
  /\ Idle(c) /\ stmt[c] = "prepared"
  /\ Invoke(c, "xOpen", tab[c])

\* ... and the statement uses it and the table.
Step(c) ==
  /\ Idle(c) /\ stmt[c] = "running"
  /\ \/ \E fn \in CursorCalls : Invoke(c, fn, cur[c])
     \/ Invoke(c, "xUpdate", tab[c])

\* The end of an execution closes the cursor.
EndExecution(c, s) ==
  /\ stmt' = [stmt EXCEPT ![c] = s]
  /\ IF cur[c] # None THEN Calling(c, "xClose", cur[c]) ELSE UNCHANGED call
  /\ UNCHANGED <<handleVals, goVars, cVars, pc, sqliteVars, panicked>>

\* The last row, or Rows.Close: a reset, which does not look at the connection.
Reset(c) ==
  /\ pc[c] \in {"open", "closed"} /\ call[c] = None /\ stmt[c] = "running"
  /\ EndExecution(c, "prepared")

StmtClose(c) ==
  /\ Idle(c) /\ stmt[c] \in {"prepared", "running"}
  /\ EndExecution(c, "none")

DropTable(c) ==
  /\ Idle(c) /\ tab[c] # None /\ stmt[c] = "none"
  /\ Invoke(c, "xDestroy", tab[c])

\* The schema is read again: another connection has changed it.
ResetSchema(c) ==
  /\ Idle(c) /\ tab[c] # None /\ stmt[c] = "none"
  /\ Invoke(c, "xDisconnect", tab[c])

-----------------------------------------------------------------------------
(* A statement that was dropped, and its finalizer *)

SetStmt(c, s) ==
  /\ stmt' = [stmt EXCEPT ![c] = s]
  /\ UNCHANGED <<handleVals, goVars, cVars, pc, sqliteVars, call, panicked>>

Drop(c) == Idle(c) /\ stmt[c] \in {"prepared", "running"} /\ SetStmt(c, "dropped")

\* Stmt.Close does nothing when the connection is closed, ...
FinalizerCheck(c) ==
  /\ stmt[c] = "dropped"
  /\ SetStmt(c, IF pc[c] = "closed" THEN "left" ELSE "checked")

\* ... and otherwise calls sqlite3_finalize.
FinalizerFinalize(c) ==
  /\ stmt[c] = "checked" /\ call[c] = None /\ pc[c] # "closing"
  /\ EndExecution(c, "none")

-----------------------------------------------------------------------------
(* Conn.Close *)

CloseV2(c) ==
  /\ Idle(c)
  /\ Goto(c, "closing")
  /\ UNCHANGED <<handleVals, goVars, cVars, sqliteVars, stmt, call, panicked>>

\* A sqlite3 object with a statement stays as a zombie until that is finalized.
CloseZombie(c) ==
  /\ pc[c] = "closing" /\ stmt[c] # "none"
  /\ db' = [db EXCEPT ![c] = "zombie"]
  /\ Goto(c, "delete")
  /\ UNCHANGED <<handleVals, goVars, cVars, module, tab, stmt, cur, call, panicked>>

\* Without one it disconnects the table, destroys the module and is freed.
Freeing(c) ==
  /\ pc[c] = "closing" \/ db[c] = "zombie"
  /\ stmt[c] = "none" /\ call[c] = None

FreeTable(c) ==
  /\ Freeing(c) /\ tab[c] # None
  /\ Invoke(c, "xDisconnect", tab[c])

FreeModule(c) ==
  /\ Freeing(c) /\ tab[c] = None /\ module[c] # None
  /\ Invoke(c, "destructor", module[c])

FreeDb(c) ==
  /\ Freeing(c) /\ tab[c] = None /\ module[c] = None
  /\ db' = [db EXCEPT ![c] = "freed"]
  /\ IF pc[c] = "closing" THEN Goto(c, "delete") ELSE UNCHANGED pc
  /\ UNCHANGED <<handleVals, goVars, cVars, module, tab, stmt, cur, call, panicked>>

DeleteHandles(c) ==
  /\ pc[c] = "delete"
  /\ handleVals' = [p \in DOMAIN handleVals \ OwnHandles(c) |-> handleVals[p]]
  /\ Goto(c, "clear")
  /\ UNCHANGED <<goVars, cVars, sqliteVars, stmt, call, panicked>>

CloseClears(c) ==
  /\ pc[c] = "clear"
  /\ Goto(c, "closed")
  /\ UNCHANGED <<handleVals, goVars, cVars, sqliteVars, stmt, call, panicked>>

-----------------------------------------------------------------------------
Init ==
  /\ handleVals = [p \in {} |-> None]
  /\ made = [c \in Conns |-> 0]
  /\ live = {} /\ lost = {} /\ structs = {} /\ kept = {}
  /\ pc = [c \in Conns |-> "new"]
  /\ db = [c \in Conns |-> "none"]
  /\ module = [c \in Conns |-> None]
  /\ tab = [c \in Conns |-> None]
  /\ stmt = [c \in Conns |-> "none"]
  /\ cur = [c \in Conns |-> None]
  /\ call = [c \in Conns |-> None]
  /\ panicked = FALSE /\ stray = FALSE

Trampoline(c) ==
  \/ XInitFails(c) \/ XInit(c) \/ XBestIndex(c) \/ XOpen(c) \/ XOpenFails(c) \/ XUse(c)
  \/ XClose(c) \/ XDestroy(c) \/ XDisconnect(c) \/ XDestructor(c) \/ Panic(c)

Program(c) ==
  \/ Open(c) \/ CreateModule(c) \/ \E fn \in {"xCreate", "xConnect"} : ConnectTable(c, fn)
  \/ Prepare(c) \/ Begin(c) \/ Step(c) \/ Reset(c) \/ StmtClose(c)
  \/ DropTable(c) \/ ResetSchema(c)
  \/ Drop(c) \/ FinalizerCheck(c) \/ FinalizerFinalize(c)
  \/ CloseV2(c) \/ CloseZombie(c) \/ FreeTable(c) \/ FreeModule(c) \/ FreeDb(c)
  \/ DeleteHandles(c) \/ CloseClears(c)

\* A zombie's callback after its handles were deleted: its trampoline panics, or
\* finds what has the address now.
Stray(c) == call[c] # None /\ pc[c] \in {"clear", "closed"}

\* A panic ends the process.
Next ==
  /\ ~panicked
  /\ \E c \in Conns : Trampoline(c) \/ Program(c)
  /\ stray' = (stray \/ \E c \in Conns : Stray(c))

Spec == Init /\ [][Next]_vars

-----------------------------------------------------------------------------
(* Properties *)

TypeOK ==
  /\ DOMAIN handleVals \subseteq Addresses
  /\ \A p \in DOMAIN handleVals : handleVals[p] \in [conn : Conns, val : Objects]
  /\ made \in [Conns -> Nat]
  /\ live \subseteq Objects /\ lost \subseteq Objects
  /\ structs \subseteq Objects /\ kept \subseteq Objects
  /\ pc \in [Conns -> {"new", "open", "closing", "delete", "clear", "closed"}]
  /\ db \in [Conns -> {"none", "open", "zombie", "freed"}]
  /\ module \in [Conns -> Refs \cup {None}]
  /\ tab \in [Conns -> Refs \cup {None}]
  /\ stmt \in [Conns -> {"none", "prepared", "running", "dropped", "checked", "left"}]
  /\ cur \in [Conns -> Refs \cup {None}]
  /\ call \in [Conns -> Calls \cup {None}]
  /\ panicked \in BOOLEAN /\ stray \in BOOLEAN

\* A callback that SQLite makes before Conn.Close has deleted the handles,
\* those of sqlite3_close_v2 included, finds the very object it is for,
\* whatever else was made or failed; only a cursor whose Open failed has none.
CallbackFindsIts ==
  \A c \in Conns : call[c] # None /\ pc[c] \notin {"clear", "closed"} =>
    LET ref == call[c].ref
    IN \/ ref.obj = None
       \/ /\ ref.handle \in DOMAIN handleVals
          /\ handleVals[ref.handle] = [conn |-> c, val |-> ref.obj]
          /\ ref.obj.kind = Expected(call[c].fn)

\* No callback is made for an object that was released, nor with a goVTab or
\* goVTabCursor that was freed, also after a Destroy, Disconnect or Close that
\* returned an error; and a table is not released under its cursor.
TargetsLive ==
  ~stray => \A c \in Conns : call[c] # None /\ call[c].ref.obj # None =>
    LET o == call[c].ref.obj
    IN /\ o \in live
       /\ o.kind # Module => o \in structs
       /\ call[c].fn \in {"xDestroy", "xDisconnect"} => cur[c] = None

\* When a connection's database is freed, every module has been destroyed,
\* every table and cursor released, but for those whose C struct could not be
\* allocated; and of the structs none is left but those whose release returned
\* an error.
NothingLost ==
  ~stray => \A c \in Conns : db[c] = "freed" =>
    /\ \A o \in live : o.conn # c
    /\ \A o \in structs : o.conn = c => o \in kept

\* The trampolines take it that a cursor's handle names a cursor.
CursorNamed == \A c \in Conns : cur[c] # None => cur[c].handle # None
=============================================================================

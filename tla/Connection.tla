------------------------------ MODULE Connection ------------------------------
(***************************************************************************)
(* SQLiteDriver.Open from the DSN to the connection hook, SQLiteConn.Close,   *)
(* the Register methods, and the process-wide table of callback handles      *)
(* (callback.go) by which C code names Go values.                            *)
(*                                                                         *)
(* Each connection is used by one goroutine, several connections at once.    *)
(* handleLock guards the table for one access at a time, so that newHandle,  *)
(* lookupHandle and deleteHandles are single steps; between them, and        *)
(* inside sqlite3_close_v2, other connections move.  Handles are addresses   *)
(* from malloc: a freed one may be handed out again.  No statement of a      *)
(* connection is left when it is closed (Lifecycle has the others).          *)
(* Built with user authentication (sqlite_userauth).  The connections are to  *)
(* one database.                                                             *)
(***************************************************************************)
EXTENDS Naturals

CONSTANTS
  Conns,          \* connections, each opened once
  Addresses,      \* bound: addresses malloc has for handles
  AuthFunctions,  \* the SQL functions Open registers for user authentication
  Callbacks,      \* what a program registers: functions, collations
  DSNs,           \* what the DSNs of the connections ask for
  None

\* Callbacks that sqlite3_close_v2 makes: the rollback hook when a transaction
\* is open, the destructor of a virtual-table module.
RollbackHook == "rollback hook"
Module       == "module"
Crypt        == "sqlite_crypt"

ASSUME NamesAssumption ==
  /\ None \notin Addresses
  /\ {RollbackHook, Module, Crypt} \cap (AuthFunctions \cup Callbacks) = {}

Names == AuthFunctions \cup Callbacks \cup {RollbackHook, Module, Crypt}

\* What a DSN asks for: _auth_crypt and _auth_salt, _auth, _auth_user and
\* _auth_pass.  The other parameters are pragmas, which all may fail.
Options == [crypt : {"none", "encoder", "no salt"}, create : BOOLEAN, user : BOOLEAN]

ASSUME DSNsAssumption == DSNs \subseteq Options

VARIABLES
  handleVals, \* handle -> connection and name of the callback
  pc,         \* where Open, Close or a method of each connection is
  opts,       \* what the connection was opened with
  db,         \* its sqlite3 object: "none", "open", "freed"
  slots,      \* callback -> handle, as registered with SQLite
  todo,       \* authentication functions Open has yet to register
  inTx,       \* whether a transaction is open
  call,       \* the callback running, and the handle its trampoline was given
  hooked,     \* history: the connection hook has been called
  users       \* the table sqlite_user exists in the database

sqliteVars == <<db, slots, inTx>>
callVars   == <<pc, opts, todo, call>>
vars == <<handleVals, sqliteVars, callVars, users, hooked>>

Goto(c, l) == pc' = [pc EXCEPT ![c] = l]

-----------------------------------------------------------------------------
(* The table of handles: a handle is a malloc'ed byte, free again when       *)
(* deleteHandles has removed it.                                             *)

Put(f, k, v)  == [i \in DOMAIN f \cup {k} |-> IF i = k THEN v ELSE f[i]]
Keep(f, S)    == [i \in S |-> f[i]]
OwnHandles(c) == {p \in DOMAIN handleVals : handleVals[p].conn = c}

\* Faulty variant: the handle is made before the connection is known.
NewHandleOfNobody(c, n, p) ==
  /\ p \in Addresses \ DOMAIN handleVals
  /\ handleVals' = Put(handleVals, p, [conn |-> None, name |-> n])

NewHandle(c, n, p) ==
  /\ p \in Addresses \ DOMAIN handleVals
  /\ handleVals' = Put(handleVals, p, [conn |-> c, name |-> n])

\* Faulty variant: deleteHandles does not look whose a handle is.
DeleteHandlesAll(c) == handleVals' = Keep(handleVals, {})

DeleteHandles(c) == handleVals' = Keep(handleVals, DOMAIN handleVals \ OwnHandles(c))

\* RegisterFunc and the others: the handle is made first, and stays in the
\* table when SQLite refuses the registration, or replaces an earlier one.
Registered(c, n) ==
  \E p \in Addresses :
    /\ NewHandle(c, n, p)
    /\ slots' = [slots EXCEPT ![c] = Put(@, n, p)]

Refused(c, n) ==
  \E p \in Addresses : NewHandle(c, n, p) /\ UNCHANGED slots

\* SQLite calls a callback: a trampoline is given its handle, ...
Trampoline(c, n) ==
  /\ n \in DOMAIN slots[c] /\ call[c] = None
  /\ call' = [call EXCEPT ![c] = [name |-> n, handle |-> slots[c][n]]]

-----------------------------------------------------------------------------
(* Open.  A step that fails returns the error: some failures free the       *)
(* SQLite connection, some call conn.Close, some do neither.                 *)

\* return nil, err
Fail(c) ==
  /\ Goto(c, "failed")
  /\ UNCHANGED <<handleVals, sqliteVars, opts, todo, call, users, hooked>>

\* C.sqlite3_close_v2(db); return nil, err
FailFreeing(c) ==
  /\ Goto(c, "failed")
  /\ db' = [db EXCEPT ![c] = "freed"]
  /\ UNCHANGED <<handleVals, slots, inTx, opts, todo, call, users, hooked>>

\* conn.Close(); return nil, err
FailClosing(c) ==
  /\ Goto(c, "o.close")
  /\ UNCHANGED <<handleVals, sqliteVars, opts, todo, call, users, hooked>>

Pass(c, l) ==
  /\ Goto(c, l)
  /\ UNCHANGED <<handleVals, sqliteVars, opts, todo, call, users, hooked>>

\* The DSN is parsed, before anything is opened.
Parse(c, o) ==
  /\ pc[c] = "new"
  /\ \/ Goto(c, "open_v2") /\ opts' = [opts EXCEPT ![c] = o]
     \/ Goto(c, "failed") /\ UNCHANGED opts
  /\ UNCHANGED <<handleVals, sqliteVars, todo, call, users, hooked>>

\* SQLite may make a connection though it cannot open the file.
OpenV2(c) ==
  /\ pc[c] = "open_v2"
  /\ \/ Goto(c, "busy_timeout") /\ db' = [db EXCEPT ![c] = "open"]
     \/ Goto(c, "failed") /\ UNCHANGED db
     \/ Goto(c, "failed") /\ db' = [db EXCEPT ![c] = "freed"]
  /\ UNCHANGED <<handleVals, slots, inTx, opts, todo, call, users, hooked>>

BusyTimeout(c) ==
  /\ pc[c] = "busy_timeout"
  /\ Pass(c, "crypt") \/ FailFreeing(c)

\* The password encoder comes before the authentication.
RegisterCrypt(c) ==
  /\ pc[c] = "crypt"
  /\ \/ opts[c].crypt = "none" /\ Pass(c, "authenticate")
     \/ opts[c].crypt = "no salt" /\ Fail(c)
     \/ /\ opts[c].crypt = "encoder"
        /\ \/ Registered(c, Crypt) /\ Goto(c, "authenticate")
           \/ Refused(c, Crypt) /\ Goto(c, "failed")
        /\ UNCHANGED <<db, inTx, opts, todo, call, users, hooked>>

\* sqlite3_user_authenticate and sqlite3_user_add call the encoder, ...
Encode(c) ==
  /\ pc[c] \in {"authenticate", "user_add"}
  /\ Trampoline(c, Crypt)
  /\ UNCHANGED <<handleVals, sqliteVars, pc, opts, todo, users, hooked>>

\* ... and the user is known or not.
Authenticate(c) ==
  /\ pc[c] = "authenticate" /\ call[c] = None
  /\ Pass(c, "functions") \/ Fail(c)

\* authenticate, auth_user_add, auth_user_change, auth_user_delete, auth_enabled
RegisterAuthFunction(c, n) ==
  /\ pc[c] = "functions" /\ n \in todo[c]
  /\ todo' = [todo EXCEPT ![c] = @ \ {n}]
  /\ \/ Registered(c, n) /\ UNCHANGED pc
     \/ Refused(c, n) /\ Goto(c, "failed")
  /\ UNCHANGED <<db, inTx, opts, call, users, hooked>>

AutoVacuum(c) ==
  /\ pc[c] = "functions" /\ todo[c] = {}
  /\ Pass(c, "activate") \/ FailFreeing(c)

\* Faulty variant: the user is added where the comment in Open says.
ActivateExisting(c) ==
  /\ pc[c] = "activate"
  /\ \/ ~opts[c].create /\ Pass(c, "pragmas")
     \/ opts[c].create /\ ~opts[c].user /\ Fail(c)
     \/ opts[c].create /\ opts[c].user /\ ~users /\ Pass(c, "pragmas")
     \/ opts[c].create /\ opts[c].user /\ users /\ Pass(c, "user_add")

\* Whether the user of the DSN is to be added: AuthEnabled says that there is no
\* sqlite_user, also when its own query fails.
Activate(c) ==
  /\ pc[c] = "activate"
  /\ \/ ~opts[c].create /\ Pass(c, "pragmas")
     \/ opts[c].create /\ ~opts[c].user /\ Fail(c)
     \/ opts[c].create /\ opts[c].user /\ users /\ Pass(c, "pragmas")
     \/ opts[c].create /\ opts[c].user /\ Pass(c, "user_add")

\* AuthUserAdd makes sqlite_user unless another connection has done so since,
\* after which SQLite may refuse.  It calls the encoder first.
UserAdd(c) ==
  /\ pc[c] = "user_add" /\ call[c] = None
  /\ \/ Fail(c)
     \/ /\ users' = TRUE
        /\ Goto(c, "pragmas")
        /\ UNCHANGED <<handleVals, sqliteVars, opts, todo, call, hooked>>

\* case_sensitive_like ... secure_delete
Pragmas(c) ==
  /\ pc[c] = "pragmas"
  /\ Pass(c, "synchronous") \/ FailFreeing(c)

Synchronous(c) ==
  /\ pc[c] = "synchronous"
  /\ Pass(c, "schema") \/ FailClosing(c)

\* writable_schema, cache_size
SchemaPragmas(c) ==
  /\ pc[c] = "schema"
  /\ Pass(c, "extensions") \/ FailFreeing(c)

\* SQLiteDriver.Extensions, when there are any.
LoadExtensions(c) ==
  /\ pc[c] = "extensions"
  /\ Pass(c, "hook") \/ FailClosing(c)

\* From here on the program has the connection.
ConnectHook(c) ==
  /\ pc[c] = "hook"
  /\ Goto(c, "hooked")
  /\ hooked' = [hooked EXCEPT ![c] = TRUE]
  /\ UNCHANGED <<handleVals, sqliteVars, opts, todo, call, users>>

ConnectHookReturns(c) ==
  /\ pc[c] = "hooked" /\ call[c] = None
  /\ Pass(c, "open") \/ FailClosing(c)

-----------------------------------------------------------------------------
(* A connection in use, by the connection hook and after Open. *)

InUse(c) == pc[c] \in {"hooked", "open"} /\ call[c] = None

\* RegisterFunc, RegisterAggregator, RegisterCollation
Register(c, n) ==
  /\ InUse(c)
  /\ Registered(c, n) \/ Refused(c, n)
  /\ UNCHANGED <<db, inTx, callVars, users, hooked>>

\* RegisterRollbackHook and the other hooks, which SQLite does not refuse.
RegisterHook(c) ==
  /\ InUse(c)
  /\ Registered(c, RollbackHook)
  /\ UNCHANGED <<db, inTx, callVars, users, hooked>>

\* CreateModule.  SQLite destroys the module it replaces, and one it refuses:
\* goMDestroy runs.
CreateModule(c) ==
  /\ InUse(c)
  /\ \E p \in Addresses :
       /\ NewHandle(c, Module, p)
       /\ \/ /\ slots' = [slots EXCEPT ![c] = Put(@, Module, p)]
             /\ Trampoline(c, Module) \/ (Module \notin DOMAIN slots[c] /\ UNCHANGED call)
          \/ /\ UNCHANGED slots
             /\ call' = [call EXCEPT ![c] = [name |-> Module, handle |-> p]]
  /\ UNCHANGED <<db, inTx, pc, opts, todo, users, hooked>>

\* RegisterRollbackHook(nil)
UnregisterHook(c) ==
  /\ InUse(c) /\ RollbackHook \in DOMAIN slots[c]
  /\ slots' = [slots EXCEPT ![c] = Keep(@, DOMAIN @ \ {RollbackHook})]
  /\ UNCHANGED <<handleVals, db, inTx, callVars, users, hooked>>

Transaction(c) ==
  /\ InUse(c)
  /\ inTx' = [inTx EXCEPT ![c] = ~@]
  /\ UNCHANGED <<handleVals, db, slots, callVars, users, hooked>>

\* ... looks it up (CallbackFindsIts says what it finds), and calls the Go
\* value; other connections move meanwhile.
CallbackReturns(c) ==
  /\ call[c] # None
  /\ call' = [call EXCEPT ![c] = None]
  /\ UNCHANGED <<handleVals, sqliteVars, pc, opts, todo, users, hooked>>

Callback(c, n) ==
  /\ InUse(c)
  /\ Trampoline(c, n)
  /\ UNCHANGED <<handleVals, sqliteVars, pc, opts, todo, users, hooked>>

-----------------------------------------------------------------------------
(* SQLiteConn.Close, called by the program or by Open ("o." and "c."). *)

Closing == {"o.close", "c.close"}

Close(c) ==
  /\ pc[c] = "open" /\ call[c] = None
  /\ Goto(c, "c.close")
  /\ UNCHANGED <<handleVals, sqliteVars, opts, todo, call, users, hooked>>

\* sqlite3_close_v2 rolls back: the hook runs.
CloseRollsBack(c) ==
  /\ pc[c] \in Closing /\ inTx[c]
  /\ inTx' = [inTx EXCEPT ![c] = FALSE]
  /\ IF RollbackHook \in DOMAIN slots[c] THEN Trampoline(c, RollbackHook)
                                        ELSE UNCHANGED call
  /\ UNCHANGED <<handleVals, db, slots, pc, opts, todo, users, hooked>>

\* sqlite3_close_v2 destroys the modules: goMDestroy runs.
CloseDestroysModule(c) ==
  /\ pc[c] \in Closing /\ ~inTx[c]
  /\ Trampoline(c, Module)
  /\ slots' = [slots EXCEPT ![c] = Keep(@, DOMAIN @ \ {Module})]
  /\ UNCHANGED <<handleVals, db, inTx, pc, opts, todo, users, hooked>>

CloseReturns(c) ==
  /\ pc[c] \in Closing /\ call[c] = None
  /\ ~inTx[c] /\ Module \notin DOMAIN slots[c]
  /\ db' = [db EXCEPT ![c] = "freed"]
  /\ Goto(c, IF pc[c] = "o.close" THEN "o.delete" ELSE "c.delete")
  /\ UNCHANGED <<handleVals, slots, inTx, opts, todo, call, users, hooked>>

\* Then deleteHandles(c) and c.db = nil.
CloseDeletes(c) ==
  /\ pc[c] \in {"o.delete", "c.delete"}
  /\ DeleteHandles(c)
  /\ Goto(c, IF pc[c] = "o.delete" THEN "failed" ELSE "closed")
  /\ UNCHANGED <<sqliteVars, opts, todo, call, users, hooked>>

-----------------------------------------------------------------------------
Init ==
  /\ handleVals = [p \in {} |-> [conn |-> None, name |-> None]]
  /\ pc = [c \in Conns |-> "new"]
  /\ opts = [c \in Conns |-> [crypt |-> "none", create |-> FALSE, user |-> FALSE]]
  /\ db = [c \in Conns |-> "none"]
  /\ slots = [c \in Conns |-> [n \in {} |-> None]]
  /\ todo = [c \in Conns |-> AuthFunctions]
  /\ inTx = [c \in Conns |-> FALSE]
  /\ call = [c \in Conns |-> None]
  /\ hooked = [c \in Conns |-> FALSE]
  /\ users \in BOOLEAN

Open(c) ==
  \/ OpenV2(c) \/ BusyTimeout(c) \/ RegisterCrypt(c)
  \/ Encode(c) \/ Authenticate(c)
  \/ \E n \in AuthFunctions : RegisterAuthFunction(c, n)
  \/ AutoVacuum(c) \/ Activate(c) \/ UserAdd(c) \/ Pragmas(c) \/ Synchronous(c)
  \/ SchemaPragmas(c) \/ LoadExtensions(c) \/ ConnectHook(c) \/ ConnectHookReturns(c)

Use(c) ==
  \/ \E n \in Callbacks : Register(c, n)
  \/ RegisterHook(c) \/ CreateModule(c) \/ UnregisterHook(c) \/ Transaction(c)
  \/ \E n \in Names : Callback(c, n)
  \/ Close(c)

Finish(c) ==
  \/ CallbackReturns(c) \/ CloseRollsBack(c) \/ CloseDestroysModule(c)
  \/ CloseReturns(c) \/ CloseDeletes(c)

Next ==
  \E c \in Conns : \/ \E o \in DSNs : Parse(c, o)
                   \/ Open(c) \/ Use(c) \/ Finish(c)

Spec == Init /\ [][Next]_vars

-----------------------------------------------------------------------------
(* Properties *)

Pcs == {"new", "open_v2", "busy_timeout", "crypt", "authenticate", "functions",
        "activate", "user_add", "pragmas", "synchronous", "schema", "extensions", "hook",
        "hooked", "open", "failed", "closed", "o.close", "c.close", "o.delete",
        "c.delete"}

TypeOK ==
  /\ DOMAIN handleVals \subseteq Addresses
  /\ \A p \in DOMAIN handleVals : handleVals[p] \in [conn : Conns, name : Names]
  /\ pc \in [Conns -> Pcs]
  /\ opts \in [Conns -> Options]
  /\ db \in [Conns -> {"none", "open", "freed"}]
  /\ DOMAIN slots = Conns
  /\ \A c \in Conns : /\ DOMAIN slots[c] \subseteq Names
                      /\ \A n \in DOMAIN slots[c] : slots[c][n] \in Addresses
  /\ todo \in [Conns -> SUBSET AuthFunctions]
  /\ inTx \in [Conns -> BOOLEAN]
  /\ \A c \in Conns : call[c] # None => call[c] \in [name : Names, handle : Addresses]
  /\ DOMAIN call = Conns
  /\ hooked \in [Conns -> BOOLEAN]
  /\ users \in BOOLEAN

\* A trampoline finds the value that was registered for this callback on its
\* own connection, also in the callbacks of sqlite3_close_v2, whatever other
\* connections register and close meanwhile: its type assertion never fails on
\* nil or on the value of another callback (callback.go).
CallbackFindsIts ==
  \A c \in Conns : call[c] # None =>
    /\ call[c].handle \in DOMAIN handleVals
    /\ handleVals[call[c].handle] = [conn |-> c, name |-> call[c].name]

\* A connection the program has seen leaves nothing behind: neither when it is
\* closed nor when Open fails after the connection hook.
NothingLeft ==
  \A c \in Conns : pc[c] = "closed" \/ (pc[c] = "failed" /\ hooked[c]) =>
    db[c] = "freed" /\ OwnHandles(c) = {}

\* Open with _auth never hands out a connection to a database without users:
\* whatever AuthEnabled has answered, and whichever connection has added the
\* first one.
Protected == \A c \in Conns : hooked[c] /\ opts[c].create => users
=============================================================================

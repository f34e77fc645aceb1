------------------------- MODULE UnlockNotifyProofs -------------------------
(***************************************************************************)
(* TypeOK, CallbackSafe, NoLostWakeup and NoDeadlock hold in every behaviour *)
(* of UnlockNotify, and it implements BlockedWait, for every finite set of   *)
(* connections and every set of tables.                                     *)
(*                                                                         *)
(* A wait that is registered moves from waitsFor to the array of the         *)
(* callback and from there to its channel (Waits, Serves): SQLite's mutex    *)
(* lets one callback run at a time, a handle finds the wait it was given to  *)
(* (Handles), and a blocker is registered with until it is announced         *)
(* (Blockers).                                                              *)
(*                                                                         *)
(* The chain of waits SQLite follows leads back to the connection that asks  *)
(* if and only if its wait would close a cycle (BackIsCycle, ElseNoCycle):   *)
(* it has as many steps as there are connections, and one that goes on for   *)
(* so many without it comes to one connection twice.                        *)
(***************************************************************************)
EXTENDS UnlockNotify, RecursionLemmas, FiniteSetTheorems, TLAPS

\* The argument of the connection's wait is allocated and the table has it.
HasArg(c) == pc[c] \in {"notify", "receive", "free"} \/ (InCallback(c) /\ mine[c] # 0)

Arg(c)  == waits[mine[c]].arg
Chan(c) == waits[mine[c]].chan

\* The locks a blocked connection waits for are still to be announced.
Holding(c) == InTx(c) \/ pc[c] = "unlock"

\* Where a goroutine is says whether it is in a wait, and what the wait returned.
Shape(c) ==
  /\ pc[c] \in {"notify", "receive", "free", "remove", "close"} => mine[c] # 0
  /\ pc[c] \in {"idle", "step", "add", "unlock"} => mine[c] = 0
  /\ pc[c] \in {"step", "add"} \/ mine[c] # 0 => want[c] \in Tables /\ lock[want[c]] # c
  /\ rc[c] = "locked" => pc[c] \in {"idle", "free", "remove", "close"}

Shapes == \A c \in Conns : Shape(c)

\* Two connections are never in one wait.
Distinct == \A c, d \in Conns : mine[c] = mine[d] /\ mine[c] # 0 => c = d

\* A handle is given out once, and finds the wait it was given to.
Handles ==
  /\ \A h \in DOMAIN table : h < seqnum
  /\ \A c \in Conns : HasArg(c) => Arg(c) \in DOMAIN table /\ table[Arg(c)] = mine[c]

\* A wait the callback of d is still to serve.
Awaits(c, d) ==
  /\ Chan(c) = "empty" /\ waitsFor[c] = None /\ blockedBy[c] = None
  /\ c = d \/ pc[c] = "receive"

\* The callback runs with SQLite's mutex held, and serves every wait of its
\* array once.
Serves(d) ==
  /\ InCallback(d) => master = d /\ pending[d] # <<>>
  /\ ~InCallback(d) => pending[d] = <<>>
  /\ \A i, j \in DOMAIN pending[d] : pending[d][i] = pending[d][j] => i = j
  /\ \A i \in DOMAIN pending[d] :
       \E c \in Conns : mine[c] = pending[d][i] /\ Awaits(c, d)
  /\ InCallback(d) /\ mine[d] # 0 => pending[d] = <<mine[d]>>

Served == \A d \in Conns : Serves(d)

InArray(c) == \E d \in Conns : \E i \in DOMAIN pending[d] : pending[d][i] = mine[c]

\* Who waits at its channel has a message, will have one from a running
\* callback, or is registered with its blocker.
Waits(c) ==
  /\ pc[c] = "notify" => Chan(c) = "empty" /\ waitsFor[c] = None
  /\ InCallback(c) /\ mine[c] # 0 => blockedBy[c] = None
  /\ pc[c] = "receive" => \/ Chan(c) = "full" /\ blockedBy[c] = None
                          \/ InArray(c)
                          \/ waitsFor[c] # None
  /\ waitsFor[c] # None =>
       pc[c] = "receive" /\ Chan(c) = "empty" /\ blockedBy[c] = waitsFor[c]
  /\ pc[c] \in {"free", "remove", "close"} /\ rc[c] = "ok" => blockedBy[c] = None

AllWaits == \A c \in Conns : Waits(c)

\* A blocker's transaction is still to be concluded or to be announced.
Blockers == \A c \in Conns : blockedBy[c] # None => Holding(blockedBy[c])

IInv == TypeOK /\ Shapes /\ Distinct /\ Handles /\ Served /\ AllWaits /\ Blockers

-----------------------------------------------------------------------------
\* What a bijection from 1..n is as a sequence.
LEMMA BijectionIsSeq ==
  ASSUME NEW S, NEW n \in Nat, NEW q \in Bijection(1..n, S)
  PROVE  /\ q \in Seq(S) /\ Len(q) = n
         /\ \A i, j \in 1..n : q[i] = q[j] => i = j
         /\ \A s \in S : \E i \in 1..n : q[i] = s
<1>1. q \in [1..n -> S]
  BY DEF Bijection, Injection
<1>2. q \in Seq(S) /\ Len(q) = n
  BY <1>1
<1>3. QED
  BY <1>1, <1>2, Zenon DEF Bijection, Injection, Surjection, IsInjective

WaitSet == [chan : {"empty", "full", "closed"}, arg : Nat \cup {None}]

\* What a message or the end of a wait changes at its channel.
LEMMA SetChan ==
  ASSUME NEW s \in Seq(WaitSet), NEW i \in 1..Len(s), NEW v \in {"empty", "full", "closed"},
         NEW r, r = [s EXCEPT ![i].chan = v]
  PROVE  /\ r \in Seq(WaitSet) /\ Len(r) = Len(s) /\ r[i].chan = v
         /\ \A j \in 1..Len(s) : r[j].arg = s[j].arg /\ (j # i => r[j].chan = s[j].chan)
<1>1. s[i] \in WaitSet
  OBVIOUS
<1>2. [s[i] EXCEPT !.chan = v] \in WaitSet /\ [s[i] EXCEPT !.chan = v].arg = s[i].arg
  BY <1>1 DEF WaitSet
<1>3. r = [s EXCEPT ![i] = [s[i] EXCEPT !.chan = v]]
  OBVIOUS
<1>4. QED
  BY <1>1, <1>2, <1>3 DEF WaitSet

\* What C.free changes at the argument of a wait.
LEMMA FreeArg ==
  ASSUME NEW s \in Seq(WaitSet), NEW i \in 1..Len(s), NEW r, r = [s EXCEPT ![i].arg = None]
  PROVE  /\ r \in Seq(WaitSet) /\ Len(r) = Len(s)
         /\ \A j \in 1..Len(s) : r[j].chan = s[j].chan /\ (j # i => r[j].arg = s[j].arg)
<1>1. s[i] \in WaitSet
  OBVIOUS
<1>2. [s[i] EXCEPT !.arg = None] \in WaitSet /\ [s[i] EXCEPT !.arg = None].chan = s[i].chan
  BY <1>1 DEF WaitSet
<1>3. r = [s EXCEPT ![i] = [s[i] EXCEPT !.arg = None]]
  OBVIOUS
<1>4. QED
  BY <1>1, <1>2, <1>3 DEF WaitSet

\* The callbacks go on as before when a step leaves their waits alone.
LEMMA ServedStays ==
  ASSUME TypeOK, Served, pending' = pending, master' = master,
         \A d \in Conns : InCallback(d)' <=> InCallback(d),
         \A d \in Conns : InCallback(d) => mine'[d] = mine[d],
         \A d, e \in Conns : InCallback(d) /\ mine[e] # 0 /\ Awaits(e, d)
                             => mine'[e] = mine[e] /\ Awaits(e, d)'
  PROVE  Served'
<1> SUFFICES ASSUME NEW d \in Conns PROVE Serves(d)'
  BY DEF Served
<1>1. Serves(d)
  BY DEF Served
<1>2. ASSUME NEW i \in DOMAIN pending[d]
      PROVE  \E e \in Conns : mine'[e] = pending[d][i] /\ Awaits(e, d)'
  <2>1. PICK e \in Conns : mine[e] = pending[d][i] /\ Awaits(e, d)
    BY <1>1, <1>2 DEF Serves
  <2>2. InCallback(d)
    BY <1>1, <1>2 DEF Serves
  <2>3. mine[e] # 0
    BY <1>2, <2>1 DEF TypeOK
  <2>4. QED
    BY <2>1, <2>2, <2>3
<1>3. QED
  BY <1>1, <1>2 DEF Serves

\* SQLite's array for the callback: every wait that is registered, each once.
LEMMA OrderIsSeq ==
  ASSUME NEW c \in Conns, NEW q \in Orders(Registered(c))
  PROVE  /\ q \in Seq(Registered(c))
         /\ q = <<>> <=> Registered(c) = {}
         /\ \A i, j \in DOMAIN q : q[i] = q[j] => i = j
         /\ \A w \in Registered(c) : \E i \in DOMAIN q : q[i] = w
<1> DEFINE D == {d \in Conns : waitsFor[d] = c}
           f == [d \in D |-> mine[d]]
<1>1. IsFiniteSet(D)
  BY BoundsAssumption, FS_Subset
<1>2. f \in Surjection(D, Registered(c))
  BY DEF Surjection, Registered
<1>3. IsFiniteSet(Registered(c))
  BY <1>1, <1>2, FS_Surjection
<1>4. /\ Cardinality(Registered(c)) \in Nat
      /\ Cardinality(Registered(c)) = 0 <=> Registered(c) = {}
  BY <1>3, FS_CardinalityType, FS_EmptySet
<1>5. /\ q \in Seq(Registered(c)) /\ Len(q) = Cardinality(Registered(c))
      /\ \A i, j \in 1..Len(q) : q[i] = q[j] => i = j
      /\ \A w \in Registered(c) : \E i \in 1..Len(q) : q[i] = w
  BY <1>4, BijectionIsSeq DEF Orders
<1>6. QED
  BY <1>4, <1>5

\* The last wait of an array leaves nothing.
LEMMA TailOfOne ==
  ASSUME NEW S, NEW s \in Seq(S), Len(s) = 1
  PROVE  Tail(s) = <<>>
<1>1. Tail(s) \in Seq(S) /\ Len(Tail(s)) = 0
  OBVIOUS
<1>2. \A r \in Seq(S) : Len(r) = 0 => r = <<>>
  OBVIOUS
<1>3. QED
  BY <1>1, <1>2, Zenon

\* Any other leaves something.
LEMMA TailOfMore ==
  ASSUME NEW S, NEW s \in Seq(S), Len(s) > 1
  PROVE  Tail(s) # <<>>
<1>1. Len(s) \in Nat /\ Len(Tail(s)) = Len(s) - 1 /\ Len(<<>>) = 0
  OBVIOUS
<1>2. \A n \in Nat : n > 1 => n - 1 # 0
  OBVIOUS
<1>3. QED
  BY <1>1, <1>2, Zenon

\* What is left of the array when its first wait is served.
LEMMA TailOfSeq ==
  ASSUME NEW S, NEW s \in Seq(S), s # <<>>
  PROVE  /\ Tail(s) \in Seq(S) /\ 1 \in DOMAIN s
         /\ \A i \in DOMAIN Tail(s) : i + 1 \in DOMAIN s /\ i + 1 # 1 /\ Tail(s)[i] = s[i + 1]
         /\ \A i, j \in DOMAIN Tail(s) : i + 1 = j + 1 => i = j
         /\ \A i \in DOMAIN s : i # 1 => i - 1 \in DOMAIN Tail(s) /\ Tail(s)[i - 1] = s[i]
         /\ Len(s) > 1 => Tail(s) # <<>>
         /\ ~(Len(s) > 1) => Tail(s) = <<>>
<1>1. Len(s) \in Nat /\ Len(s) # 0
  OBVIOUS
<1>2. \A n \in Nat : n # 0 /\ ~(n > 1) => n = 1
  OBVIOUS
<1>3. ~(Len(s) > 1) => Len(s) = 1
  BY <1>1, <1>2, Zenon
<1>4. Len(Tail(s)) = Len(s) - 1 /\ Tail(s) \in Seq(S)
  OBVIOUS
<1>5. Len(s) = 1 => Tail(s) = <<>>
  BY TailOfOne
<1>6. Len(s) > 1 => Tail(s) # <<>>
  BY TailOfMore
<1>7. /\ 1 \in DOMAIN s
      /\ \A i \in DOMAIN Tail(s) : i + 1 \in DOMAIN s /\ i + 1 # 1 /\ Tail(s)[i] = s[i + 1]
      /\ \A i, j \in DOMAIN Tail(s) : i + 1 = j + 1 => i = j
  BY <1>4
<1>8. \A i \in DOMAIN s : i # 1 => i - 1 \in DOMAIN Tail(s) /\ Tail(s)[i - 1] = s[i]
  BY <1>4
<1>9. QED
  BY <1>3, <1>4, <1>5, <1>6, <1>7, <1>8

\* A statement that begins waits for nothing yet.
LEMMA BeginKeeps ==
  ASSUME IInv, NEW c \in Conns, NEW t \in Tables, Begin(c, t)
  PROVE  IInv'
<1>1. TypeOK'
  BY BoundsAssumption DEF IInv, TypeOK, Begin, Goto, sqliteVars, tableVars
<1>2. Shapes'
  BY DEF IInv, TypeOK, Shapes, Shape, Begin, Goto, sqliteVars
<1>3. Distinct'
  BY DEF IInv, TypeOK, Distinct, Begin
<1>4. Handles'
  BY DEF IInv, TypeOK, Handles, HasArg, Arg, InCallback, Begin, Goto, tableVars
<1>5. Served'
  <2>1. \A d \in Conns : /\ (InCallback(d)' <=> InCallback(d))
                         /\ (InCallback(d) => mine'[d] = mine[d])
    BY DEF IInv, TypeOK, InCallback, Begin, Goto
  <2>2. ASSUME NEW d \in Conns, NEW e \in Conns, InCallback(d), mine[e] # 0, Awaits(e, d)
        PROVE  mine'[e] = mine[e] /\ Awaits(e, d)'
    BY <2>2
       DEF IInv, TypeOK, InCallback, Awaits, Chan, Begin, Goto, sqliteVars, tableVars
  <2>3. pending' = pending /\ master' = master
    BY DEF Begin, sqliteVars
  <2>4. QED
    BY <2>1, <2>2, <2>3, ServedStays DEF IInv
<1>6. AllWaits'
  BY DEF IInv, TypeOK, AllWaits, Waits, Chan, InArray, InCallback, Begin, Goto,
         sqliteVars, tableVars
<1>7. Blockers'
  BY DEF IInv, TypeOK, Blockers, Holding, InTx, Begin, Goto, sqliteVars
<1>8. QED
  BY <1>1, <1>2, <1>3, <1>4, <1>5, <1>6, <1>7 DEF IInv

\* A step that gets its lock blocks nobody who has not asked.
LEMMA StepLocksKeeps ==
  ASSUME IInv, NEW c \in Conns, StepLocks(c)
  PROVE  IInv'
<1>1. TypeOK'
  BY DEF IInv, TypeOK, StepLocks, Goto, tableVars
<1>2. Shapes'
  BY DEF IInv, TypeOK, Shapes, Shape, StepLocks, Goto
<1>3. Distinct'
  BY DEF IInv, TypeOK, Distinct, StepLocks
<1>4. Handles'
  BY DEF IInv, TypeOK, Handles, HasArg, Arg, InCallback, StepLocks, Goto, tableVars
<1>5. Served'
  <2>1. \A d \in Conns : /\ (InCallback(d)' <=> InCallback(d))
                         /\ (InCallback(d) => mine'[d] = mine[d])
    BY DEF IInv, TypeOK, InCallback, StepLocks, Goto
  <2>2. ASSUME NEW d \in Conns, NEW e \in Conns, InCallback(d), mine[e] # 0, Awaits(e, d)
        PROVE  mine'[e] = mine[e] /\ Awaits(e, d)'
    BY <2>2
       DEF IInv, TypeOK, InCallback, Awaits, Chan, StepLocks, Goto, sqliteVars, tableVars
  <2>3. pending' = pending /\ master' = master
    BY DEF StepLocks, sqliteVars
  <2>4. QED
    BY <2>1, <2>2, <2>3, ServedStays DEF IInv
<1>6. AllWaits'
  BY DEF IInv, TypeOK, AllWaits, Waits, Chan, InArray, InCallback, StepLocks, Goto,
         tableVars
<1>7. Blockers'
  BY DEF IInv, TypeOK, Blockers, Holding, InTx, StepLocks, Goto
<1>8. QED
  BY <1>1, <1>2, <1>3, <1>4, <1>5, <1>6, <1>7 DEF IInv

\* The blocker of a refused step holds the table's lock.
LEMMA StepBlockedKeeps ==
  ASSUME IInv, NEW c \in Conns, StepBlocked(c)
  PROVE  IInv'
<1>1. TypeOK'
  BY NamesAssumption DEF IInv, TypeOK, Shapes, Shape, StepBlocked, Goto, sqliteVars, tableVars
<1>2. Shapes'
  BY DEF IInv, TypeOK, Shapes, Shape, StepBlocked, Goto
<1>3. Distinct'
  BY DEF IInv, TypeOK, Distinct, StepBlocked
<1>4. Handles'
  BY DEF IInv, TypeOK, Handles, HasArg, Arg, InCallback, StepBlocked, Goto, tableVars
<1>5. Served'
  BY NamesAssumption
     DEF IInv, TypeOK, Served, Serves, Awaits, InCallback, StepBlocked, Goto
<1>6. AllWaits'
  BY DEF IInv, TypeOK, AllWaits, Waits, Chan, InArray, InCallback, StepBlocked, Goto,
         tableVars
<1>7. Blockers'
  BY NamesAssumption
     DEF IInv, TypeOK, Shapes, Shape, Blockers, Holding, InTx, StepBlocked, Goto
<1>8. QED
  BY <1>1, <1>2, <1>3, <1>4, <1>5, <1>6, <1>7 DEF IInv

\* An interrupted step is in no wait; its transaction is still to be announced.
LEMMA StepInterruptedKeeps ==
  ASSUME IInv, NEW c \in Conns, StepInterrupted(c)
  PROVE  IInv'
<1>a. PICK l \in {"idle", "unlock"} :
        /\ pc' = [pc EXCEPT ![c] = l]
        /\ lock' = lock \/ (l = "unlock" /\ lock' = Without(c))
  BY DEF StepInterrupted, Goto
<1>b. UNCHANGED <<blockedBy, waitsFor, master, seqnum, table, waits, txs, mine,
                  pending, want, rc>>
  BY DEF StepInterrupted, tableVars
<1>c. pc[c] = "step"
  BY DEF StepInterrupted
<1>1. TypeOK'
  BY DEF IInv, TypeOK, StepInterrupted, Goto, Without, tableVars
<1>2. Shapes'
  <2>1. \A d \in Conns, t \in Tables : lock[t] # d => lock'[t] # d
    BY <1>a, NamesAssumption DEF IInv, TypeOK, Without
  <2>2. QED
    BY <1>a, <1>b, <1>c, <2>1 DEF IInv, TypeOK, Shapes, Shape
<1>3. Distinct'
  BY DEF IInv, TypeOK, Distinct, StepInterrupted
<1>4. Handles'
  BY DEF IInv, TypeOK, Handles, HasArg, Arg, InCallback, StepInterrupted, Goto, tableVars
<1>5. Served'
  <2>1. \A d \in Conns : /\ (InCallback(d)' <=> InCallback(d))
                         /\ (InCallback(d) => mine'[d] = mine[d])
    BY <1>a, <1>b, <1>c DEF IInv, TypeOK, InCallback, StepInterrupted, Goto
  <2>2. ASSUME NEW d \in Conns, NEW e \in Conns, InCallback(d), mine[e] # 0, Awaits(e, d)
        PROVE  mine'[e] = mine[e] /\ Awaits(e, d)'
    BY <1>a, <1>b, <1>c, <2>2
       DEF IInv, TypeOK, InCallback, Awaits, Chan, StepInterrupted, Goto, sqliteVars, tableVars
  <2>3. pending' = pending /\ master' = master
    BY DEF StepInterrupted, sqliteVars
  <2>4. QED
    BY <2>1, <2>2, <2>3, ServedStays DEF IInv
<1>6. AllWaits'
  BY <1>a, <1>b, <1>c
     DEF IInv, TypeOK, Shapes, Shape, AllWaits, Waits, Chan, InArray, InCallback
<1>7. Blockers'
  <2>1. \A d \in Conns : Holding(d) => Holding(d)'
    BY <1>a, <1>c DEF IInv, TypeOK, Holding, InTx, Without
  <2>2. QED
    BY <1>b, <2>1 DEF IInv, TypeOK, Blockers
<1>8. QED
  BY <1>1, <1>2, <1>3, <1>4, <1>5, <1>6, <1>7 DEF IInv

\* A new wait has a number and a handle of its own.
LEMMA AddKeeps ==
  ASSUME IInv, NEW c \in Conns, Add(c)
  PROVE  IInv'
<1>1. TypeOK'
  BY DEF IInv, TypeOK, Add, Goto, NewWait, sqliteVars
<1>2. Shapes'
  BY DEF IInv, TypeOK, Shapes, Shape, Add, Goto, sqliteVars
<1>3. Distinct'
  BY DEF IInv, TypeOK, Distinct, Add
<1>4. Handles'
  <2>1. \A h \in DOMAIN table' : h < seqnum'
    BY DEF IInv, TypeOK, Handles, Add
  <2>2. ASSUME NEW d \in Conns, d # c, HasArg(d)'
        PROVE  Arg(d)' \in DOMAIN table' /\ table'[Arg(d)'] = mine'[d]
    <3>1. HasArg(d) /\ mine'[d] = mine[d] /\ Arg(d)' = Arg(d) /\ Arg(d) # seqnum
      BY <2>2 DEF IInv, TypeOK, Shapes, Shape, Handles, HasArg, Arg, InCallback, Add, Goto
    <3>2. QED
      BY <3>1 DEF IInv, Handles, Add
  <2>3. Arg(c)' \in DOMAIN table' /\ table'[Arg(c)'] = mine'[c]
    BY DEF IInv, TypeOK, Arg, Add, NewWait
  <2>4. QED
    BY <2>1, <2>2, <2>3 DEF Handles
<1>5. Served'
  <2>1. \A d \in Conns : /\ (InCallback(d)' <=> InCallback(d))
                         /\ (InCallback(d) => mine'[d] = mine[d])
    BY DEF IInv, TypeOK, Shapes, Shape, InCallback, Add, Goto
  <2>2. ASSUME NEW d \in Conns, NEW e \in Conns, InCallback(d), mine[e] # 0, Awaits(e, d)
        PROVE  mine'[e] = mine[e] /\ Awaits(e, d)'
    BY <2>2
       DEF IInv, TypeOK, InCallback, Awaits, Chan, Add, Goto, sqliteVars, tableVars, NewWait
  <2>3. pending' = pending /\ master' = master
    BY DEF Add, sqliteVars
  <2>4. QED
    BY <2>1, <2>2, <2>3, ServedStays DEF IInv
<1>6. AllWaits'
  BY DEF IInv, TypeOK, Shapes, Shape, AllWaits, Waits, Chan, InArray, InCallback, Add,
         Goto, NewWait, sqliteVars
<1>7. Blockers'
  BY DEF IInv, TypeOK, Blockers, Holding, InTx, Add, Goto, sqliteVars
<1>8. QED
  BY <1>1, <1>2, <1>3, <1>4, <1>5, <1>6, <1>7 DEF IInv

\* The callback that runs at once serves the caller's own wait.
LEMMA NotifyNowKeeps ==
  ASSUME IInv, NEW c \in Conns, NotifyNow(c)
  PROVE  IInv'
<1>a. /\ pc[c] = "notify" /\ master = None /\ blockedBy[c] = None
      /\ mine[c] \in 1..Len(waits) /\ mine[c] # 0
      /\ Chan(c) = "empty" /\ waitsFor[c] = None
  BY DEF IInv, TypeOK, Shapes, Shape, AllWaits, Waits, NotifyNow
<1>b. /\ master' = c /\ pc' = [pc EXCEPT ![c] = "cb.get"]
      /\ pending' = [pending EXCEPT ![c] = <<mine[c]>>]
      /\ UNCHANGED <<lock, blockedBy, waitsFor, seqnum, table, waits, txs, mine, want, rc>>
  BY DEF NotifyNow, Goto, tableVars
<1>c. \A d \in Conns : ~InCallback(d) /\ pending[d] = <<>>
  BY <1>a, NamesAssumption DEF IInv, Served, Serves
<1>1. TypeOK'
  BY <1>a, <1>b DEF IInv, TypeOK
<1>2. Shapes'
  BY DEF IInv, TypeOK, Shapes, Shape, NotifyNow, Goto
<1>3. Distinct'
  BY DEF IInv, TypeOK, Distinct, NotifyNow
<1>4. Handles'
  BY DEF IInv, TypeOK, Handles, HasArg, Arg, InCallback, NotifyNow, Goto, tableVars
<1>5. Served'
  <2>1. Awaits(c, c)'
    BY <1>a, <1>b DEF Awaits, Chan
  <2>2. Serves(c)'
    BY <1>a, <1>b, <2>1 DEF IInv, TypeOK, Serves, InCallback
  <2>3. ASSUME NEW d \in Conns, d # c PROVE Serves(d)'
    BY <1>b, <1>c, <2>3 DEF IInv, TypeOK, Serves, InCallback
  <2>4. QED
    BY <2>2, <2>3 DEF Served
<1>6. AllWaits'
  <2> SUFFICES ASSUME NEW d \in Conns PROVE Waits(d)'
    BY DEF AllWaits
  <2>1. ~InArray(d)
    BY <1>c DEF InArray
  <2>2. QED
    BY <1>a, <1>b, <1>c, <2>1 DEF IInv, TypeOK, AllWaits, Waits, Chan, InCallback
<1>7. Blockers'
  BY DEF IInv, TypeOK, Blockers, Holding, InTx, NotifyNow, Goto
<1>8. QED
  BY <1>1, <1>2, <1>3, <1>4, <1>5, <1>6, <1>7 DEF IInv

\* Who registers is registered with its blocker.
LEMMA NotifyLaterKeeps ==
  ASSUME IInv, NEW c \in Conns, NotifyLater(c)
  PROVE  IInv'
<1>1. TypeOK'
  BY DEF IInv, TypeOK, NotifyLater, Goto, tableVars
<1>2. Shapes'
  BY DEF IInv, TypeOK, Shapes, Shape, NotifyLater, Goto
<1>3. Distinct'
  BY DEF IInv, TypeOK, Distinct, NotifyLater
<1>4. Handles'
  BY DEF IInv, TypeOK, Handles, HasArg, Arg, InCallback, NotifyLater, Goto, tableVars
<1>5. Served'
  BY NamesAssumption
     DEF IInv, TypeOK, Served, Serves, Awaits, InCallback, NotifyLater, Goto
<1>6. AllWaits'
  BY DEF IInv, TypeOK, AllWaits, Waits, Chan, InArray, InCallback, NotifyLater, Goto,
         tableVars
<1>7. Blockers'
  BY DEF IInv, TypeOK, Blockers, Holding, InTx, NotifyLater, Goto
<1>8. QED
  BY <1>1, <1>2, <1>3, <1>4, <1>5, <1>6, <1>7 DEF IInv

\* Who is refused is not registered.
LEMMA NotifyDeadlockKeeps ==
  ASSUME IInv, NEW c \in Conns, NotifyDeadlock(c)
  PROVE  IInv'
<1>1. TypeOK'
  BY DEF IInv, TypeOK, NotifyDeadlock, Goto, sqliteVars, tableVars
<1>2. Shapes'
  BY DEF IInv, TypeOK, Shapes, Shape, NotifyDeadlock, Goto, sqliteVars
<1>3. Distinct'
  BY DEF IInv, TypeOK, Distinct, NotifyDeadlock
<1>4. Handles'
  BY DEF IInv, TypeOK, Handles, HasArg, Arg, InCallback, NotifyDeadlock, Goto, tableVars
<1>5. Served'
  BY NamesAssumption
     DEF IInv, TypeOK, Served, Serves, Awaits, InCallback, NotifyDeadlock, Goto,
         sqliteVars
<1>6. AllWaits'
  BY DEF IInv, TypeOK, AllWaits, Waits, Chan, InArray, InCallback, NotifyDeadlock, Goto,
         sqliteVars, tableVars
<1>7. Blockers'
  BY DEF IInv, TypeOK, Blockers, Holding, InTx, NotifyDeadlock, Goto, sqliteVars
<1>8. QED
  BY <1>1, <1>2, <1>3, <1>4, <1>5, <1>6, <1>7 DEF IInv

\* Who takes its message is in no array and not registered.
LEMMA ReceiveKeeps ==
  ASSUME IInv, NEW c \in Conns, Receive(c)
  PROVE  IInv'
<1>a. waits \in Seq(WaitSet) /\ mine[c] \in 1..Len(waits)
  BY DEF IInv, TypeOK, Shapes, Shape, Receive, WaitSet
<1>b. /\ waits' \in Seq(WaitSet) /\ Len(waits') = Len(waits)
      /\ \A j \in 1..Len(waits) :
           waits'[j].arg = waits[j].arg /\ (j # mine[c] => waits'[j].chan = waits[j].chan)
  BY <1>a, SetChan DEF Receive
<1>c. UNCHANGED <<lock, blockedBy, waitsFor, master, seqnum, table, txs,
                  mine, pending, want, rc>>
  BY DEF Receive, sqliteVars
<1>d. pc[c] = "receive" /\ Chan(c) = "full" /\ pc' = [pc EXCEPT ![c] = "free"]
  BY DEF Receive, Goto, Chan
<1>1. TypeOK'
  BY <1>a, <1>b, <1>c, <1>d DEF IInv, TypeOK, WaitSet
<1>2. Shapes'
  BY DEF IInv, TypeOK, Shapes, Shape, Receive, Goto, sqliteVars
<1>3. Distinct'
  BY DEF IInv, TypeOK, Distinct, Receive
<1>4. Handles'
  BY DEF IInv, TypeOK, Handles, HasArg, Arg, InCallback, Receive, Goto
<1>5. Served'
  <2>1. \A d \in Conns : /\ (InCallback(d)' <=> InCallback(d))
                         /\ (InCallback(d) => mine'[d] = mine[d])
    BY <1>a, <1>b, <1>c, <1>d DEF IInv, TypeOK, InCallback
  <2>2. ASSUME NEW d \in Conns, NEW e \in Conns, InCallback(d), mine[e] # 0, Awaits(e, d)
        PROVE  mine'[e] = mine[e] /\ Awaits(e, d)'
    BY <1>a, <1>b, <1>c, <1>d, <2>2 DEF IInv, TypeOK, Distinct, InCallback, Awaits, Chan
  <2>3. QED
    BY <1>c, <2>1, <2>2, ServedStays DEF IInv
<1>6. AllWaits'
  <2> SUFFICES ASSUME NEW d \in Conns PROVE Waits(d)'
    BY DEF AllWaits
  <2>1. CASE d = c
    <3>1. ~InArray(c)
      BY <1>a, <1>d DEF IInv, TypeOK, Served, Serves, Awaits, Chan, InArray, Distinct
    <3>2. waitsFor[c] = None /\ blockedBy[c] = None
      BY <1>d, <3>1 DEF IInv, AllWaits, Waits
    <3>3. QED
      BY <1>c, <1>d, <2>1, <3>2 DEF IInv, TypeOK, Waits, InCallback
  <2>2. CASE d # c
    <3>1. InArray(d)' <=> InArray(d)
      BY <1>c DEF InArray
    <3>2. mine[d] # 0 => Chan(d)' = Chan(d)
      BY <1>a, <1>b, <1>c, <2>2 DEF IInv, TypeOK, Distinct, Chan
    <3>3. pc'[d] = pc[d] /\ Waits(d) /\ Shape(d)
      BY <1>d, <2>2 DEF IInv, TypeOK, AllWaits, Shapes
    <3>4. QED
      BY <1>c, <3>1, <3>2, <3>3 DEF Waits, Shape, InCallback
  <2>3. QED
    BY <2>1, <2>2
<1>7. Blockers'
  BY DEF IInv, TypeOK, Blockers, Holding, InTx, Receive, Goto, sqliteVars
<1>8. QED
  BY <1>1, <1>2, <1>3, <1>4, <1>5, <1>6, <1>7 DEF IInv

\* The argument that is freed is nobody else's.
LEMMA FreeKeeps ==
  ASSUME IInv, NEW c \in Conns, Free(c)
  PROVE  IInv'
<1>a. waits \in Seq(WaitSet) /\ mine[c] \in 1..Len(waits)
  BY DEF IInv, TypeOK, Shapes, Shape, Free, WaitSet
<1>b. /\ waits' \in Seq(WaitSet) /\ Len(waits') = Len(waits)
      /\ \A j \in 1..Len(waits) :
           waits'[j].chan = waits[j].chan /\ (j # mine[c] => waits'[j].arg = waits[j].arg)
  BY <1>a, FreeArg DEF Free
<1>c. UNCHANGED <<lock, blockedBy, waitsFor, master, seqnum, table, txs,
                  mine, pending, want, rc>>
  BY DEF Free, sqliteVars
<1>d. pc[c] = "free" /\ pc' = [pc EXCEPT ![c] = "remove"]
  BY DEF Free, Goto, Chan
<1>1. TypeOK'
  BY <1>a, <1>b, <1>c, <1>d DEF IInv, TypeOK, WaitSet
<1>2. Shapes'
  BY DEF IInv, TypeOK, Shapes, Shape, Free, Goto, sqliteVars
<1>3. Distinct'
  BY DEF IInv, TypeOK, Distinct, Free
<1>4. Handles'
  <2>1. ASSUME NEW d \in Conns, HasArg(d)' PROVE HasArg(d) /\ Arg(d)' = Arg(d)
    <3>1. HasArg(d) /\ d # c
      BY <1>c, <1>d, <2>1 DEF IInv, TypeOK, HasArg, InCallback
    <3>2. mine[d] \in 1..Len(waits) /\ mine[d] # mine[c]
      BY <1>d, <3>1 DEF IInv, TypeOK, Shapes, Shape, Distinct, HasArg
    <3>3. QED
      BY <1>b, <1>c, <3>1, <3>2 DEF Arg
  <2>2. QED
    BY <1>c, <2>1 DEF IInv, Handles
<1>5. Served'
  <2>1. \A d \in Conns : /\ (InCallback(d)' <=> InCallback(d))
                         /\ (InCallback(d) => mine'[d] = mine[d])
    BY <1>a, <1>b, <1>c, <1>d DEF IInv, TypeOK, InCallback
  <2>2. ASSUME NEW d \in Conns, NEW e \in Conns, InCallback(d), mine[e] # 0, Awaits(e, d)
        PROVE  mine'[e] = mine[e] /\ Awaits(e, d)'
    BY <1>a, <1>b, <1>c, <1>d, <2>2 DEF IInv, TypeOK, Distinct, InCallback, Awaits, Chan
  <2>3. QED
    BY <1>c, <2>1, <2>2, ServedStays DEF IInv
<1>6. AllWaits'
  BY DEF IInv, TypeOK, AllWaits, Waits, Chan, InArray, InCallback, Free, Goto, sqliteVars
<1>7. Blockers'
  BY DEF IInv, TypeOK, Blockers, Holding, InTx, Free, Goto, sqliteVars
<1>8. QED
  BY <1>1, <1>2, <1>3, <1>4, <1>5, <1>6, <1>7 DEF IInv

\* The entry that is removed is nobody else's.
LEMMA RemoveKeeps ==
  ASSUME IInv, NEW c \in Conns, Remove(c)
  PROVE  IInv'
<1>1. TypeOK'
  BY DEF IInv, TypeOK, Remove, Goto, sqliteVars
<1>2. Shapes'
  BY DEF IInv, TypeOK, Shapes, Shape, Remove, Goto, sqliteVars
<1>3. Distinct'
  BY DEF IInv, TypeOK, Distinct, Remove
<1>4. Handles'
  <2>1. /\ table' = [h \in {i \in DOMAIN table : table[i] # mine[c]} |-> table[h]]
        /\ pc[c] = "remove" /\ pc' = [pc EXCEPT ![c] = "close"]
        /\ UNCHANGED <<seqnum, waits, mine>>
    BY DEF Remove, Goto
  <2>2. ASSUME NEW d \in Conns, HasArg(d)'
        PROVE  Arg(d)' \in DOMAIN table' /\ table'[Arg(d)'] = mine'[d]
    <3>1. d # c /\ HasArg(d)
      BY <2>1, <2>2 DEF IInv, TypeOK, HasArg, InCallback
    <3>2. mine[d] # mine[c]
      BY <3>1 DEF IInv, Shapes, Shape, HasArg, Distinct
    <3>3. Arg(d) \in DOMAIN table /\ table[Arg(d)] = mine[d]
      BY <3>1 DEF IInv, Handles
    <3>4. Arg(d)' = Arg(d) /\ mine'[d] = mine[d]
      BY <2>1 DEF Arg
    <3>5. QED
      BY <2>1, <3>2, <3>3, <3>4
  <2>3. QED
    BY <2>1, <2>2 DEF IInv, Handles
<1>5. Served'
  <2>1. \A d \in Conns : /\ (InCallback(d)' <=> InCallback(d))
                         /\ (InCallback(d) => mine'[d] = mine[d])
    BY DEF IInv, TypeOK, InCallback, Remove, Goto
  <2>2. ASSUME NEW d \in Conns, NEW e \in Conns, InCallback(d), mine[e] # 0, Awaits(e, d)
        PROVE  mine'[e] = mine[e] /\ Awaits(e, d)'
    BY <2>2
       DEF IInv, TypeOK, InCallback, Awaits, Chan, Remove, Goto, sqliteVars, tableVars
  <2>3. pending' = pending /\ master' = master
    BY DEF Remove, sqliteVars
  <2>4. QED
    BY <2>1, <2>2, <2>3, ServedStays DEF IInv
<1>6. AllWaits'
  BY DEF IInv, TypeOK, AllWaits, Waits, Chan, InArray, InCallback, Remove, Goto,
         sqliteVars
<1>7. Blockers'
  BY DEF IInv, TypeOK, Blockers, Holding, InTx, Remove, Goto, sqliteVars
<1>8. QED
  BY <1>1, <1>2, <1>3, <1>4, <1>5, <1>6, <1>7 DEF IInv

\* The channel that is closed is nobody else's.
LEMMA CloseChannelKeeps ==
  ASSUME IInv, NEW c \in Conns, CloseChannel(c)
  PROVE  IInv'
<1>a. waits \in Seq(WaitSet) /\ mine[c] \in 1..Len(waits)
  BY DEF IInv, TypeOK, Shapes, Shape, CloseChannel, WaitSet
<1>b. /\ waits' \in Seq(WaitSet) /\ Len(waits') = Len(waits)
      /\ \A j \in 1..Len(waits) :
           waits'[j].arg = waits[j].arg /\ (j # mine[c] => waits'[j].chan = waits[j].chan)
  BY <1>a, SetChan DEF CloseChannel
<1>c. UNCHANGED <<lock, blockedBy, waitsFor, master, seqnum, table, txs,
                  pending, want, rc>>
  BY DEF CloseChannel, sqliteVars
<1>d. /\ pc[c] = "close" /\ mine' = [mine EXCEPT ![c] = 0]
      /\ pc' = [pc EXCEPT ![c] = IF rc[c] = "ok" THEN "step" ELSE "idle"]
  BY DEF CloseChannel, Goto, Chan
<1>1. TypeOK'
  BY <1>a, <1>b, <1>c, <1>d DEF IInv, TypeOK, WaitSet
<1>2. Shapes'
  BY <1>b, <1>c, <1>d DEF IInv, TypeOK, Shapes, Shape
<1>3. Distinct'
  BY DEF IInv, TypeOK, Distinct, CloseChannel
<1>4. Handles'
  BY DEF IInv, TypeOK, Handles, HasArg, Arg, InCallback, CloseChannel, Goto
<1>5. Served'
  <2>1. \A d \in Conns : /\ (InCallback(d)' <=> InCallback(d))
                         /\ (InCallback(d) => mine'[d] = mine[d])
    BY <1>a, <1>b, <1>c, <1>d DEF IInv, TypeOK, InCallback
  <2>2. ASSUME NEW d \in Conns, NEW e \in Conns, InCallback(d), mine[e] # 0, Awaits(e, d)
        PROVE  mine'[e] = mine[e] /\ Awaits(e, d)'
    BY <1>a, <1>b, <1>c, <1>d, <2>2 DEF IInv, TypeOK, Distinct, InCallback, Awaits, Chan
  <2>3. QED
    BY <1>c, <2>1, <2>2, ServedStays DEF IInv
<1>6. AllWaits'
  <2> SUFFICES ASSUME NEW d \in Conns PROVE Waits(d)'
    BY DEF AllWaits
  <2>1. CASE d = c
    BY <1>c, <1>d, <2>1 DEF IInv, TypeOK, AllWaits, Waits, InCallback
  <2>2. CASE d # c
    <3>1. mine'[d] = mine[d] /\ pc'[d] = pc[d] /\ Waits(d) /\ Shape(d)
      BY <1>d, <2>2 DEF IInv, TypeOK, AllWaits, Shapes
    <3>2. InArray(d)' <=> InArray(d)
      BY <1>c, <3>1 DEF InArray
    <3>3. mine[d] # 0 => Chan(d)' = Chan(d)
      BY <1>a, <1>b, <2>2, <3>1 DEF IInv, TypeOK, Distinct, Chan
    <3>4. QED
      BY <1>c, <3>1, <3>2, <3>3 DEF Waits, Shape, InCallback
  <2>3. QED
    BY <2>1, <2>2
<1>7. Blockers'
  BY DEF IInv, TypeOK, Blockers, Holding, InTx, CloseChannel, Goto, sqliteVars
<1>8. QED
  BY <1>1, <1>2, <1>3, <1>4, <1>5, <1>6, <1>7 DEF IInv

\* The locks are gone, those who wait are still to be called back.
LEMMA ConcludeKeeps ==
  ASSUME IInv, NEW c \in Conns, Conclude(c)
  PROVE  IInv'
<1>1. TypeOK'
  BY DEF IInv, TypeOK, Conclude, Goto, Without, tableVars
<1>2. Shapes'
  BY NamesAssumption DEF IInv, TypeOK, Shapes, Shape, Conclude, Goto, Without
<1>3. Distinct'
  BY DEF IInv, TypeOK, Distinct, Conclude
<1>4. Handles'
  BY DEF IInv, TypeOK, Handles, HasArg, Arg, InCallback, Conclude, Goto, tableVars
<1>5. Served'
  <2>1. \A d \in Conns : /\ (InCallback(d)' <=> InCallback(d))
                         /\ (InCallback(d) => mine'[d] = mine[d])
    BY DEF IInv, TypeOK, InCallback, Conclude, Goto
  <2>2. ASSUME NEW d \in Conns, NEW e \in Conns, InCallback(d), mine[e] # 0, Awaits(e, d)
        PROVE  mine'[e] = mine[e] /\ Awaits(e, d)'
    BY <2>2
       DEF IInv, TypeOK, InCallback, Awaits, Chan, Conclude, Goto, sqliteVars, tableVars
  <2>3. pending' = pending /\ master' = master
    BY DEF Conclude, sqliteVars
  <2>4. QED
    BY <2>1, <2>2, <2>3, ServedStays DEF IInv
<1>6. AllWaits'
  BY DEF IInv, TypeOK, AllWaits, Waits, Chan, InArray, InCallback, Conclude, Goto,
         tableVars
<1>7. Blockers'
  BY DEF IInv, TypeOK, Blockers, Holding, InTx, Conclude, Goto, Without
<1>8. QED
  BY <1>1, <1>2, <1>3, <1>4, <1>5, <1>6, <1>7 DEF IInv

\* Who was registered is in the array now.
LEMMA UnlockKeeps ==
  ASSUME IInv, NEW c \in Conns, Unlock(c)
  PROVE  IInv'
<1>a. /\ pc[c] = "unlock" /\ master = None /\ mine[c] = 0
      /\ blockedBy' = [d \in Conns |-> IF blockedBy[d] = c THEN None ELSE blockedBy[d]]
      /\ waitsFor' = [d \in Conns |-> IF waitsFor[d] = c THEN None ELSE waitsFor[d]]
      /\ UNCHANGED <<lock, seqnum, table, waits, txs, mine, want, rc>>
  BY DEF IInv, Shapes, Shape, Unlock, tableVars
<1>b. PICK q \in Orders(Registered(c)) : pending' = [pending EXCEPT ![c] = q]
  BY DEF Unlock
<1>c. /\ q \in Seq(Registered(c))
      /\ q = <<>> <=> Registered(c) = {}
      /\ \A i, j \in DOMAIN q : q[i] = q[j] => i = j
      /\ \A w \in Registered(c) : \E i \in DOMAIN q : q[i] = w
  BY <1>b, OrderIsSeq
<1>d. \/ /\ Registered(c) = {} /\ master' = None /\ pc' = [pc EXCEPT ![c] = "idle"]
      \/ /\ Registered(c) # {} /\ master' = c /\ pc' = [pc EXCEPT ![c] = "cb.get"]
  BY <1>a DEF Unlock, Goto
<1>e. \A w \in Registered(c) :
        \E d \in Conns \ {c} : /\ mine[d] = w /\ mine[d] # 0 /\ waitsFor[d] = c
                              /\ blockedBy[d] = c /\ pc[d] = "receive" /\ Chan(d) = "empty"
  BY <1>a, NamesAssumption DEF IInv, Registered, AllWaits, Waits, Shapes, Shape
<1>f. \A d \in Conns : ~InCallback(d) /\ pending[d] = <<>>
  BY <1>a, NamesAssumption DEF IInv, Served, Serves
<1>1. TypeOK'
  <2>1. Registered(c) \subseteq 1..Len(waits)
    BY <1>e DEF IInv, TypeOK
  <2>2. q \in Seq(1..Len(waits))
    BY <1>c, <2>1
  <2>3. QED
    BY <1>a, <1>b, <1>d, <2>2 DEF IInv, TypeOK
<1>2. Shapes'
  BY <1>a, <1>d DEF IInv, TypeOK, Shapes, Shape
<1>3. Distinct'
  BY DEF IInv, TypeOK, Distinct, Unlock
<1>4. Handles'
  BY <1>a, <1>d DEF IInv, TypeOK, Handles, HasArg, Arg, InCallback
<1>5. Served'
  <2>1. Serves(c)'
    <3>1. pending'[c] = q
      BY <1>b DEF IInv, TypeOK
    <3>2. ASSUME NEW i \in DOMAIN q
          PROVE  \E d \in Conns : mine'[d] = q[i] /\ Awaits(d, c)'
      <4>1. q[i] \in Registered(c)
        BY <1>c, <3>2
      <4>2. PICK d \in Conns \ {c} : /\ mine[d] = q[i] /\ waitsFor[d] = c
                                    /\ blockedBy[d] = c /\ pc[d] = "receive" /\ Chan(d) = "empty"
        BY <1>e, <4>1
      <4>3. Awaits(d, c)'
        BY <1>a, <1>d, <4>2 DEF IInv, TypeOK, Awaits, Chan
      <4>4. QED
        BY <1>a, <4>2, <4>3
    <3>3. QED
      BY <1>a, <1>c, <1>d, <3>1, <3>2 DEF IInv, TypeOK, Serves, InCallback
  <2>2. ASSUME NEW d \in Conns, d # c PROVE Serves(d)'
    BY <1>b, <1>d, <1>f, <2>2 DEF IInv, TypeOK, Serves, InCallback
  <2>3. QED
    BY <2>1, <2>2 DEF Served
<1>6. AllWaits'
  <2> SUFFICES ASSUME NEW d \in Conns PROVE Waits(d)'
    BY DEF AllWaits
  <2>1. Waits(d) /\ ~InArray(d)
    BY <1>f DEF IInv, AllWaits, InArray
  <2>2. waitsFor[d] = c => InArray(d)'
    <3>1. waitsFor[d] = c => mine[d] \in Registered(c)
      BY DEF Registered
    <3>2. QED
      BY <1>a, <1>b, <1>c, <3>1 DEF IInv, TypeOK, InArray
  <2>3. pc'[d] = pc[d] \/ (d = c /\ pc'[c] \in {"idle", "cb.get"})
    BY <1>d DEF IInv, TypeOK
  <2>4. waitsFor'[d] \in {None, waitsFor[d]} /\ blockedBy'[d] \in {None, blockedBy[d]}
    BY <1>a
  <2>5. QED
    BY <1>a, <2>1, <2>2, <2>3, <2>4, NamesAssumption DEF Waits, Chan, InCallback
<1>7. Blockers'
  BY DEF IInv, TypeOK, Blockers, Holding, InTx, Unlock, Goto
<1>8. QED
  BY <1>1, <1>2, <1>3, <1>4, <1>5, <1>6, <1>7 DEF IInv

\* Looking up a handle changes nothing.
LEMMA CallbackGetKeeps ==
  ASSUME IInv, NEW c \in Conns, CallbackGet(c)
  PROVE  IInv'
<1>1. TypeOK'
  BY DEF IInv, TypeOK, CallbackGet, Goto, sqliteVars, tableVars
<1>2. Shapes'
  BY DEF IInv, TypeOK, Shapes, Shape, CallbackGet, Goto, sqliteVars
<1>3. Distinct'
  BY DEF IInv, TypeOK, Distinct, CallbackGet
<1>4. Handles'
  BY DEF IInv, TypeOK, Handles, HasArg, Arg, InCallback, CallbackGet, Goto, tableVars
<1>5. Served'
  <2>1. \A d \in Conns : /\ (InCallback(d)' <=> InCallback(d))
                         /\ (InCallback(d) => mine'[d] = mine[d])
    BY DEF IInv, TypeOK, InCallback, CallbackGet, Goto
  <2>2. ASSUME NEW d \in Conns, NEW e \in Conns, InCallback(d), mine[e] # 0, Awaits(e, d)
        PROVE  mine'[e] = mine[e] /\ Awaits(e, d)'
    BY <2>2
       DEF IInv, TypeOK, InCallback, Awaits, Chan, CallbackGet, Goto, sqliteVars, tableVars
  <2>3. pending' = pending /\ master' = master
    BY DEF CallbackGet, sqliteVars
  <2>4. QED
    BY <2>1, <2>2, <2>3, ServedStays DEF IInv
<1>6. AllWaits'
  BY DEF IInv, TypeOK, AllWaits, Waits, Chan, InArray, InCallback, CallbackGet, Goto,
         sqliteVars, tableVars
<1>7. Blockers'
  BY DEF IInv, TypeOK, Blockers, Holding, InTx, CallbackGet, Goto, sqliteVars
<1>8. QED
  BY <1>1, <1>2, <1>3, <1>4, <1>5, <1>6, <1>7 DEF IInv

\* The first wait of the array has its message, the others stay in it.
LEMMA CallbackSendKeeps ==
  ASSUME IInv, NEW c \in Conns, CallbackSend(c)
  PROVE  IInv'
<1>a. /\ pc[c] = "cb.send" /\ master = c
      /\ pending[c] \in Seq(1..Len(waits)) /\ pending[c] # <<>>
  BY DEF IInv, TypeOK, Served, Serves, CallbackSend, InCallback
<1>b. \A d \in Conns : InCallback(d) => d = c
  BY <1>a DEF IInv, Served, Serves
<1>c. PICK e \in Conns : mine[e] = pending[c][1] /\ Awaits(e, c)
  BY <1>a DEF IInv, Served, Serves
<1>d. mine[e] \in 1..Len(waits) /\ mine[e] # 0 /\ HasArg(e)
  BY <1>a, <1>c DEF IInv, TypeOK, Awaits, HasArg, InCallback
<1>e. Target(c) = mine[e]
  BY <1>a, <1>c, <1>d DEF IInv, Handles, Target, Arg
<1>f. /\ waits' \in Seq(WaitSet) /\ Len(waits') = Len(waits) /\ waits'[mine[e]].chan = "full"
      /\ \A j \in 1..Len(waits) :
           waits'[j].arg = waits[j].arg /\ (j # mine[e] => waits'[j].chan = waits[j].chan)
  <2>1. waits' = [waits EXCEPT ![mine[e]].chan = "full"]
    BY <1>e, Zenon DEF CallbackSend
  <2>2. waits \in Seq(WaitSet)
    BY DEF IInv, TypeOK, WaitSet
  <2>3. QED
    BY <1>d, <2>1, <2>2, SetChan
<1> DEFINE rest == Tail(pending[c])
<1>g. pending' = [pending EXCEPT ![c] = rest] /\ pending'[c] = rest
  BY DEF CallbackSend, IInv, TypeOK
<1>h. /\ rest \in Seq(1..Len(waits)) /\ 1 \in DOMAIN pending[c]
      /\ \A i \in DOMAIN rest :
           i + 1 \in DOMAIN pending[c] /\ i + 1 # 1 /\ rest[i] = pending[c][i + 1]
      /\ \A i, j \in DOMAIN rest : i + 1 = j + 1 => i = j
      /\ \A i \in DOMAIN pending[c] :
           i # 1 => i - 1 \in DOMAIN rest /\ rest[i - 1] = pending[c][i]
  BY <1>a, TailOfSeq
<1>i. UNCHANGED <<lock, blockedBy, waitsFor, seqnum, table, txs, mine, want, rc>>
  BY DEF CallbackSend
<1>j. \/ /\ rest # <<>> /\ mine[c] = 0 /\ master' = c /\ pc' = [pc EXCEPT ![c] = "cb.get"]
      \/ /\ rest = <<>> /\ master' = None
         /\ pc' = [pc EXCEPT ![c] = IF mine[c] = 0 THEN "idle" ELSE "receive"]
  <2>1. CASE Len(pending[c]) > 1
    <3>1. rest # <<>>
      BY <1>a, <2>1, TailOfSeq
    <3>2. mine[c] # 0 => pending[c] = <<mine[c]>>
      BY <1>a DEF IInv, Served, Serves, InCallback
    <3>3. ~(Len(<<mine[c]>>) > 1)
      OBVIOUS
    <3>4. mine[c] = 0
      BY <2>1, <3>2, <3>3, Zenon
    <3>5. QED
      BY <1>a, <2>1, <3>1, <3>4 DEF CallbackSend, Goto
  <2>2. CASE ~(Len(pending[c]) > 1)
    <3>1. rest = <<>>
      BY <1>a, <2>2, TailOfSeq
    <3>2. QED
      BY <2>2, <3>1, Zenon DEF CallbackSend, Goto, AfterCallback
  <2>3. QED
    BY <2>1, <2>2
<1>k. mine[c] # 0 => e = c
  <2>1. mine[c] # 0 => pending[c] = <<mine[c]>>
    BY <1>a DEF IInv, Served, Serves, InCallback
  <2>2. QED
    BY <1>c, <1>d, <2>1 DEF IInv, Distinct
<1>1. TypeOK'
  BY <1>f, <1>g, <1>h, <1>i, <1>j DEF IInv, TypeOK, WaitSet
<1>2. Shapes'
  BY <1>a, <1>i, <1>j DEF IInv, TypeOK, Shapes, Shape
<1>3. Distinct'
  BY DEF IInv, TypeOK, Distinct, CallbackSend
<1>4. Handles'
  <2>1. ASSUME NEW d \in Conns, HasArg(d)'
        PROVE  HasArg(d) /\ Arg(d)' = Arg(d)
    <3>1. HasArg(d)
      BY <1>a, <1>i, <1>j, <2>1 DEF IInv, TypeOK, HasArg, InCallback
    <3>2. mine[d] \in 1..Len(waits)
      BY <3>1 DEF IInv, TypeOK, Shapes, Shape, HasArg
    <3>3. QED
      BY <1>f, <1>i, <3>1, <3>2 DEF Arg
  <2>2. QED
    BY <1>i, <2>1 DEF IInv, Handles
<1>5. Served'
  <2>1. CASE rest # <<>>
    <3>1. mine[c] = 0 /\ master' = c /\ pc' = [pc EXCEPT ![c] = "cb.get"]
      BY <1>j, <2>1
    <3>2. \A i, j \in DOMAIN pending[c] : pending[c][i] = pending[c][j] => i = j
      BY DEF IInv, Served, Serves
    <3>3. ASSUME NEW i \in DOMAIN rest
          PROVE  \E d \in Conns : mine'[d] = rest[i] /\ Awaits(d, c)'
      <4>1. i + 1 \in DOMAIN pending[c] /\ i + 1 # 1 /\ rest[i] = pending[c][i + 1]
        BY <1>h, <3>3
      <4>2. PICK d \in Conns : mine[d] = pending[c][i + 1] /\ Awaits(d, c)
        BY <4>1 DEF IInv, Served, Serves
      <4>3. mine[d] # mine[e]
        BY <1>c, <1>h, <3>2, <4>1, <4>2
      <4>4. mine[d] \in 1..Len(waits) /\ d # c
        BY <1>a, <3>1, <4>1, <4>2
      <4>5. Awaits(d, c)'
        BY <1>f, <1>i, <3>1, <4>2, <4>3, <4>4 DEF IInv, TypeOK, Awaits, Chan
      <4>6. QED
        BY <1>i, <4>1, <4>2, <4>5
    <3>4. \A i, j \in DOMAIN rest : rest[i] = rest[j] => i = j
      BY <1>h, <3>2
    <3>5. Serves(c)'
      BY <1>g, <1>i, <2>1, <3>1, <3>3, <3>4 DEF IInv, TypeOK, Serves, InCallback
    <3>6. ASSUME NEW d \in Conns, d # c PROVE Serves(d)'
      BY <1>b, <1>g, <3>1, <3>6 DEF IInv, TypeOK, Served, Serves, InCallback
    <3>7. QED
      BY <3>5, <3>6 DEF Served
  <2>2. CASE rest = <<>>
    <3>1. pc' = [pc EXCEPT ![c] = IF mine[c] = 0 THEN "idle" ELSE "receive"]
      BY <1>j, <2>2
    <3>2. \A d \in Conns : ~InCallback(d)' /\ pending'[d] = <<>>
      BY <1>b, <1>g, <2>2, <3>1 DEF IInv, TypeOK, Served, Serves, InCallback
    <3>3. QED
      BY <3>2 DEF Served, Serves, InCallback
  <2>3. QED
    BY <2>1, <2>2
<1>6. AllWaits'
  <2> SUFFICES ASSUME NEW d \in Conns PROVE Waits(d)'
    BY DEF AllWaits
  <2>1. Waits(d) /\ Shape(d)
    BY DEF IInv, AllWaits, Shapes
  <2>2. CASE d = e
    <3>1. Chan(d)' = "full" /\ waitsFor'[d] = None /\ blockedBy'[d] = None
      BY <1>c, <1>f, <1>i, <2>2 DEF Awaits, Chan
    <3>2. pc'[d] \in {"receive", "idle", "cb.get", "cb.send"}
      BY <1>a, <1>c, <1>j, <2>2 DEF IInv, TypeOK, Awaits
    <3>3. QED
      BY <3>1, <3>2 DEF Waits, InCallback
  <2>3. CASE d # e
    <3>1. mine[d] # 0 => mine[d] # mine[e] /\ Chan(d)' = Chan(d)
      BY <1>d, <1>f, <1>i, <2>3 DEF IInv, TypeOK, Distinct, Chan
    <3>2. ASSUME mine[d] # 0, InArray(d) PROVE InArray(d)'
      <4>1. PICK i \in DOMAIN pending[c] : pending[c][i] = mine[d]
        BY <1>b, <3>2 DEF IInv, InArray, Served, Serves
      <4>2. i # 1
        BY <1>c, <3>1, <3>2, <4>1
      <4>3. i - 1 \in DOMAIN rest /\ rest[i - 1] = mine'[d]
        BY <1>h, <1>i, <4>1, <4>2
      <4>4. QED
        BY <1>g, <4>3 DEF InArray
    <3>3. pc'[d] = pc[d] \/ (mine[d] = 0 /\ pc'[d] \in {"idle", "cb.get"})
      BY <1>j, <1>k, <2>3 DEF IInv, TypeOK
    <3>4. QED
      BY <1>i, <2>1, <3>1, <3>2, <3>3, NamesAssumption DEF Waits, Shape, InCallback
  <2>4. QED
    BY <2>2, <2>3
<1>7. Blockers'
  <2>1. ASSUME NEW d \in Conns, Holding(d) PROVE Holding(d)'
    BY <1>a, <1>i, <1>j, <2>1 DEF IInv, TypeOK, Holding, InTx
  <2>2. QED
    BY <1>i, <2>1 DEF IInv, TypeOK, Blockers
<1>8. QED
  BY <1>1, <1>2, <1>3, <1>4, <1>5, <1>6, <1>7 DEF IInv

\* Nobody waits at the start.
LEMMA InitHolds == Init => IInv
<1> SUFFICES ASSUME Init PROVE IInv
  OBVIOUS
<1>1. TypeOK
  BY NamesAssumption, BoundsAssumption DEF Init, TypeOK
<1>2. Served
  BY NamesAssumption DEF Init, Served, Serves, InCallback
<1>3. Shapes /\ Distinct /\ Handles /\ AllWaits /\ Blockers
  BY NamesAssumption
     DEF Init, Shapes, Shape, Distinct, Handles, HasArg, InCallback, AllWaits, Waits, Blockers
<1>4. QED
  BY <1>1, <1>2, <1>3 DEF IInv

\* The invariant is about the variables.
LEMMA StutterKeeps == IInv /\ UNCHANGED vars => IInv'
<1> SUFFICES ASSUME IInv, UNCHANGED vars PROVE IInv'
  OBVIOUS
<1>1. TypeOK' /\ Shapes' /\ Distinct' /\ Handles'
  BY DEF IInv, vars, sqliteVars, tableVars, TypeOK, Shapes, Shape, Distinct, Handles,
         HasArg, Arg, InCallback
<1>2. Served' /\ AllWaits' /\ Blockers'
  BY DEF IInv, vars, sqliteVars, tableVars, Served, Serves, Awaits, Chan, InCallback,
         AllWaits, Waits, InArray, Blockers, Holding, InTx
<1>3. QED
  BY <1>1, <1>2 DEF IInv

\* Every step keeps the invariant.
LEMMA StepKeeps == IInv /\ [Next]_vars => IInv'
<1> SUFFICES ASSUME IInv, [Next]_vars PROVE IInv'
  OBVIOUS
<1>1. ASSUME NEW c \in Conns, Continue(c) PROVE IInv'
  BY <1>1, StepLocksKeeps, StepBlockedKeeps, StepInterruptedKeeps, AddKeeps, NotifyNowKeeps,
     NotifyLaterKeeps, NotifyDeadlockKeeps, ReceiveKeeps, FreeKeeps, RemoveKeeps,
     CloseChannelKeeps, UnlockKeeps, CallbackGetKeeps, CallbackSendKeeps DEF Continue
<1>2. ASSUME NEW c \in Conns, Conclude(c) PROVE IInv'
  BY <1>2, ConcludeKeeps
<1>3. ASSUME NEW c \in Conns, NEW t \in Tables, Begin(c, t) PROVE IInv'
  BY <1>3, BeginKeeps
<1>4. QED
  BY <1>1, <1>2, <1>3, StutterKeeps DEF Next

\* The invariant of the waits, the table, the channels and the callback.
THEOREM Invariant == Spec => []IInv
<1>1. QED
  BY InitHolds, StepKeeps, PTL DEF Spec

-----------------------------------------------------------------------------
(* What the runs check, for every number of connections and tables. *)

\* The variables have their types: no handle is in the table without its wait.
THEOREM TypeCorrect == Spec => []TypeOK
<1>1. IInv => TypeOK
  BY DEF IInv
<1>2. QED
  BY <1>1, Invariant, PTL

\* unlock_notify_callback finds each of its handles, reads no freed argument, and
\* neither panics nor blocks with SQLite's mutex held.
THEOREM AlwaysCallbackSafe == Spec => []CallbackSafe
<1>1. ASSUME IInv PROVE CallbackSafe
  <2> SUFFICES ASSUME NEW c \in Conns, InCallback(c)
               PROVE  /\ waits[Head(pending[c])].arg # None
                      /\ waits[Head(pending[c])].arg \in DOMAIN table
                      /\ waits[Target(c)].chan = "empty"
    BY DEF CallbackSafe, InCallback
  <2>1. pending[c] \in Seq(1..Len(waits)) /\ pending[c] # <<>>
    BY <1>1 DEF IInv, TypeOK, Served, Serves
  <2>2. Head(pending[c]) = pending[c][1] /\ 1 \in DOMAIN pending[c]
    BY <2>1
  <2>3. PICK e \in Conns : mine[e] = Head(pending[c]) /\ Awaits(e, c)
    BY <1>1, <2>2 DEF IInv, Served, Serves
  <2>4. HasArg(e)
    BY <1>1, <2>1, <2>2, <2>3 DEF IInv, TypeOK, HasArg, Awaits
  <2>5. Arg(e) \in DOMAIN table /\ table[Arg(e)] = mine[e] /\ Arg(e) # None
    BY <1>1, <2>4, NamesAssumption DEF IInv, TypeOK, Handles
  <2>6. QED
    BY <2>3, <2>5 DEF Target, Arg, Awaits, Chan
<1>2. QED
  BY <1>1, Invariant, PTL

\* Who is stuck is registered with a connection that holds its locks.
LEMMA StuckIsRegistered ==
  ASSUME IInv, NEW c \in Conns, Stuck(c)
  PROVE  waitsFor[c] # None /\ (InTx(waitsFor[c]) \/ pc[waitsFor[c]] = "unlock")
<1>1. pc[c] = "receive" /\ Chan(c) # "full" /\ ~InArray(c)
  BY DEF Stuck, Chan, InArray, Range
<1>2. waitsFor[c] # None /\ blockedBy[c] = waitsFor[c]
  BY <1>1 DEF IInv, AllWaits, Waits
<1>3. QED
  BY <1>2 DEF IInv, Blockers, Holding

\* unlock_notify_wait never blocks on a channel nobody will send to.
THEOREM NoWakeupIsLost == Spec => []NoLostWakeup
<1>1. ASSUME IInv PROVE NoLostWakeup
  BY <1>1, StuckIsRegistered DEF NoLostWakeup
<1>2. QED
  BY <1>1, Invariant, PTL

-----------------------------------------------------------------------------
(* No circle of waits: the cycles sqlite3_unlock_notify refuses are all there *)
(* would be.                                                                *)

\* The connections SQLite looks at, from c's blocker on, each the one before waits for.
Chain(f, c) ==
  /\ f \in [0..Cardinality(Conns) -> Conns \cup {None}] /\ f[0] = blockedBy[c]
  /\ \A n \in 1..Cardinality(Conns) :
       f[n] = IF f[n - 1] \in {None, c} THEN f[n - 1] ELSE waitsFor[f[n - 1]]

LEMMA NumberOfConns == Cardinality(Conns) \in Nat
BY BoundsAssumption, FS_CardinalityType

\* BlockedWait's ChainEnd is the last of them.
LEMMA ChainExists ==
  ASSUME TypeOK, NEW c \in Conns
  PROVE  \E f : Chain(f, c) /\ Wait!ChainEnd(c) = f[Cardinality(Conns)]
<1> DEFINE N == Cardinality(Conns)
           A == Conns \cup {None}
           s == [p \in (1..N) \X A |-> IF p[2] \in {None, c} THEN p[2] ELSE waitsFor[p[2]]]
           Body(f) == [n \in 0..N |->
                         IF n = 0 THEN blockedBy[c]
                         ELSE IF f[n - 1] \in {None, c} THEN f[n - 1]
                         ELSE waitsFor[f[n - 1]]]
           walk == CHOOSE f : f = Body(f)
<1>1. N \in Nat
  BY NumberOfConns
<1>2. blockedBy[c] \in A /\ s \in [(1..N) \X A -> A]
  BY DEF TypeOK
<1>3. PICK f : Iterates(f, N, A, blockedBy[c], s)
  <2> HIDE DEF N, A, s
  <2>1. QED
    BY <1>1, <1>2, Recursive
<1>4. f = Body(f)
  <2>1. ASSUME NEW n \in 1..N
        PROVE  s[<<n, f[n - 1]>>] = IF f[n - 1] \in {None, c} THEN f[n - 1] ELSE waitsFor[f[n - 1]]
    <3> HIDE DEF A
    <3>1. n - 1 \in 0..N
      BY <1>1
    <3>2. f[n - 1] \in A
      BY <1>3, <3>1 DEF Iterates
    <3>3. QED
      BY <3>2
  <2>2. \A n \in 0..N : n # 0 => n \in 1..N
    BY <1>1
  <2> HIDE DEF s, N
  <2>3. \A n \in 0..N : f[n] = IF n = 0 THEN blockedBy[c]
                             ELSE IF f[n - 1] \in {None, c} THEN f[n - 1]
                             ELSE waitsFor[f[n - 1]]
    BY <1>3, <2>1, <2>2 DEF Iterates
  <2>4. QED
    BY <1>3, <2>3 DEF Iterates
<1>5. walk = Body(walk)
  <2> HIDE DEF Body
  <2>1. QED
    BY <1>4
<1>6. Wait!ChainEnd(c) = walk[N]
  <2>1. Wait!Cardinality(Conns) = N
    BY DEF Wait!Cardinality, Cardinality
  <2>2. QED
    BY <2>1 DEF Wait!ChainEnd
<1> HIDE DEF walk
<1>7. walk[0] = blockedBy[c]
  BY <1>1, <1>5
<1>8. \A n \in 1..N : walk[n] = IF walk[n - 1] \in {None, c} THEN walk[n - 1]
                               ELSE waitsFor[walk[n - 1]]
  BY <1>1, <1>5
<1> DEFINE P == {n \in 0..N : walk[n] \in A}
<1>9. 0 \in P
  BY <1>1, <1>2, <1>7
<1>10. ASSUME NEW n \in 0..N, n \in P, n < N PROVE n + 1 \in P
  <2>1. n + 1 \in 1..N /\ (n + 1) - 1 = n
    BY <1>1, <1>10
  <2>2. walk[n + 1] = IF walk[n] \in {None, c} THEN walk[n] ELSE waitsFor[walk[n]]
    BY <1>8, <2>1
  <2>3. walk[n] \in A
    BY <1>10
  <2>4. QED
    BY <2>1, <2>2, <2>3 DEF TypeOK
<1>11. 0..N \subseteq P
  <2> HIDE DEF P, N
  <2>1. QED
    BY <1>1, <1>9, <1>10, UpTo
<1>12. walk \in [0..N -> A]
  BY <1>5, <1>11
<1>13. QED
  BY <1>6, <1>7, <1>8, <1>12 DEF Chain

\* The chain goes no further than c or a connection that waits for none.
LEMMA ChainEnds ==
  ASSUME NEW c \in Conns, NEW f, Chain(f, c),
         NEW k \in 0..Cardinality(Conns), f[k] \in {None, c}
  PROVE  f[Cardinality(Conns)] = f[k]
<1> DEFINE N == Cardinality(Conns)
           P == {n \in 0..N : n >= k => f[n] = f[k]}
<1>1. N \in Nat /\ 0 \in P
  BY NumberOfConns
<1>2. ASSUME NEW n \in 0..N, n \in P, n < N PROVE n + 1 \in P
  <2>1. n + 1 \in 1..N /\ (n + 1) - 1 = n
    BY <1>1, <1>2
  <2>2. f[n + 1] = IF f[n] \in {None, c} THEN f[n] ELSE waitsFor[f[n]]
    BY <2>1 DEF Chain
  <2>3. CASE n >= k
    BY <1>2, <2>1, <2>2, <2>3
  <2>4. CASE n < k
    BY <1>2, <2>1, <2>4
  <2>5. QED
    BY <1>1, <2>3, <2>4
<1>3. 0..N \subseteq P
  <2> HIDE DEF P, N
  <2>1. QED
    BY <1>1, <1>2, UpTo
<1>4. N \in P
  BY <1>1, <1>3
<1>5. QED
  BY <1>1, <1>4

\* Each connection waits for its w, and c for its blocker.
With(c) == [waitsFor EXCEPT ![c] = blockedBy[c]]

\* A chain that leads back to c is a cycle.
LEMMA BackIsCycle ==
  ASSUME TypeOK, NEW c \in Conns, Wait!ChainEnd(c) = c
  PROVE  ~Wait!Acyclic(With(c))
<1> DEFINE N == Cardinality(Conns)
<1>1. PICK f : Chain(f, c) /\ f[N] = c
  BY ChainExists
<1> DEFINE S == {f[n] : n \in 0..N}
<1>2. N \in Nat /\ c # None
  BY NumberOfConns, NamesAssumption
<1>3. ASSUME NEW n \in 0..N PROVE f[n] \in Conns
  <2>1. f[n] # None
    BY <1>1, <1>2, ChainEnds
  <2>2. f[n] \in Conns \cup {None}
    BY <1>1 DEF Chain
  <2>3. QED
    BY <2>1, <2>2
<1>4. ASSUME NEW n \in 0..N PROVE With(c)[f[n]] \in S
  <2>1. CASE f[n] = c
    <3>1. With(c)[f[n]] = f[0] /\ 0 \in 0..N
      BY <1>1, <1>2, <2>1 DEF With, Chain, TypeOK
    <3>2. QED
      BY <3>1
  <2>2. CASE f[n] # c
    <3>1. n + 1 \in 1..N /\ n + 1 \in 0..N /\ (n + 1) - 1 = n
      BY <1>1, <1>2, <2>2
    <3>2. f[n + 1] = waitsFor[f[n]]
      BY <1>1, <1>3, <2>2, <3>1, NamesAssumption DEF Chain
    <3>3. With(c)[f[n]] = f[n + 1]
      BY <1>3, <2>2, <3>2 DEF With, TypeOK
    <3>4. QED
      BY <3>1, <3>3
  <2>3. QED
    BY <2>1, <2>2
<1>5. S \in SUBSET Conns /\ S # {}
  <2>1. f[0] \in S
    BY <1>2
  <2>2. QED
    BY <1>3, <2>1
<1>6. \A x \in S : With(c)[x] \in S
  BY <1>4
<1> HIDE DEF S
<1>7. QED
  BY <1>5, <1>6 DEF Wait!Acyclic

\* Any other closes none.
LEMMA ElseNoCycle ==
  ASSUME TypeOK, Wait!NoCycle, NEW c \in Conns, Wait!ChainEnd(c) # c
  PROVE  Wait!Acyclic(With(c))
<1> DEFINE N == Cardinality(Conns)
           w == With(c)
<1>1. PICK f : Chain(f, c) /\ f[N] # c
  BY ChainExists
<1>2. N \in Nat
  BY NumberOfConns
<1> SUFFICES ASSUME NEW S \in SUBSET Conns, S # {}, \A x \in S : w[x] \in S
             PROVE  FALSE
  BY DEF Wait!Acyclic
<1>3. /\ w[c] = f[0]
      /\ \A x \in Conns : x # c => w[x] = waitsFor[x]
  BY <1>1 DEF With, Chain, TypeOK
<1>4. c \in S
  BY <1>3 DEF Wait!NoCycle, Wait!Acyclic
<1> HIDE DEF w
<1>5. \A n \in 0..N : f[n] # c
  BY <1>1, ChainEnds
<1>6. \A n \in 0..N : n < N /\ f[n] \in Conns => f[n + 1] = waitsFor[f[n]]
  <2> SUFFICES ASSUME NEW n \in 0..N, n < N, f[n] \in Conns PROVE f[n + 1] = waitsFor[f[n]]
    OBVIOUS
  <2>1. n + 1 \in 1..N /\ (n + 1) - 1 = n
    BY <1>2
  <2>2. QED
    BY <1>1, <1>5, <2>1, NamesAssumption DEF Chain
<1> DEFINE P == {n \in 0..N : f[n] \in S}
<1>7. 0 \in P
  BY <1>2, <1>3, <1>4
<1>8. ASSUME NEW n \in 0..N, n \in P, n < N PROVE n + 1 \in P
  <2>1. n + 1 \in 0..N
    BY <1>2, <1>8
  <2>2. f[n] \in S /\ f[n] # c
    BY <1>5, <1>8
  <2>3. f[n + 1] = w[f[n]]
    BY <1>3, <1>6, <1>8, <2>2
  <2>4. QED
    BY <2>1, <2>2, <2>3
<1>9. 0..N \subseteq P
  <2> HIDE DEF P, N
  <2>1. QED
    BY <1>2, <1>7, <1>8, UpTo
<1>10. f \in [0..N -> Conns]
  BY <1>1, <1>9 DEF Chain
<1>11. PICK i, j \in 0..N : i < j /\ f[i] = f[j]
  <2>1. IsFiniteSet(0..N) /\ Cardinality(0..N) = N + 1
    BY <1>2, FS_Interval
  <2>2. PICK x, y \in 0..N : x # y /\ f[x] = f[y]
    BY <1>2, <1>10, <2>1, BoundsAssumption, FS_PigeonHole
  <2>3. x < y \/ y < x
    BY <1>2, <2>2
  <2>4. QED
    BY <2>2, <2>3
<1> DEFINE T == {f[n] : n \in i..(j - 1)}
<1>12. ASSUME NEW n \in i..(j - 1) PROVE waitsFor[f[n]] \in T
  <2>1. n \in 0..N /\ n < N
    BY <1>2
  <2>2. waitsFor[f[n]] = f[n + 1]
    BY <1>6, <1>10, <2>1
  <2>3. CASE n + 1 \in i..(j - 1)
    BY <2>2, <2>3
  <2>4. CASE n + 1 = j
    <3>1. i \in i..(j - 1)
      BY <1>11
    <3>2. QED
      BY <1>11, <2>2, <2>4, <3>1
  <2>5. QED
    BY <2>3, <2>4
<1>13. T \in SUBSET Conns /\ T # {}
  <2>1. \A n \in i..(j - 1) : n \in 0..N
    BY <1>2
  <2>2. i \in i..(j - 1)
    BY <1>11
  <2>3. QED
    BY <1>10, <2>1, <2>2
<1>14. \A x \in T : waitsFor[x] \in T
  BY <1>12
<1> HIDE DEF T
<1>15. QED
  BY <1>13, <1>14 DEF Wait!NoCycle, Wait!Acyclic

\* A wait is registered only when it closes no cycle, and the others only end.
LEMMA NoCycleStep ==
  ASSUME IInv, Wait!NoCycle, [Next]_vars
  PROVE  Wait!NoCycle'
<1>1. ASSUME NEW c \in Conns, NotifyLater(c) PROVE Wait!NoCycle'
  <2>1. Wait!Acyclic(With(c)) /\ waitsFor' = With(c)
    BY <1>1, ElseNoCycle DEF IInv, NotifyLater, With
  <2>2. QED
    BY <2>1 DEF Wait!NoCycle, Wait!Acyclic
<1>2. ASSUME NEW c \in Conns, Unlock(c) PROVE Wait!NoCycle'
  <2> SUFFICES ASSUME NEW S \in SUBSET Conns, S # {}
               PROVE  \E d \in S : waitsFor'[d] \notin S
    BY DEF Wait!NoCycle, Wait!Acyclic
  <2>1. PICK d \in S : waitsFor[d] \notin S
    BY DEF Wait!NoCycle, Wait!Acyclic
  <2>2. waitsFor'[d] \in {waitsFor[d], None}
    BY <1>2 DEF Unlock
  <2>3. QED
    BY <2>1, <2>2, NamesAssumption
<1>3. CASE waitsFor' = waitsFor
  BY <1>3 DEF Wait!NoCycle, Wait!Acyclic
<1>4. (\E c \in Conns : NotifyLater(c) \/ Unlock(c)) \/ waitsFor' = waitsFor
  BY DEF Next, Continue, vars, sqliteVars, StepLocks, StepBlocked, StepInterrupted, Add,
         NotifyNow, NotifyDeadlock, Receive, Free, Remove, CloseChannel, CallbackGet,
         CallbackSend, Conclude, Begin
<1>5. QED
  BY <1>1, <1>2, <1>3, <1>4

\* SQLite's check keeps the waits free of cycles: the chain it follows finds every
\* cycle a wait would close, however long.
THEOREM NeverACycle == Spec => []Wait!NoCycle
<1>1. Init => Wait!NoCycle
  BY NamesAssumption DEF Init, Wait!NoCycle, Wait!Acyclic
<1>2. QED
  BY <1>1, NoCycleStep, Invariant, PTL DEF Spec

\* Connections blocked in unlock_notify_wait never wait for each other in a
\* circle: of any set of them one waits for a connection outside the set.
THEOREM NeverADeadlock == Spec => []NoDeadlock
<1>1. ASSUME IInv, Wait!NoCycle PROVE NoDeadlock
  <2> SUFFICES ASSUME NEW S \in SUBSET {c \in Conns : Stuck(c)}, S # {}
               PROVE  \E c \in S : waitsFor[c] \in Conns \ S
    BY DEF NoDeadlock
  <2>1. PICK c \in S : waitsFor[c] \notin S
    BY <1>1 DEF Wait!NoCycle, Wait!Acyclic
  <2>2. waitsFor[c] \in Conns
    BY <1>1, StuckIsRegistered DEF IInv, TypeOK
  <2>3. QED
    BY <2>1, <2>2
<1>2. QED
  BY <1>1, Invariant, NeverACycle, PTL

\* And a statement is refused with SQLITE_LOCKED only when its wait would close one.
THEOREM RefusedForACycle ==
  Spec => [][\A c \in Conns : NotifyDeadlock(c) => ~Wait!Acyclic(With(c))]_vars
<1> DEFINE Cycle == \A c \in Conns : NotifyDeadlock(c) => ~Wait!Acyclic(With(c))
<1>1. IInv => [Cycle]_vars
  BY BackIsCycle DEF IInv, NotifyDeadlock
<1> HIDE DEF Cycle
<1>2. Spec => [][Cycle]_vars
  BY <1>1, Invariant, PTL
<1>3. QED
  BY <1>2 DEF Cycle

-----------------------------------------------------------------------------
(* The loop around a step implements BlockedWait. *)

\* BlockedWait looks at nothing else.
LEMMA Stutters ==
  ASSUME blockedBy' = blockedBy, waitsFor' = waitsFor,
         \A d \in Conns : StateOf(d)' = StateOf(d)
  PROVE  UNCHANGED Wait!vars
BY DEF Wait!vars

\* A refused step waits, for a transaction of another connection.
LEMMA StepBlockedMaps ==
  ASSUME IInv, NEW c \in Conns, StepBlocked(c)
  PROVE  Wait!Next
<1>1. /\ lock[want[c]] \in Conns /\ lock[want[c]] # c /\ mine[c] = 0 /\ rc[c] = "ok"
      /\ pc[c] = "step"
  BY DEF IInv, TypeOK, Shapes, Shape, StepBlocked
<1>2. StateOf(c) = "running" /\ StateOf(c)' = "waiting"
  BY <1>1 DEF IInv, TypeOK, StateOf, StepBlocked, Goto
<1>3. \A d \in Conns \ {c} : StateOf(d)' = StateOf(d)
  BY <1>1 DEF IInv, TypeOK, StateOf, StepBlocked, Goto
<1>4. Wait!Block(c, lock[want[c]])
  BY <1>1, <1>2, <1>3 DEF Wait!Block, StepBlocked
<1>5. QED
  BY <1>1, <1>4 DEF Wait!Next

\* The others go on waiting when one registers.
LEMMA NotifyLaterMaps ==
  ASSUME IInv, NEW c \in Conns, NotifyLater(c)
  PROVE  Wait!Next
<1>1. StateOf(c) = "waiting"
  BY DEF IInv, TypeOK, Shapes, Shape, StateOf, NotifyLater
<1>2. \A d \in Conns : StateOf(d)' = StateOf(d)
  BY DEF IInv, TypeOK, StateOf, NotifyLater, Goto
<1>3. Wait!Register(c)
  BY <1>1, <1>2 DEF Wait!Register, NotifyLater
<1>4. QED
  BY <1>3 DEF Wait!Next

\* SQLITE_LOCKED is returned for a cycle only.
LEMMA NotifyDeadlockMaps ==
  ASSUME IInv, NEW c \in Conns, NotifyDeadlock(c)
  PROVE  Wait!Next
<1>1. StateOf(c) = "waiting" /\ StateOf(c)' = "refused"
  BY DEF IInv, TypeOK, Shapes, Shape, StateOf, NotifyDeadlock, Goto
<1>2. \A d \in Conns \ {c} : StateOf(d)' = StateOf(d)
  BY DEF IInv, TypeOK, StateOf, NotifyDeadlock, Goto
<1>3. Wait!Refuse(c)
  BY <1>1, <1>2 DEF Wait!Refuse, NotifyDeadlock, sqliteVars
<1>4. QED
  BY <1>3 DEF Wait!Next

\* Who leaves its wait without a refusal is blocked no more.
LEMMA CloseChannelMaps ==
  ASSUME IInv, NEW c \in Conns, CloseChannel(c)
  PROVE  Wait!Next
<1>1. /\ mine[c] # 0 /\ pc[c] = "close" /\ (rc[c] = "ok" => blockedBy[c] = None)
      /\ rc[c] \in {"ok", "locked"}
  BY DEF IInv, TypeOK, Shapes, Shape, AllWaits, Waits, CloseChannel
<1>2. StateOf(c) = (IF rc[c] = "locked" THEN "refused" ELSE "waiting")
  BY <1>1 DEF StateOf
<1>3. StateOf(c)' = "running"
  <2>1. mine'[c] = 0 /\ pc'[c] # "add"
    BY <1>1 DEF IInv, TypeOK, CloseChannel, Goto
  <2>2. QED
    BY <2>1 DEF StateOf
<1>4. \A d \in Conns \ {c} : StateOf(d)' = StateOf(d)
  BY DEF IInv, TypeOK, StateOf, CloseChannel, Goto
<1>5. Wait!Resume(c)
  BY <1>1, <1>2, <1>3, <1>4 DEF Wait!Resume, CloseChannel, sqliteVars
<1>6. QED
  BY <1>5 DEF Wait!Next

\* sqlite3ConnectionUnlocked releases all who are blocked or registered.
LEMMA UnlockMaps ==
  ASSUME IInv, NEW c \in Conns, Unlock(c)
  PROVE  Wait!Next
<1>1. StateOf(c) = "running"
  BY DEF IInv, Shapes, Shape, StateOf, Unlock
<1>2. \A d \in Conns : StateOf(d)' = StateOf(d)
  BY DEF IInv, TypeOK, StateOf, Unlock, Goto
<1>3. Wait!Conclude(c)
  BY <1>1, <1>2 DEF Wait!Conclude, Unlock
<1>4. QED
  BY <1>3 DEF Wait!Next

\* No other step is seen by BlockedWait.
LEMMA OthersMap ==
  ASSUME IInv, NEW c \in Conns,
         \/ StepLocks(c) \/ StepInterrupted(c) \/ Add(c) \/ NotifyNow(c) \/ Receive(c)
         \/ Free(c) \/ Remove(c) \/ Conclude(c) \/ CallbackGet(c) \/ CallbackSend(c)
         \/ \E t \in Tables : Begin(c, t)
  PROVE  UNCHANGED Wait!vars
<1>1. CASE StepLocks(c)
  BY <1>1, Stutters DEF IInv, TypeOK, StateOf, StepLocks, Goto
<1>2. CASE StepInterrupted(c)
  BY <1>2, Stutters DEF IInv, TypeOK, StateOf, StepInterrupted, Goto
<1>3. CASE Add(c)
  BY <1>3, Stutters DEF IInv, TypeOK, Shapes, Shape, StateOf, Add, Goto, sqliteVars
<1>4. CASE NotifyNow(c)
  BY <1>4, Stutters DEF IInv, TypeOK, StateOf, NotifyNow, Goto
<1>5. CASE Receive(c)
  BY <1>5, Stutters DEF IInv, TypeOK, StateOf, Receive, Goto, sqliteVars
<1>6. CASE Free(c)
  BY <1>6, Stutters DEF IInv, TypeOK, StateOf, Free, Goto, sqliteVars
<1>7. CASE Remove(c)
  BY <1>7, Stutters DEF IInv, TypeOK, StateOf, Remove, Goto, sqliteVars
<1>8. CASE Conclude(c)
  <2>1. mine[c] = 0 /\ pc[c] # "add" /\ mine'[c] = 0 /\ pc'[c] # "add"
    BY <1>8 DEF IInv, TypeOK, Shapes, Shape, Conclude, Goto
  <2>2. \A d \in Conns \ {c} : StateOf(d)' = StateOf(d)
    BY <1>8 DEF IInv, TypeOK, StateOf, Conclude, Goto
  <2>3. StateOf(c)' = StateOf(c)
    BY <2>1 DEF StateOf
  <2>4. QED
    BY <1>8, <2>2, <2>3, Stutters DEF Conclude
<1>9. CASE CallbackGet(c)
  BY <1>9, Stutters DEF IInv, TypeOK, StateOf, CallbackGet, Goto, sqliteVars
<1>10. CASE CallbackSend(c)
  BY <1>10, Stutters DEF IInv, TypeOK, StateOf, CallbackSend, AfterCallback, Goto
<1>11. CASE \E t \in Tables : Begin(c, t)
  BY <1>11, Stutters DEF IInv, TypeOK, StateOf, Begin, Goto, sqliteVars
<1>12. QED
  BY <1>1, <1>2, <1>3, <1>4, <1>5, <1>6, <1>7, <1>8, <1>9, <1>10, <1>11

\* A connection goes on waiting, resumes and is refused as BlockedWait says: the
\* wait loops of sqlite3_opt_unlock_notify.c implement it.
THEOREM WaitsAsPromised == Spec => ImplementsBlockedWait
<1>1. Init => Wait!Init
  BY DEF Init, Wait!Init, StateOf
<1>2. IInv /\ [Next]_vars => [Wait!Next]_Wait!vars
  <2> SUFFICES ASSUME IInv, [Next]_vars PROVE [Wait!Next]_Wait!vars
    OBVIOUS
  <2>1. ASSUME NEW c \in Conns, Continue(c) PROVE [Wait!Next]_Wait!vars
    BY <2>1, StepBlockedMaps, NotifyLaterMaps, NotifyDeadlockMaps, CloseChannelMaps,
       UnlockMaps, OthersMap DEF Continue
  <2>2. ASSUME NEW c \in Conns, Conclude(c) \/ \E t \in Tables : Begin(c, t)
        PROVE  [Wait!Next]_Wait!vars
    BY <2>2, OthersMap
  <2>3. CASE UNCHANGED vars
    BY <2>3, Stutters DEF vars, sqliteVars, StateOf
  <2>4. QED
    BY <2>1, <2>2, <2>3 DEF Next
<1>3. QED
  BY <1>1, <1>2, Invariant, PTL DEF Spec, ImplementsBlockedWait, Wait!Spec
=============================================================================

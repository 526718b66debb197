------------------------- MODULE TransactionsProofs -------------------------
(***************************************************************************)
(* What WATCH promises, for any number of clients, databases, keys and     *)
(* values.                                                                 *)
(*                                                                         *)
(* The argument: every change of a value moves one of the three versions   *)
(* that cover it (Advances), and no version ever goes back, so a saved     *)
(* version is a lower bound of the present one, a strict one once the      *)
(* value has changed (Coherent).  SWAPDB is the exception, for it takes a  *)
(* database's version from the other one: what it exchanges is left out of *)
(* the promise, as the run TransactionsSwapDb shows it must be.  And a     *)
(* connection id must be nobody else's, for the table is indexed by it.    *)
(***************************************************************************)
EXTENDS Transactions, TLAPS

\* No two connections share an id.
Unaliased == \A c, d \in Client : IdOf[c] = IdOf[d] => c = d

\* The three versions that cover pair p are at least / one is more than v.
AtLeast(v, p) ==
  /\ v.key <= keyVersions[p]
  /\ v.db <= dbVersions[p[1]]
  /\ v.global <= globalVersion
Behind(v, p) ==
  \/ v.key < keyVersions[p]
  \/ v.db < dbVersions[p[1]]
  \/ v.global < globalVersion

\* The inductive part of WatchSound.
Coherent ==
  \A c \in Client :
    /\ watching[c] \subseteq watchedKeys[IdOf[c]]
    /\ modified[c] \subseteq watching[c]
    /\ \A p \in watching[c] :
         p[1] \notin swapped[c] => AtLeast(savedVersions[IdOf[c]][p], p)
    /\ \A p \in modified[c] :
         p[1] \notin swapped[c] => Behind(savedVersions[IdOf[c]][p], p)

\* Outside the databases of X, a step moves no version back, and moves one of
\* every value it changes.
Advances(X) ==
  \A p \in Pair : p[1] \notin X =>
    /\ keyVersions[p] <= keyVersions'[p]
    /\ dbVersions[p[1]] <= dbVersions'[p[1]]
    /\ globalVersion <= globalVersion'
    /\ dbs'[p] # dbs[p] =>
         \/ keyVersions[p] < keyVersions'[p]
         \/ dbVersions[p[1]] < dbVersions'[p[1]]
         \/ globalVersion < globalVersion'

DataTypeOK ==
  /\ dbs \in [Pair -> Val \cup {Absent}]
  /\ keyVersions \in [Pair -> Nat]
  /\ dbVersions \in [Db -> Nat]
  /\ globalVersion \in Nat

-----------------------------------------------------------------------------
(* The effects on the data.                                                *)

\* deleteKey keeps the types and advances.
LEMMA DeleteAdvances ==
  ASSUME NEW P, DataTypeOK, DeleteKeys(P)
  PROVE  DataTypeOK' /\ Advances({})
BY DEF DataTypeOK, Advances, DeleteKeys, Bump, Existing, Pair

\* So does a write, whatever it evicted.
LEMMA WriteAdvances ==
  ASSUME NEW p \in Pair, NEW v \in Val, NEW E, DataTypeOK, Write(p, v, E)
  PROVE  DataTypeOK' /\ Advances({})
BY DEF DataTypeOK, Advances, Write, Pair

\* rename moves the versions of both keys.
LEMMA RenameAdvances ==
  ASSUME NEW from \in Pair, NEW to \in Pair, NEW E \in SUBSET Existing,
         DataTypeOK, Rename(from, to, E)
  PROVE  DataTypeOK' /\ Advances({})
<1>1. CASE dbs[from] = Absent \/ from = to
  BY <1>1 DEF Rename, DataTypeOK, Advances, dataVars, Pair
<1>2. CASE ~(dbs[from] = Absent \/ from = to)
  <2> DEFINE inc(p) == (IF p \in E THEN 1 ELSE 0) + (IF p \in {from, to} THEN 1 ELSE 0)
  <2>1. dbs' = [p \in Pair |-> IF p = to THEN dbs[from]
                              ELSE IF p \in E \cup {from} THEN Absent ELSE dbs[p]]
    BY <1>2 DEF Rename
  <2>2. keyVersions' = [p \in Pair |-> keyVersions[p] + (IF p \in E THEN 1 ELSE 0)
                                         + RenameVersions(from, to)[p]]
    BY <1>2 DEF Rename
  <2>3. \A p \in Pair : keyVersions[p] \in Nat /\ keyVersions'[p] = keyVersions[p] + inc(p)
    BY <2>2 DEF RenameVersions, DataTypeOK
  <2>4. \A p \in Pair : inc(p) \in Nat /\ (p \in E \cup {from, to} => inc(p) > 0)
    OBVIOUS
  <2>5. dbVersions' = dbVersions /\ globalVersion' = globalVersion
    BY <1>2 DEF Rename
  <2> HIDE DEF inc
  <2>6. DataTypeOK'
    <3>1. keyVersions' \in [Pair -> Nat]
      BY <2>2, <2>3, <2>4
    <3> QED
      BY <2>1, <2>5, <3>1 DEF DataTypeOK
  <2>7. \A p \in Pair : dbs'[p] # dbs[p] => p \in E \cup {from, to}
    BY <2>1
  <2>8. \A p \in Pair : dbVersions[p[1]] \in Nat
    BY DEF DataTypeOK, Pair
  <2>9. Advances({})
    BY <2>3, <2>4, <2>5, <2>7, <2>8 DEF Advances, DataTypeOK
  <2> QED
    BY <2>6, <2>9
<1> QED
  BY <1>1, <1>2

\* swapDb touches nothing outside the two databases it exchanges.
LEMMA SwapAdvances ==
  ASSUME NEW a \in Db, NEW b \in Db, DataTypeOK, SwapDb(a, b)
  PROVE  DataTypeOK' /\ Advances({a, b})
<1> DEFINE Other(p) == <<IF p[1] = a THEN b ELSE IF p[1] = b THEN a ELSE p[1], p[2]>>
<1>1. \A p \in Pair : Other(p) \in Pair /\ (p[1] \notin {a, b} => Other(p) = p)
  BY DEF Pair
<1>2. dbs' = [p \in Pair |-> dbs[Other(p)]]
  BY DEF SwapDb
<1>3. /\ dbVersions' = [dbVersions EXCEPT ![a] = dbVersions[b] + 1,
                                         ![b] = dbVersions[a] + 1]
      /\ keyVersions' = keyVersions /\ globalVersion' = globalVersion
  BY DEF SwapDb
<1> HIDE DEF Other
<1> QED
  BY <1>1, <1>2, <1>3 DEF DataTypeOK, Advances, Pair

Exchanged(cmd) == IF cmd.op = "swapdb" THEN {cmd.db, cmd.other} ELSE {}

\* Every data command advances, outside what it exchanges.
LEMMA EffectAdvances ==
  ASSUME TransactionsAssumption, NEW cmd \in Cmd, DataTypeOK, Effect(cmd)
  PROVE  DataTypeOK' /\ Advances(Exchanged(cmd))
<1>1. /\ cmd.db \in Db /\ cmd.val \in Val /\ cmd.other \in Db
      /\ <<cmd.db, cmd.key>> \in Pair /\ <<cmd.db, cmd.to>> \in Pair
  BY DEF Cmd, Pair
<1>2. Advances({}) => Advances(Exchanged(cmd))
  BY DEF Advances
<1>3. ASSUME NEW E \in SUBSET Existing, Write(<<cmd.db, cmd.key>>, cmd.val, E)
      PROVE  DataTypeOK' /\ Advances({})
  BY <1>1, <1>3, WriteAdvances
<1>4. ASSUME NEW E, DeleteKeys(E)
      PROVE  DataTypeOK' /\ Advances({})
  BY <1>4, DeleteAdvances
<1>5. ASSUME NEW E \in SUBSET Existing, Rename(<<cmd.db, cmd.key>>, <<cmd.db, cmd.to>>, E)
      PROVE  DataTypeOK' /\ Advances({})
  BY <1>1, <1>5, RenameAdvances
<1>6. CASE FlushDb(cmd.db)
  <2>1. DataTypeOK' /\ Advances({})
    BY <1>1, <1>6 DEF FlushDb, DataTypeOK, Advances, Pair
  <2> QED
    BY <1>2, <2>1
<1>7. CASE FlushAll
  <2>1. DataTypeOK' /\ Advances({})
    BY <1>7 DEF FlushAll, DataTypeOK, Advances, Pair
  <2> QED
    BY <1>2, <2>1
<1>8. CASE cmd.op = "swapdb" /\ SwapDb(cmd.db, cmd.other)
  BY <1>1, <1>8, SwapAdvances DEF Exchanged
<1> QED
  BY <1>2, <1>3, <1>4, <1>5, <1>6, <1>7, <1>8 DEF Effect

-----------------------------------------------------------------------------
(* The handlers.                                                           *)

\* TypeOK in two halves: the loop of EXEC changes the second one.
TableTypeOK ==
  /\ DataTypeOK
  /\ watchedKeys \in [Id -> SUBSET Pair]
  /\ savedVersions \in [Id -> [Pair -> Saved]]
  /\ connState \in [Client -> {"new", "open", "closed"}]
  /\ connDb \in [Client -> Db]
  /\ inMulti \in [Client -> BOOLEAN]
  /\ txQueue \in [Client -> Seq(Cmd)]
  /\ watching \in [Client -> SUBSET Pair]
  /\ modified \in [Client -> SUBSET Pair]
  /\ swapped \in [Client -> SUBSET Db]
ExecTypeOK ==
  /\ running \in Client \cup {Idle}
  /\ rest \in Seq(Cmd)
  /\ running # Idle => rest # <<>>

LEMMA TypeOKHalves == TypeOK <=> TableTypeOK /\ ExecTypeOK
BY DEF TypeOK, TableTypeOK, DataTypeOK, ExecTypeOK

\* A step that advances and leaves the watch table alone keeps it coherent.
LEMMA ObserveCoherent ==
  ASSUME TransactionsAssumption, TableTypeOK, Coherent, NEW X \in SUBSET Db,
         DataTypeOK', Advances(X), Observe(X), UNCHANGED watchVars
  PROVE  /\ Coherent'
         /\ modified' \in [Client -> SUBSET Pair]
         /\ swapped' \in [Client -> SUBSET Db]
         /\ watching' \in [Client -> SUBSET Pair]
<1>1. /\ watching' = watching /\ watchedKeys' = watchedKeys
      /\ savedVersions' = savedVersions
  BY DEF Observe, watchVars
<1>2. \A c \in Client :
        modified'[c] = modified[c] \cup {p \in watching[c] : dbs'[p] # dbs[p]}
  BY DEF Observe, Note
<1>3. \A c \in Client : watching[c] # {} => swapped'[c] = swapped[c] \cup X
  BY DEF Observe
<1>4. modified' \in [Client -> SUBSET Pair] /\ swapped' \in [Client -> SUBSET Db]
  BY DEF Observe, Note, TableTypeOK
<1>5. ASSUME NEW c \in Client, NEW p \in watching[c]
      PROVE  /\ p \in Pair /\ p[1] \in Db
             /\ savedVersions[IdOf[c]][p] \in Saved
             /\ p[1] \notin swapped'[c] => p[1] \notin swapped[c] /\ p[1] \notin X
  <2>1. watching[c] # {} /\ swapped'[c] = swapped[c] \cup X
    BY <1>3, <1>5
  <2>2. p \in Pair /\ IdOf[c] \in Id
    BY <1>5 DEF TableTypeOK, TransactionsAssumption
  <2>3. p[1] \in Db
    BY <2>2 DEF Pair
  <2>4. savedVersions[IdOf[c]][p] \in Saved
    BY <2>2 DEF TableTypeOK
  <2> QED
    BY <2>1, <2>2, <2>3, <2>4
<1>6. ASSUME NEW c \in Client, NEW p \in watching[c], p[1] \notin swapped'[c]
      PROVE  AtLeast(savedVersions[IdOf[c]][p], p)'
  <2>1. AtLeast(savedVersions[IdOf[c]][p], p)
    BY <1>5, <1>6 DEF Coherent
  <2> QED
    BY <1>1, <1>5, <1>6, <2>1 DEF AtLeast, Advances, DataTypeOK, TableTypeOK, Saved
<1>7. ASSUME NEW c \in Client, NEW p \in modified'[c]
      PROVE  /\ p \in watching[c]
             /\ p[1] \notin swapped'[c] => Behind(savedVersions[IdOf[c]][p], p)'
  <2>1. p \in watching[c]
    BY <1>2, <1>7 DEF Coherent
  <2>2. SUFFICES ASSUME p[1] \notin swapped'[c]
                 PROVE  Behind(savedVersions[IdOf[c]][p], p)'
    BY <2>1
  <2>3. AtLeast(savedVersions[IdOf[c]][p], p)
    BY <1>5, <2>1, <2>2 DEF Coherent
  <2>4. p \in modified[c] => Behind(savedVersions[IdOf[c]][p], p)
    BY <1>5, <2>1, <2>2 DEF Coherent
  <2>5. p \in modified[c] \/ dbs'[p] # dbs[p]
    BY <1>2, <1>7
  <2> QED
    BY <1>1, <1>5, <2>1, <2>2, <2>3, <2>4, <2>5
       DEF AtLeast, Behind, Advances, DataTypeOK, TableTypeOK, Saved
<1> QED
  BY <1>1, <1>4, <1>6, <1>7 DEF Coherent, TableTypeOK

\* Forgetting everything one client watches keeps the table coherent, whether
\* or not its entries are removed.
LEMMA ForgetCoherent ==
  ASSUME TransactionsAssumption, Unaliased, TableTypeOK, Coherent,
         NEW c \in Client, Forget(c),
         UnwatchAll(IdOf[c]) \/ UNCHANGED watchVars, UNCHANGED dataVars
  PROVE  /\ Coherent'
         /\ DataTypeOK'
         /\ watchedKeys' \in [Id -> SUBSET Pair]
         /\ savedVersions' \in [Id -> [Pair -> Saved]]
         /\ watching' \in [Client -> SUBSET Pair]
         /\ modified' \in [Client -> SUBSET Pair]
         /\ swapped' \in [Client -> SUBSET Db]
<1>1. NotSaved \in Saved
  BY DEF NotSaved, Saved
<1>2. /\ watchedKeys' \in [Id -> SUBSET Pair]
      /\ savedVersions' \in [Id -> [Pair -> Saved]]
  <2>1. CASE UNCHANGED watchVars
    BY <2>1 DEF watchVars, TableTypeOK
  <2>2. CASE UnwatchAll(IdOf[c])
    <3>1. [p \in Pair |-> NotSaved] \in [Pair -> Saved]
      BY <1>1
    <3>2. IdOf[c] \in Id
      BY DEF TransactionsAssumption
    <3> HIDE DEF Pair, Saved, NotSaved
    <3> QED
      BY <2>2, <3>1, <3>2 DEF UnwatchAll, TableTypeOK
  <2> QED
    BY <2>1, <2>2
<1>3. /\ DataTypeOK'
      /\ watching' \in [Client -> SUBSET Pair]
      /\ modified' \in [Client -> SUBSET Pair]
      /\ swapped' \in [Client -> SUBSET Db]
  BY DEF Forget, TableTypeOK, DataTypeOK, dataVars
<1>4. watching'[c] = {} /\ modified'[c] = {} /\ swapped'[c] = {}
  BY DEF Forget, TableTypeOK
<1>5. ASSUME NEW d \in Client, d # c
      PROVE  /\ watching'[d] = watching[d] /\ modified'[d] = modified[d]
             /\ swapped'[d] = swapped[d]
             /\ watchedKeys'[IdOf[d]] = watchedKeys[IdOf[d]]
             /\ savedVersions'[IdOf[d]] = savedVersions[IdOf[d]]
  BY <1>5 DEF Forget, UnwatchAll, watchVars, TableTypeOK, TransactionsAssumption, Unaliased
<1>6. /\ keyVersions' = keyVersions /\ dbVersions' = dbVersions
      /\ globalVersion' = globalVersion
  BY DEF dataVars
<1> QED
  BY <1>2, <1>3, <1>4, <1>5, <1>6 DEF Coherent, AtLeast, Behind

\* Every handler keeps the types and the coherence, at once or inside EXEC.
LEMMA HandleCoherent ==
  ASSUME TransactionsAssumption, Unaliased, TableTypeOK, Coherent,
         NEW c \in Client, NEW cmd \in Cmd, Handle(c, cmd)
  PROVE  TableTypeOK' /\ Coherent'
<1>1. CASE DataCommand(cmd)
  <2>1. DataTypeOK' /\ Advances(Exchanged(cmd))
    BY <1>1, EffectAdvances DEF DataCommand, TableTypeOK
  <2>2. Exchanged(cmd) \in SUBSET Db /\ Observe(Exchanged(cmd))
    BY <1>1 DEF DataCommand, Exchanged, Cmd
  <2>3. UNCHANGED watchVars /\ UNCHANGED connVars
    BY <1>1 DEF DataCommand
  <2> QED
    BY <2>1, <2>2, <2>3, ObserveCoherent DEF TableTypeOK, watchVars, connVars
<1>2. CASE Select(c, cmd)
  BY <1>2 DEF Select, TableTypeOK, DataTypeOK, Coherent, AtLeast, Behind, Cmd,
              dataVars, watchVars, history
<1>3. CASE Unwatch(c, cmd)
  BY <1>3, ForgetCoherent DEF Unwatch, TableTypeOK, connVars
<1>4. CASE Reset(c, cmd)
  BY <1>4, ForgetCoherent DEF Reset, TableTypeOK, TransactionsAssumption
<1> QED
  BY <1>1, <1>2, <1>3, <1>4 DEF Handle

\* A WATCH saves the versions of the moment, under an id of its own.
LEMMA WatchCoherent ==
  ASSUME TransactionsAssumption, Unaliased, TableTypeOK, Coherent,
         NEW c \in Client, Watch(c)
  PROVE  TableTypeOK' /\ Coherent'
<1>1. PICK K \in (SUBSET Key) \ {{}} :
        LET P == {connDb[c]} \X K
        IN  /\ WatchKeys(IdOf[c], P)
            /\ watching' = [watching EXCEPT ![c] = @ \cup P]
            /\ modified' = [modified EXCEPT ![c] = @ \ P]
            /\ UNCHANGED swapped
  BY DEF Watch
<1> DEFINE P == {connDb[c]} \X K
<1>2. P \subseteq Pair
  BY DEF TableTypeOK, Pair
<1>3. UNCHANGED dataVars /\ UNCHANGED connVars
  BY DEF Watch
<1>4. \A p \in Pair : SavedNow(p) \in Saved
  BY DEF SavedNow, Saved, TableTypeOK, DataTypeOK, Pair
<1>5. TableTypeOK'
  BY <1>1, <1>2, <1>3, <1>4
     DEF WatchKeys, TableTypeOK, DataTypeOK, dataVars, connVars, TransactionsAssumption
<1>6. /\ keyVersions' = keyVersions /\ dbVersions' = dbVersions
      /\ globalVersion' = globalVersion
  BY <1>3 DEF dataVars
<1>7. /\ watching'[c] = watching[c] \cup P
      /\ modified'[c] = modified[c] \ P
      /\ watchedKeys'[IdOf[c]] = watchedKeys[IdOf[c]] \cup P
      /\ \A p \in Pair : savedVersions'[IdOf[c]][p] =
                          IF p \in P THEN SavedNow(p) ELSE savedVersions[IdOf[c]][p]
  BY <1>1 DEF WatchKeys, TableTypeOK, TransactionsAssumption
<1>8. ASSUME NEW d \in Client, d # c
      PROVE  /\ watching'[d] = watching[d] /\ modified'[d] = modified[d]
             /\ swapped'[d] = swapped[d]
             /\ watchedKeys'[IdOf[d]] = watchedKeys[IdOf[d]]
             /\ savedVersions'[IdOf[d]] = savedVersions[IdOf[d]]
  BY <1>1, <1>8 DEF WatchKeys, TableTypeOK, TransactionsAssumption, Unaliased
<1>9. ASSUME NEW p \in P
      PROVE  AtLeast(SavedNow(p), p)
  BY <1>2, <1>9 DEF AtLeast, SavedNow, TableTypeOK, DataTypeOK, Pair
<1>10. ASSUME NEW d \in Client
       PROVE  /\ watching'[d] \subseteq watchedKeys'[IdOf[d]]
              /\ modified'[d] \subseteq watching'[d]
              /\ \A p \in watching'[d] :
                   p[1] \notin swapped[d] => AtLeast(savedVersions'[IdOf[d]][p], p)
              /\ \A p \in modified'[d] :
                   p[1] \notin swapped[d] => Behind(savedVersions'[IdOf[d]][p], p)
  <2>1. CASE d = c
    <3>1. watching[c] \subseteq Pair
      BY DEF TableTypeOK
    <3> HIDE DEF P
    <3> QED
      BY <1>2, <1>7, <1>9, <2>1, <3>1 DEF Coherent
  <2>2. CASE d # c
    BY <1>8, <2>2 DEF Coherent
  <2> QED
    BY <2>1, <2>2
<1>11. swapped' = swapped
  BY <1>1
<1> QED
  BY <1>5, <1>6, <1>10, <1>11 DEF Coherent, AtLeast, Behind

-----------------------------------------------------------------------------
(* The inductive invariant.                                                *)

Inv == TypeOK /\ Coherent

\* Nothing is watched at the start.
LEMMA InitInv ==
  ASSUME TransactionsAssumption, Init
  PROVE  Inv
<1>1. NotSaved \in Saved
  BY DEF NotSaved, Saved
<1>2. TableTypeOK
  <2> HIDE DEF Saved, NotSaved
  <2> QED
    BY <1>1 DEF Init, TableTypeOK, DataTypeOK, TransactionsAssumption, Pair
<1>3. ExecTypeOK
  BY DEF Init, ExecTypeOK
<1>4. Coherent
  BY DEF Init, Coherent
<1> QED
  BY <1>2, <1>3, <1>4, TypeOKHalves DEF Inv

\* The three ways out of MULTI.
LEMMA LeaveMultiCoherent ==
  ASSUME TransactionsAssumption, Unaliased, TableTypeOK, Coherent,
         NEW c \in Client, LeaveMulti(c)
  PROVE  TableTypeOK' /\ Coherent'
BY ForgetCoherent DEF LeaveMulti, TableTypeOK

LEMMA NextInv ==
  ASSUME TransactionsAssumption, Unaliased, Inv, [Next]_vars
  PROVE  Inv'
<1> USE TypeOKHalves DEF Inv
<1>1. TableTypeOK /\ ExecTypeOK /\ Coherent
  OBVIOUS
<1>2. SUFFICES TableTypeOK' /\ ExecTypeOK' /\ Coherent'
  <2>1. TypeOK' <=> TableTypeOK' /\ ExecTypeOK'
    BY DEF TypeOK, TableTypeOK, DataTypeOK, ExecTypeOK
  <2> QED
    BY <2>1
<1>3. ASSUME UNCHANGED vars
      PROVE  TableTypeOK' /\ ExecTypeOK' /\ Coherent'
  BY <1>1, <1>3 DEF vars, dataVars, watchVars, connVars, execVars, history,
     TableTypeOK, DataTypeOK, ExecTypeOK, Coherent, AtLeast, Behind
<1>4. ASSUME UNCHANGED execVars
      PROVE  ExecTypeOK'
  BY <1>1, <1>4 DEF execVars, ExecTypeOK
<1>5. ASSUME NEW c \in Client, Open(c)
      PROVE  TableTypeOK' /\ ExecTypeOK' /\ Coherent'
  BY <1>1, <1>4, <1>5 DEF Open, dataVars, watchVars, history, TableTypeOK, DataTypeOK,
     Coherent, AtLeast, Behind
<1>6. ASSUME NEW c \in Client, Run(c)
      PROVE  TableTypeOK' /\ ExecTypeOK' /\ Coherent'
  <2>1. PICK cmd \in Cmd : Handle(c, cmd)
    BY <1>6 DEF Run, Request
  <2> QED
    BY <1>1, <1>4, <1>6, <2>1, HandleCoherent DEF Run
<1>7. ASSUME NEW c \in Client, Queue(c)
      PROVE  TableTypeOK' /\ ExecTypeOK' /\ Coherent'
  <2>1. PICK cmd \in Cmd : txQueue' = [txQueue EXCEPT ![c] = Append(@, cmd)]
    BY <1>7 DEF Queue, Request
  <2>2. txQueue' \in [Client -> Seq(Cmd)]
    BY <1>1, <2>1 DEF TableTypeOK
  <2> QED
    BY <1>1, <1>4, <1>7, <2>2 DEF Queue, dataVars, watchVars, history, TableTypeOK,
       DataTypeOK, Coherent, AtLeast, Behind
<1>8. ASSUME NEW c \in Client, Watch(c)
      PROVE  TableTypeOK' /\ ExecTypeOK' /\ Coherent'
  BY <1>1, <1>4, <1>8, WatchCoherent DEF Watch
<1>9. ASSUME NEW c \in Client, Multi(c)
      PROVE  TableTypeOK' /\ ExecTypeOK' /\ Coherent'
  BY <1>1, <1>4, <1>9 DEF Multi, dataVars, watchVars, history, TableTypeOK, DataTypeOK,
     Coherent, AtLeast, Behind
<1>10. ASSUME NEW c \in Client, ExecAbort(c) \/ Discard(c)
       PROVE  TableTypeOK' /\ ExecTypeOK' /\ Coherent'
  BY <1>1, <1>4, <1>10, LeaveMultiCoherent DEF ExecAbort, Discard
<1>11. ASSUME NEW c \in Client, ExecCommit(c)
       PROVE  TableTypeOK' /\ ExecTypeOK' /\ Coherent'
  <2>1. TableTypeOK' /\ Coherent'
    BY <1>1, <1>11, LeaveMultiCoherent DEF ExecCommit
  <2>2. ExecTypeOK'
    BY <1>1, <1>11 DEF ExecCommit, Runner, ExecTypeOK, TableTypeOK
  <2> QED
    BY <2>1, <2>2
<1>12. ASSUME NEW c \in Client, ExecStep(c)
       PROVE  TableTypeOK' /\ ExecTypeOK' /\ Coherent'
  <2>1. rest # <<>> /\ rest \in Seq(Cmd)
    BY <1>1, <1>12 DEF ExecStep, ExecTypeOK, TransactionsAssumption
  <2>2. Head(rest) \in Cmd /\ Tail(rest) \in Seq(Cmd)
    BY <2>1
  <2>3. TableTypeOK' /\ Coherent'
    BY <1>1, <1>12, <2>2, HandleCoherent DEF ExecStep
  <2>4. ExecTypeOK'
    BY <1>12, <2>2 DEF ExecStep, Runner, ExecTypeOK
  <2> QED
    BY <2>3, <2>4
<1>13. ASSUME NEW c \in Client, Disconnect(c)
       PROVE  TableTypeOK' /\ ExecTypeOK' /\ Coherent'
  <2>1. UnwatchAll(IdOf[c]) \/ UNCHANGED watchVars
    BY <1>13 DEF Disconnect
  <2> QED
    BY <1>1, <1>4, <1>13, <2>1, ForgetCoherent DEF Disconnect, TableTypeOK
<1>14. ASSUME Expiry
       PROVE  TableTypeOK' /\ ExecTypeOK' /\ Coherent'
  <2>1. DataTypeOK' /\ Advances({})
    BY <1>1, <1>14, DeleteAdvances DEF Expiry, Expire, TableTypeOK
  <2>2. {} \in SUBSET Db /\ Observe({})
    BY <1>14 DEF Expiry
  <2>3. UNCHANGED watchVars /\ UNCHANGED connVars /\ UNCHANGED execVars
    BY <1>14 DEF Expiry
  <2> QED
    BY <1>1, <1>4, <2>1, <2>2, <2>3, ObserveCoherent
       DEF TableTypeOK, watchVars, connVars
<1> QED
  BY <1>3, <1>5, <1>6, <1>7, <1>8, <1>9, <1>10, <1>11, <1>12, <1>13, <1>14 DEF Next

\* What EXEC relies on: a changed value leaves its watcher's entry dirty.
LEMMA InvImpliesWatchSound ==
  ASSUME TransactionsAssumption, Inv
  PROVE  WatchSound
<1> SUFFICES ASSUME NEW c \in Client, Modified(c) # {}
             PROVE  Dirty(IdOf[c])
  BY DEF WatchSound
<1>1. PICK p \in modified[c] : Behind(savedVersions[IdOf[c]][p], p)
  BY DEF Modified, Inv, Coherent
<1>2. p \in watchedKeys[IdOf[c]] /\ p \in Pair
  BY <1>1 DEF Inv, Coherent, TypeOK, TransactionsAssumption
<1>3. savedVersions[IdOf[c]][p] # SavedNow(p)
  BY <1>1, <1>2 DEF Behind, SavedNow, Inv, TypeOK, Pair
<1> QED
  BY <1>2, <1>3 DEF Dirty

-----------------------------------------------------------------------------
(* The watch table of the TCP clients.                                     *)

\* Forgetting what one client watches, with its entries unless the bridge
\* accepted it, keeps the entries of the others exact.
LEMMA ForgetExact ==
  ASSUME TransactionsAssumption, Unaliased, TableTypeOK, WatchTableExact,
         NEW c \in Client, Forget(c),
         UnwatchAll(IdOf[c]) \/ (c \in WsClient /\ UNCHANGED watchVars)
  PROVE  WatchTableExact'
<1> SUFFICES ASSUME NEW d \in Client \ WsClient
             PROVE  watchedKeys'[IdOf[d]] = watching'[d]
  BY DEF WatchTableExact
<1>1. watching'[c] = {} /\ (d # c => watching'[d] = watching[d])
  BY DEF Forget, TableTypeOK
<1>2. watchedKeys[IdOf[d]] = watching[d]
  BY DEF WatchTableExact
<1>3. CASE d = c
  BY <1>1, <1>3 DEF UnwatchAll, TableTypeOK, TransactionsAssumption
<1>4. CASE d # c
  <2>1. IdOf[d] # IdOf[c]
    BY <1>4 DEF Unaliased
  <2>2. watchedKeys'[IdOf[d]] = watchedKeys[IdOf[d]]
    BY <2>1 DEF UnwatchAll, watchVars, TableTypeOK, TransactionsAssumption
  <2> QED
    BY <1>1, <1>2, <1>4, <2>2
<1> QED
  BY <1>3, <1>4

\* No handler moves an entry without what the client watches.
LEMMA HandleExact ==
  ASSUME TransactionsAssumption, Unaliased, TableTypeOK, WatchTableExact,
         NEW c \in Client, NEW cmd \in Cmd, Handle(c, cmd)
  PROVE  WatchTableExact'
<1>1. CASE DataCommand(cmd)
  BY <1>1 DEF DataCommand, Observe, watchVars, WatchTableExact
<1>2. CASE Select(c, cmd)
  BY <1>2 DEF Select, watchVars, history, WatchTableExact
<1>3. CASE Unwatch(c, cmd)
  BY <1>3, ForgetExact DEF Unwatch
<1>4. CASE Reset(c, cmd)
  BY <1>4, ForgetExact DEF Reset
<1> QED
  BY <1>1, <1>2, <1>3, <1>4 DEF Handle

\* A WATCH enters under the client's id what the client watches from now on.
LEMMA WatchExact ==
  ASSUME TransactionsAssumption, Unaliased, TableTypeOK, WatchTableExact,
         NEW c \in Client, Watch(c)
  PROVE  WatchTableExact'
<1>1. PICK P :
        /\ watchedKeys' = [watchedKeys EXCEPT ![IdOf[c]] = @ \cup P]
        /\ watching' = [watching EXCEPT ![c] = @ \cup P]
  BY DEF Watch, WatchKeys
<1> QED
  BY <1>1 DEF TableTypeOK, TransactionsAssumption, Unaliased, WatchTableExact

LEMMA NextExact ==
  ASSUME TransactionsAssumption, Unaliased, Inv, WatchTableExact, [Next]_vars
  PROVE  WatchTableExact'
<1>1. TableTypeOK /\ ExecTypeOK
  BY TypeOKHalves DEF Inv
<1>2. CASE UNCHANGED <<watchVars, history>>
  BY <1>2 DEF watchVars, history, WatchTableExact
<1>3. ASSUME NEW c \in Client, Open(c) \/ Queue(c) \/ Multi(c)
      PROVE  WatchTableExact'
  BY <1>2, <1>3 DEF Open, Queue, Multi
<1>4. ASSUME NEW c \in Client, Run(c)
      PROVE  WatchTableExact'
  <2>1. PICK cmd \in Cmd : Handle(c, cmd)
    BY <1>4 DEF Run, Request
  <2> QED
    BY <1>1, <2>1, HandleExact
<1>5. ASSUME NEW c \in Client, Watch(c)
      PROVE  WatchTableExact'
  BY <1>1, <1>5, WatchExact
<1>6. ASSUME NEW c \in Client, ExecAbort(c) \/ ExecCommit(c) \/ Discard(c)
      PROVE  WatchTableExact'
  BY <1>1, <1>6, ForgetExact DEF ExecAbort, ExecCommit, Discard, LeaveMulti
<1>7. ASSUME NEW c \in Client, ExecStep(c)
      PROVE  WatchTableExact'
  <2>1. rest # <<>> /\ rest \in Seq(Cmd)
    BY <1>1, <1>7 DEF ExecStep, ExecTypeOK, TransactionsAssumption
  <2>2. Head(rest) \in Cmd
    BY <2>1
  <2> QED
    BY <1>1, <1>7, <2>2, HandleExact DEF ExecStep
<1>8. ASSUME NEW c \in Client, Disconnect(c)
      PROVE  WatchTableExact'
  BY <1>1, <1>8, ForgetExact DEF Disconnect
<1>9. CASE Expiry
  BY <1>9 DEF Expiry, Observe, watchVars, WatchTableExact
<1>10. CASE UNCHANGED vars
  BY <1>2, <1>10 DEF vars
<1> QED
  BY <1>3, <1>4, <1>5, <1>6, <1>7, <1>8, <1>9, <1>10 DEF Next

-----------------------------------------------------------------------------
(* The theorems.                                                           *)

\* Every state keeps the types and the coherence of the watch table.
THEOREM Invariance ==
  ASSUME Unaliased
  PROVE  Spec => []Inv
<1>1. Init => Inv
  BY InitInv, TransactionsAssumption
<1>2. Inv /\ [Next]_vars => Inv'
  BY NextInv, TransactionsAssumption
<1> QED
  BY <1>1, <1>2, PTL DEF Spec

\* Type correctness of the transaction machinery.
THEOREM TypeCorrect ==
  ASSUME Unaliased
  PROVE  Spec => []TypeOK
<1>1. Inv => TypeOK
  BY DEF Inv
<1> QED
  BY <1>1, Invariance, PTL

\* isWatchDirty sees every change of a watched value, through writes of any
\* client, evictions, expiry, RENAME, FLUSHDB and FLUSHALL.
THEOREM WatchIsSound ==
  ASSUME Unaliased
  PROVE  Spec => []WatchSound
<1>1. Inv => WatchSound
  BY InvImpliesWatchSound, TransactionsAssumption
<1> QED
  BY <1>1, Invariance, PTL

\* EXEC runs a queue only if nothing it watched has changed.
THEOREM CommitsAreUnmodified ==
  ASSUME Unaliased
  PROVE  Spec => CommitOnlyIfUnmodified
<1>1. Inv /\ [Next]_vars => [\A c \in Client : ExecCommit(c) => Modified(c) = {}]_vars
  <2>1. Inv => WatchSound
    BY InvImpliesWatchSound, TransactionsAssumption
  <2>2. WatchSound => \A c \in Client : ExecCommit(c) => Modified(c) = {}
    BY DEF WatchSound, ExecCommit
  <2> QED
    BY <2>1, <2>2
<1> QED
  BY <1>1, Invariance, PTL DEF Spec, CommitOnlyIfUnmodified

\* The entries of a TCP client are what it watches, through every way in and out
\* of a transaction and its disconnection (unwatchAll in each of them).
THEOREM WatchTableIsExact ==
  ASSUME Unaliased
  PROVE  Spec => []WatchTableExact
<1>1. Init => WatchTableExact
  BY TransactionsAssumption DEF Init, WatchTableExact, TransactionsAssumption
<1>2. Inv /\ WatchTableExact /\ [Next]_vars => WatchTableExact'
  BY NextExact, TransactionsAssumption
<1> QED
  BY <1>1, <1>2, Invariance, PTL DEF Spec

=============================================================================

------------------------- MODULE ChatRecoveryProofs -------------------------
(***************************************************************************)
(* The recovery of the chat index, for any conversations, messages, number *)
(* of passes and window: types, that a recovery which ended leaves nothing *)
(* unindexed, that rows are removed only after the passes and the time the *)
(* code asks for, and that it does to the index what ChatFiles says.       *)
(***************************************************************************)
EXTENDS ChatRecovery, TLAPS

\* A count of a candidate never runs ahead of what really happened.
Within(c, u) == c.passes >= 1 /\ c.passes <= u.passes /\ c.age <= u.age

\* Inductive: a recovery that is under way has not ended yet, and the table of
\* candidates claims no more passes and no more time than there were.
IInv ==
    /\ TypeOK
    /\ recovering => ~serving /\ ~recovered
    /\ EverythingIsFound
    /\ \A s \in Sessions : candidate[s] # None => Within(candidate[s], unseen[s])

-----------------------------------------------------------------------------
\* Counting a pass keeps the types, never counts down, and is monotone; so is
\* the age.
LEMMA BumpKeeps ==
    ASSUME NEW c \in Count
    PROVE  /\ Bump(c) \in Count
           /\ Bump(c).passes = Capped(c.passes + 1, MIN_ORPHAN_UNSEEN_PASSES)
           /\ Bump(c).age = c.age
    BY RecoveryAssumption DEF Bump, Count, Capped

LEMMA CountIsSomething == None \notin Count
    BY RecoveryAssumption DEF Count

LEMMA FirstIsCount == First \in Count /\ First.passes = 1 /\ First.age = 0
    BY RecoveryAssumption DEF First, Count

LEMMA BumpStaysWithin ==
    ASSUME NEW c \in Count, NEW u \in Count, Within(c, u)
    PROVE  Within(Bump(c), Bump(u))
<1>1. c.passes \in Nat /\ u.passes \in Nat BY DEF Count
<1>2. Capped(c.passes + 1, MIN_ORPHAN_UNSEEN_PASSES) <= Capped(u.passes + 1, MIN_ORPHAN_UNSEEN_PASSES)
      /\ Capped(c.passes + 1, MIN_ORPHAN_UNSEEN_PASSES) >= 1
    BY <1>1, RecoveryAssumption DEF Capped, Within
<1> QED BY <1>2, BumpKeeps DEF Within

\* A history that a pass has touched counts one pass at least.
LEMMA MissedCounts ==
    ASSUME TypeOK, NEW s \in Sessions, s \notin seen
    PROVE  /\ Missed[s] \in Count /\ Missed[s].passes >= 1
           /\ unseen[s].passes # 0 => Missed[s] = Bump(unseen[s])
<1>1. unseen[s] \in Count BY DEF TypeOK
<1>2. Missed[s] = IF unseen[s].passes = 0 THEN First ELSE Bump(unseen[s]) BY DEF Missed
<1>3. CASE unseen[s].passes = 0 BY <1>2, <1>3, FirstIsCount
<1>4. CASE unseen[s].passes # 0
  <2>1. unseen[s].passes \in Nat BY <1>1 DEF Count
  <2>2. Capped(unseen[s].passes + 1, MIN_ORPHAN_UNSEEN_PASSES) >= 1
      BY <2>1, RecoveryAssumption DEF Capped
  <2> QED BY <1>1, <1>2, <1>4, <2>2, BumpKeeps
<1> QED BY <1>3, <1>4

LEMMA MissedTypes ==
    ASSUME TypeOK
    PROVE  Missed \in [Sessions -> Count]
<1>1. \A s \in Sessions : Missed[s] \in Count
  <2> SUFFICES ASSUME NEW s \in Sessions PROVE Missed[s] \in Count OBVIOUS
  <2>1. CASE s \in seen
    <3>1. Missed[s] = [passes |-> 0, age |-> 0] BY <2>1 DEF Missed
    <3> QED BY <3>1, RecoveryAssumption DEF Count
  <2> QED BY <2>1, MissedCounts
<1> QED BY <1>1 DEF Missed

\* What a pass makes of a conversation that is still a candidate after it.
LEMMA JudgedIsMissed ==
    ASSUME TypeOK, NEW orphans, orphans = Indexed \ seen, NEW s \in Sessions,
           candidate[s] # None => Within(candidate[s], unseen[s])
    PROVE  /\ Judged(orphans)[s] \in Count \cup {None}
           /\ Judged(orphans)[s] # None => Within(Judged(orphans)[s], Missed[s])
<1> DEFINE j == Judged(orphans)[s]
<1>0. candidate[s] \in Count \cup {None} /\ unseen[s] \in Count BY DEF TypeOK
<1>1. CASE s \notin orphans
  <2>1. j = None BY <1>1 DEF Judged
  <2> QED BY <2>1
<1>2. CASE s \in orphans /\ Confirmed(s)
  <2>1. j = None BY <1>2 DEF Judged, Confirmed
  <2> QED BY <2>1
<1>3. CASE s \in orphans /\ ~Confirmed(s) /\ candidate[s] = None
  <2>1. j = First BY <1>3 DEF Judged
  <2>2. Missed[s] \in Count /\ Missed[s].passes >= 1 BY <1>3, MissedCounts
  <2>3. Missed[s].age >= 0 BY <2>2, RecoveryAssumption DEF Count
  <2> QED BY <2>1, <2>2, <2>3, FirstIsCount DEF Within
<1>4. CASE s \in orphans /\ ~Confirmed(s) /\ candidate[s] # None
  <2>1. j = Bump(candidate[s]) BY <1>4 DEF Judged
  <2>2. candidate[s] \in Count /\ Within(candidate[s], unseen[s]) BY <1>0, <1>4
  <2>3. unseen[s].passes # 0 BY <1>0, <2>2 DEF Within, Count
  <2>4. Missed[s] = Bump(unseen[s]) BY <1>4, <2>3, MissedCounts
  <2> QED BY <1>0, <2>1, <2>2, <2>4, BumpKeeps, BumpStaysWithin
<1> QED BY <1>1, <1>2, <1>3, <1>4

\* A conversation that is pruned was missed often and long enough.
LEMMA ConfirmedIsMissed ==
    ASSUME TypeOK, NEW s \in Sessions, Confirmed(s),
           candidate[s] # None => Within(candidate[s], unseen[s])
    PROVE  /\ unseen[s].passes + 1 >= MIN_ORPHAN_UNSEEN_PASSES
           /\ unseen[s].age >= ConfirmWindow
<1>1. candidate[s] \in Count /\ unseen[s] \in Count BY DEF TypeOK, Confirmed
<1>2. /\ candidate[s].passes \in Nat /\ candidate[s].age \in Nat
      /\ unseen[s].passes \in Nat /\ unseen[s].age \in Nat
    BY <1>1, RecoveryAssumption DEF Count
<1> QED BY <1>2, RecoveryAssumption DEF Confirmed, Within

-----------------------------------------------------------------------------
LEMMA Initially == Init => IInv
<1> SUFFICES ASSUME Init PROVE IInv OBVIOUS
<1>1. FilesTypeOK BY DEF Init, FilesInit, FilesTypeOK
<1>2. [passes |-> 0, age |-> 0] \in Count BY RecoveryAssumption DEF Count
<1> QED BY <1>1, <1>2 DEF Init, FilesInit, IInv, TypeOK, EverythingIsFound

\* The chat that goes on: what it stores it indexes, or is about to.
LEMMA Serving ==
    ASSUME IInv, Serve \/ Exit
    PROVE  IInv'
<1>0. TypeOK /\ UNCHANGED recoveryVars BY DEF Serve, Exit, IInv
<1>1. serving /\ FilesTypeOK' /\ EverythingIsFound'
  <2>1. ASSUME NEW s \in Sessions, NEW m \in Messages, Append(s, m)
        PROVE  serving /\ FilesTypeOK' /\ EverythingIsFound'
    <3>1. serving /\ FilesTypeOK' BY <1>0, <2>1 DEF Append, TypeOK, FilesTypeOK
    <3>2. EverythingIsFound'
        BY <1>0, <2>1 DEF Append, EverythingIsFound, IInv, recoveryVars, TypeOK, FilesTypeOK
    <3> QED BY <3>1, <3>2
  <2>2. ASSUME NEW s \in Sessions, NEW m \in Messages, Insert(s, m)
        PROVE  serving /\ FilesTypeOK' /\ EverythingIsFound'
    <3>1. serving /\ FilesTypeOK' BY <1>0, <2>2 DEF Insert, TypeOK, FilesTypeOK
    <3>2. EverythingIsFound'
        BY <1>0, <2>2 DEF Insert, EverythingIsFound, IInv, recoveryVars, TypeOK, FilesTypeOK
    <3> QED BY <3>1, <3>2
  <2>3. ASSUME NEW s \in Sessions, RemoveFile(s)
        PROVE  serving /\ FilesTypeOK' /\ EverythingIsFound'
    <3>1. serving /\ FilesTypeOK' BY <1>0, <2>3 DEF RemoveFile, TypeOK, FilesTypeOK
    <3>2. EverythingIsFound'
        BY <1>0, <2>3 DEF RemoveFile, EverythingIsFound, IInv, recoveryVars, TypeOK, FilesTypeOK
    <3> QED BY <3>1, <3>2
  <2>4. CASE Stop BY <1>0, <2>4 DEF Stop, TypeOK, FilesTypeOK, EverythingIsFound
  <2> QED BY <2>1, <2>2, <2>3, <2>4 DEF Serve, Exit, Request
<1>2. ~recovering' BY <1>0, <1>1 DEF IInv, recoveryVars
<1> QED BY <1>0, <1>1, <1>2 DEF IInv, TypeOK, recoveryVars, Within

LEMMA Booting ==
    ASSUME IInv, Boot
    PROVE  IInv'
<1>1. TypeOK'
  <2>1. seen' \in SUBSET Sessions BY DEF Boot, Stored
  <2> QED BY <2>1 DEF Boot, IInv, TypeOK, FilesTypeOK
<1>2. \A s \in Sessions : candidate'[s] # None => Within(candidate[s], unseen[s])' BY DEF Boot, IInv, Within
<1> QED BY <1>1, <1>2 DEF Boot, IInv, TypeOK, EverythingIsFound

LEMMA Replaying ==
    ASSUME IInv, NEW s \in Sessions, Replay(s)
    PROVE  IInv'
<1>1. TypeOK' BY DEF Replay, IInv, TypeOK, FilesTypeOK, recoveryVars
<1> QED BY <1>1 DEF Replay, IInv, EverythingIsFound, recoveryVars, Within

LEMMA Pruning ==
    ASSUME IInv, Prune
    PROVE  IInv'
<1> DEFINE orphans == Indexed \ seen
<1>0. TypeOK BY DEF IInv
<1>1. CASE seen = {} /\ Indexed # {}
  <2>1. UNCHANGED <<rows, candidate, unseen>> BY <1>1 DEF Prune
  <2>2. TypeOK' BY <2>1 DEF Prune, IInv, TypeOK, FilesTypeOK
  <2> QED BY <1>1, <2>1, <2>2 DEF Prune, IInv, EverythingIsFound, Within
<1>2. CASE ~(seen = {} /\ Indexed # {})
  <2>1. /\ rows' = [s \in Sessions |-> IF s \in orphans /\ Confirmed(s) THEN {} ELSE rows[s]]
        /\ candidate' = Judged(orphans)
        /\ unseen' = Missed
      BY <1>2 DEF Prune
  <2>2. FilesTypeOK' BY <1>0, <2>1 DEF Prune, TypeOK, FilesTypeOK
  <2>3. \A s \in Sessions :
            /\ candidate'[s] \in Count \cup {None}
            /\ candidate'[s] # None => Within(candidate[s], unseen[s])'
      BY <1>0, <2>1, JudgedIsMissed DEF IInv, Within
  <2>4. candidate' \in [Sessions -> Count \cup {None}] BY <2>1, <2>3 DEF Judged
  <2>5. TypeOK' BY <1>0, <2>1, <2>2, <2>4, MissedTypes DEF Prune, TypeOK
  <2>6. EverythingIsFound' BY <1>0, <2>1 DEF Prune, EverythingIsFound, TypeOK
  <2> QED BY <2>3, <2>5, <2>6 DEF Prune, IInv
<1> QED BY <1>1, <1>2

LEMMA Breaking ==
    ASSUME IInv, RecoveryFails \/ Die
    PROVE  IInv'
<1>1. TypeOK' BY DEF RecoveryFails, Die, IInv, TypeOK, FilesTypeOK, files
<1> QED BY <1>1 DEF RecoveryFails, Die, IInv, EverythingIsFound, Within, files

LEMMA Ticking ==
    ASSUME IInv, Tick
    PROVE  IInv'
<1> DEFINE older(c) == [c EXCEPT !.age = Capped(@ + 1, ConfirmWindow)]
<1>0. TypeOK BY DEF IInv
<1>1. \A c \in Count : /\ older(c) \in Count /\ older(c).passes = c.passes
                       /\ older(c).age = Capped(c.age + 1, ConfirmWindow)
    BY RecoveryAssumption DEF Count, Capped
<1>2. /\ candidate' = [s \in Sessions |-> IF candidate[s] = None THEN None ELSE older(candidate[s])]
      /\ unseen' = [s \in Sessions |-> IF unseen[s].passes = 0 THEN unseen[s] ELSE older(unseen[s])]
    BY DEF Tick
<1> HIDE DEF older
<1>3. candidate' \in [Sessions -> Count \cup {None}] /\ unseen' \in [Sessions -> Count]
    BY <1>0, <1>1, <1>2 DEF TypeOK
<1>4. TypeOK' BY <1>0, <1>3 DEF Tick, TypeOK, FilesTypeOK, files
<1>5. ASSUME NEW s \in Sessions, candidate'[s] # None
      PROVE  Within(candidate[s], unseen[s])'
  <2>1. candidate[s] \in Count /\ unseen[s] \in Count /\ Within(candidate[s], unseen[s])
      BY <1>0, <1>2, <1>5 DEF TypeOK, IInv
  <2>2. candidate[s] # None /\ unseen[s].passes # 0
      BY <2>1, CountIsSomething DEF Within, Count
  <2>3. candidate'[s] = older(candidate[s]) /\ unseen'[s] = older(unseen[s])
      BY <1>2, <2>2
  <2>4. candidate[s].age \in Nat /\ unseen[s].age \in Nat BY <2>1, RecoveryAssumption DEF Count
  <2>5. Capped(candidate[s].age + 1, ConfirmWindow) <= Capped(unseen[s].age + 1, ConfirmWindow)
      BY <2>1, <2>4, RecoveryAssumption DEF Within, Capped
  <2> QED BY <1>1, <2>1, <2>3, <2>5 DEF Within
<1>6. EverythingIsFound' BY DEF Tick, IInv, EverythingIsFound, files
<1> QED BY <1>4, <1>5, <1>6 DEF Tick, IInv, files

LEMMA Inductive == IInv /\ [Next]_vars => IInv'
<1> SUFFICES ASSUME IInv, [Next]_vars PROVE IInv' OBVIOUS
<1>1. CASE Serve \/ Exit BY <1>1, Serving
<1>2. CASE Boot BY <1>2, Booting
<1>3. CASE \E s \in Sessions : Replay(s) BY <1>3, Replaying
<1>4. CASE Prune BY <1>4, Pruning
<1>5. CASE RecoveryFails \/ Die BY <1>5, Breaking
<1>6. CASE Tick BY <1>6, Ticking
<1>7. CASE UNCHANGED vars
  <2>1. UNCHANGED files /\ UNCHANGED recoveryVars BY <1>7 DEF vars
  <2> QED BY <2>1 DEF files, recoveryVars, IInv, TypeOK, FilesTypeOK, EverythingIsFound, Within
<1> QED BY <1>1, <1>2, <1>3, <1>4, <1>5, <1>6, <1>7 DEF Next

\* The state of the recovery, for any instance: the types hold, a recovery under
\* way has not ended, and no candidate claims passes or time that were not.
THEOREM RecoveryInvariant == Spec => []IInv
<1> QED BY Initially, Inductive, PTL DEF Spec

\* Every variable keeps its type, wherever a recovery is cut off.
THEOREM RecoveryTypeCorrect == Spec => []TypeOK
<1>1. IInv => TypeOK BY DEF IInv
<1> QED BY <1>1, RecoveryInvariant, PTL

\* Everything a recovery saw can be found once it has ended, for any number of
\* conversations and messages and wherever the daemon died before.
\* (recoverIndex's replay, openIndex)
THEOREM StoredIsFound == Spec => []EverythingIsFound
<1>1. IInv => EverythingIsFound BY DEF IInv
<1> QED BY <1>1, RecoveryInvariant, PTL

-----------------------------------------------------------------------------
LEMMA RowsGo ==
    ASSUME IInv, [Next]_vars, NEW s \in Sessions, ~(rows[s] \subseteq rows'[s])
    PROVE  \/ "fts_messages" \in oldShape
           \/ /\ unseen[s].passes + 1 >= MIN_ORPHAN_UNSEEN_PASSES
              /\ unseen[s].age >= ConfirmWindow
<1>0. TypeOK BY DEF IInv
<1>1. CASE Serve \/ Exit
  <2>1. rows' = rows \/ \E r \in Sessions, m \in Messages : rows' = [rows EXCEPT ![r] = @ \cup {m}]
      BY <1>1 DEF Serve, Exit, Request, Append, Insert, RemoveFile, Stop
  <2> QED BY <1>0, <2>1 DEF TypeOK, FilesTypeOK
<1>2. CASE Boot BY <1>2 DEF Boot
<1>3. CASE \E r \in Sessions : Replay(r) BY <1>0, <1>3 DEF Replay, TypeOK, FilesTypeOK
<1>4. CASE Prune
  <2>1. Confirmed(s) BY <1>4 DEF Prune
  <2> QED BY <1>0, <2>1, ConfirmedIsMissed DEF IInv
<1>5. CASE RecoveryFails \/ Die \/ Tick \/ UNCHANGED vars
  <2>1. rows' = rows BY <1>5 DEF RecoveryFails, Die, Tick, vars, files
  <2> QED BY <2>1
<1> QED BY <1>1, <1>2, <1>3, <1>4, <1>5 DEF Next

\* No row is removed before its conversation was missed by enough passes in a
\* row, over enough time, for any number of passes and any window.
\* (confirmAndPruneOrphans)
THEOREM PrunedIsConfirmed == Spec => PruneIsConfirmed
<1>1. IInv /\ [Next]_vars =>
        [ \A s \in Sessions :
            ~(rows[s] \subseteq rows'[s]) =>
                \/ "fts_messages" \in oldShape
                \/ /\ unseen[s].passes + 1 >= MIN_ORPHAN_UNSEEN_PASSES
                   /\ unseen[s].age >= ConfirmWindow ]_vars
    BY RowsGo
<1> QED BY <1>1, RecoveryInvariant, PTL DEF Spec, PruneIsConfirmed

-----------------------------------------------------------------------------
(* The recovery keeps the promise it relies on.                            *)

\* Each step of the recovery puts rows right, or changes none.
LEMMA RecoveryStep ==
    ASSUME IInv, Boot \/ (\E s \in Sessions : Replay(s)) \/ Prune \/ RecoveryFails
    PROVE  Mend
<1>0. TypeOK /\ (recovering => ~serving) BY DEF IInv
<1>1. /\ ~serving /\ serving' \in BOOLEAN
      /\ rows' \in [Sessions -> SUBSET Messages]
      /\ UNCHANGED <<jsonl, pending>>
  <2>1. CASE Boot BY <1>0, <2>1 DEF Boot, TypeOK, FilesTypeOK
  <2>2. ASSUME NEW s \in Sessions, Replay(s)
        PROVE  /\ ~serving /\ serving' \in BOOLEAN
               /\ rows' \in [Sessions -> SUBSET Messages]
               /\ UNCHANGED <<jsonl, pending>>
      BY <1>0, <2>2 DEF Replay, TypeOK, FilesTypeOK
  <2>3. CASE Prune \/ RecoveryFails BY <1>0, <2>3 DEF Prune, RecoveryFails, TypeOK, FilesTypeOK
  <2> QED BY <2>1, <2>2, <2>3
<1>2. ASSUME NEW s \in Sessions
      PROVE  /\ rows'[s] \subseteq rows[s] \cup jsonl[s]
             /\ rows[s] \subseteq rows'[s] \/ rows'[s] \subseteq jsonl[s]
  <2>1. CASE Boot BY <2>1 DEF Boot
  <2>2. ASSUME NEW r \in Sessions, Replay(r)
        PROVE  rows'[s] \subseteq rows[s] \cup jsonl[s] /\ rows[s] \subseteq rows'[s]
      BY <1>0, <2>2 DEF Replay, TypeOK, FilesTypeOK
  <2>3. CASE Prune \/ RecoveryFails BY <2>3 DEF Prune, RecoveryFails
  <2> QED BY <2>1, <2>2, <2>3
<1> QED BY <1>1, <1>2 DEF Mend

\* The recovery, cut off wherever the daemon dies, is to the chat what ChatFiles
\* says: rows come from stored messages, and a conversation leaves the index as a
\* whole.  With StoreRefinesFiles each of the two may rely on the other.
\* (recoverIndex, openIndex)
THEOREM RecoveryRefinesFiles == Spec => FilesSpec
<1>1. Init => FilesInit
    BY DEF Init
<1>2. IInv /\ [Next]_vars => [FilesNext]_files
  <2> SUFFICES ASSUME IInv, [Next]_vars PROVE [FilesNext]_files OBVIOUS
  <2>1. CASE Serve \/ Exit BY <2>1 DEF Serve, Exit, FilesNext
  <2>2. CASE Boot \/ (\E s \in Sessions : Replay(s)) \/ Prune \/ RecoveryFails
      BY <2>2, RecoveryStep DEF FilesNext
  <2>3. CASE Die \/ Tick \/ UNCHANGED vars BY <2>3 DEF Die, Tick, vars
  <2> QED BY <2>1, <2>2, <2>3 DEF Next
<1> QED BY <1>1, <1>2, RecoveryInvariant, PTL DEF Spec, FilesSpec
=============================================================================

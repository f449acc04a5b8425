-------------------------- MODULE ChatStoreProofs ---------------------------
(***************************************************************************)
(* The stores of the chat, for any number of conversations and requests:   *)
(* types, what a deletion and the list of conversations promise, and that  *)
(* the handlers implement ChatFiles.                                       *)
(***************************************************************************)
EXTENDS ChatStore, TLAPS

TurnRec == [at : TurnStages, in : Sessions \cup {None}, memory : Memory \cup {None}]

\* Handlers hold what their stage says, and nothing while the daemon is down.
HandlersOK ==
    /\ \A t \in Turns :
          /\ turn[t].at = "idle" <=> turn[t].in = None
          /\ turn[t].at = "read" <=> turn[t].memory # None
          /\ ~serving => turn[t].at \in {"idle", "over"}
    /\ \A s \in Sessions :
          /\ del[s].at = "read" <=> del[s].memory # None
          /\ ~serving => del[s].at = "idle"
    /\ writer.at # "idle" <=> writer.memory # None
    /\ \A s \in writer.ids : Lists(writer.memory, s)
    /\ ~serving => writer.at = "idle"

\* A message that is not stored yet is in no file and no row.
Nowhere(m) == \A s \in Sessions : m \notin jsonl[s] /\ m \notin rows[s]

NewsOK ==
    \A t \in Turns :
        /\ turn[t].at = "idle" => Nowhere(Question(t))
        /\ turn[t].at \in {"idle", "stored", "asked", "recorded"} => Nowhere(Answer(t))

Busy(s, t) == turn[t].in = s /\ turn[t].at # "over"

\* Some handler other than its own deletion has a copy of the list with s.
Held(s) ==
    \/ \E t \in Turns : Lists(turn[t].memory, s)
    \/ \E r \in Sessions \ {s} : Lists(del[r].memory, s)
    \/ Lists(writer.memory, s)

\* Whoever lists a conversation, or is about to, has a message of it on disk; a
\* deletion under way has no such handler beside it, and works its way down.
StoresOK(s) ==
    /\ mem[s] # None => jsonl[s] # {}
    /\ Held(s) => jsonl[s] # {}
    /\ \A t \in Turns : Busy(s, t) => jsonl[s] # {}
    /\ del[s].at # "idle" => ~Held(s) /\ \A t \in Turns : ~Busy(s, t)
    /\ del[s].at \in {"unlisted", "unlinked"} => mem[s] = None
    /\ del[s].at = "unlinked" => jsonl[s] = {}
    /\ s \in deleted =>
          /\ jsonl[s] = {} /\ runs[s] = {} /\ mem[s] = None
          /\ del[s].at = "idle"
    /\ \A t \in Turns :
          Answer(t) \in jsonl[s] \/ (turn[t].in = s /\ turn[t].at = "recorded")
              => t \in runs[s] \cup unrecorded

IInv ==
    /\ TypeOK /\ HandlersOK /\ NewsOK
    /\ \A s \in Sessions \ crossed : StoresOK(s)

-----------------------------------------------------------------------------
\* The list in memory is no snapshot's absence, an entry no entry's.
LEMMA NoneIsNoMemory ==
    /\ None \notin Memory /\ None \notin Entry /\ None \notin Sessions
    BY ChatAssumption DEF Memory, Entry

\* A turn's question and answer are messages, and no others'.
LEMMA MessagesDiffer ==
    ASSUME NEW t \in Turns
    PROVE  /\ Question(t) \in Messages /\ Answer(t) \in Messages
           /\ \A e \in Exchanges : /\ (Question(e) = Question(t) <=> e = t)
                                   /\ (Answer(e) = Answer(t) <=> e = t)
                                   /\ Question(e) # Answer(t) /\ Answer(e) # Question(t)
    BY DEF Question, Answer, Messages, Exchanges

LEMMA UpsertedIsMemory ==
    ASSUME NEW m \in Memory, NEW s \in Sessions
    PROVE  /\ Upserted(m, s) \in Memory
           /\ [m EXCEPT ![s] = None] \in Memory
           /\ \A r \in Sessions : Upserted(m, s)[r] # None => r = s \/ m[r] # None
    BY DEF Upserted, Memory, Entry

\* A turn that goes on and puts down, or takes up, a copy of the list.
LEMMA MovedTurn ==
    ASSUME TypeOK, NEW t \in Turns, NEW a \in TurnStages, NEW m \in Memory \cup {None},
           turn' = [turn EXCEPT ![t].at = a, ![t].memory = m]
    PROVE  turn' \in [Turns -> TurnRec]
<1>1. turn \in [Turns -> TurnRec] BY DEF TypeOK, TurnRec
<1>2. \A u \in Turns : turn'[u] = IF u = t THEN [turn[t] EXCEPT !.at = a, !.memory = m] ELSE turn[u]
    BY <1>1
<1>3. turn' = [u \in Turns |-> turn'[u]] BY <1>1
<1>4. [turn[t] EXCEPT !.at = a, !.memory = m] \in TurnRec BY <1>1 DEF TurnRec
<1> QED BY <1>1, <1>2, <1>3, <1>4

\* A turn that goes on.
LEMMA GoneTurn ==
    ASSUME TypeOK, NEW t \in Turns, NEW from, NEW to \in TurnStages, Goes(t, from, to)
    PROVE  turn' \in [Turns -> TurnRec]
<1>1. turn \in [Turns -> TurnRec] BY DEF TypeOK, TurnRec
<1>2. [turn[t] EXCEPT !.at = to] \in TurnRec BY <1>1 DEF TurnRec
<1>3. turn' = [turn EXCEPT ![t] = [turn[t] EXCEPT !.at = to]] BY <1>1 DEF Goes
<1> QED BY <1>1, <1>2, <1>3

LEMMA Initially == Init => IInv
<1> SUFFICES ASSUME Init PROVE IInv OBVIOUS
<1>1. PICK existing \in SUBSET Sessions :
          /\ jsonl = [s \in Sessions |-> IF s \in existing THEN {Question(s), Answer(s)} ELSE {}]
          /\ rows = [s \in Sessions |-> IF s \in existing THEN {Question(s), Answer(s)} ELSE {}]
          /\ runs = [s \in Sessions |-> IF s \in existing THEN {s} ELSE {}]
          /\ mem = [s \in Sessions |-> IF s \in existing THEN "fresh" ELSE None]
    BY DEF Init
<1>2. TypeOK
  <2>1. jsonl \in [Sessions -> SUBSET Messages] /\ rows \in [Sessions -> SUBSET Messages]
      BY <1>1 DEF Messages, Exchanges, Question, Answer
  <2>2. runs \in [Sessions -> SUBSET Exchanges] BY <1>1 DEF Exchanges
  <2>3. mem \in Memory BY <1>1 DEF Memory, Entry
  <2> QED BY <2>1, <2>2, <2>3
      DEF Init, TypeOK, NoTurn, NoDelete, NoWriter, TurnStages, DelStages
<1>3. HandlersOK
    BY DEF Init, HandlersOK, NoTurn, NoDelete, NoWriter
<1>4. NewsOK
  <2> SUFFICES ASSUME NEW t \in Turns PROVE Nowhere(Question(t)) /\ Nowhere(Answer(t)) BY DEF NewsOK
  <2> QED BY <1>1, ChatAssumption, MessagesDiffer DEF Nowhere, Exchanges
<1>5. ASSUME NEW s \in Sessions PROVE StoresOK(s)
  <2>1. ~Held(s) /\ \A t \in Turns : ~Busy(s, t)
      BY ChatAssumption DEF Init, Held, Lists, Busy, NoTurn, NoDelete, NoWriter
  <2>2. \A t \in Turns : Answer(t) \notin jsonl[s] BY <1>1, ChatAssumption, MessagesDiffer DEF Exchanges
  <2> QED BY <1>1, <2>1, <2>2 DEF Init, StoresOK, NoTurn, NoDelete
<1> QED BY <1>2, <1>3, <1>4, <1>5 DEF IInv

-----------------------------------------------------------------------------
(* The types and what handlers hold, action by action.                     *)

LEMMA TurnKeepsTypes ==
    ASSUME IInv, Observe, NEW t \in Turns, Turn(t)
    PROVE  TypeOK' /\ HandlersOK'
<1>0. TypeOK /\ HandlersOK BY DEF IInv
<1>o. crossed' \in SUBSET Sessions BY <1>0 DEF Observe, Crossing, TypeOK
<1>1. ASSUME NEW s \in Sessions, StoreQuestion(t, s) PROVE TypeOK' /\ HandlersOK'
  <2>1. TypeOK' BY <1>0, <1>o, <1>1, MessagesDiffer DEF StoreQuestion, TypeOK, TurnStages
  <2>2. HandlersOK' BY <1>0, <1>1, NoneIsNoMemory DEF StoreQuestion, TypeOK, HandlersOK, TurnStages, Lists
  <2> QED BY <2>1, <2>2
<1>2. CASE IndexQuestion(t)
  <2>1. turn[t].in \in Sessions BY <1>0, <1>2 DEF IndexQuestion, Goes, TypeOK, HandlersOK
  <2>t. turn' \in [Turns -> TurnRec] BY <1>0, <1>2, GoneTurn DEF IndexQuestion, TurnStages
  <2>m. rows' \in [Sessions -> SUBSET Messages] BY <1>0, <1>2, <2>1, MessagesDiffer DEF IndexQuestion, Insert, TypeOK
  <2>2. TypeOK' BY <1>0, <1>o, <1>2, <2>t, <2>m DEF IndexQuestion, Insert, TypeOK, TurnRec
  <2>3. HandlersOK' BY <1>0, <1>2 DEF IndexQuestion, Goes, TypeOK, HandlersOK, TurnStages, Lists
  <2> QED BY <2>2, <2>3
<1>3. CASE Record(t)
  <2>1. turn[t].in \in Sessions BY <1>0, <1>3 DEF Record, Goes, TypeOK, HandlersOK
  <2>t. turn' \in [Turns -> TurnRec] BY <1>0, <1>3, GoneTurn DEF Record, TurnStages
  <2>u. runs' \in [Sessions -> SUBSET Exchanges] /\ unrecorded' \in SUBSET Turns
      BY <1>0, <1>3, <2>1 DEF Record, TypeOK, Exchanges
  <2>2. TypeOK' BY <1>0, <1>o, <1>3, <2>t, <2>u DEF Record, TypeOK, TurnRec
  <2>3. HandlersOK' BY <1>0, <1>3 DEF Record, Goes, TypeOK, HandlersOK, TurnStages, Lists
  <2> QED BY <2>2, <2>3
<1>4. CASE StoreAnswer(t)
  <2>1. turn[t].in \in Sessions BY <1>0, <1>4 DEF StoreAnswer, Goes, TypeOK, HandlersOK
  <2>t. turn' \in [Turns -> TurnRec] BY <1>0, <1>4, GoneTurn DEF StoreAnswer, TurnStages
  <2>m. jsonl' \in [Sessions -> SUBSET Messages] BY <1>0, <1>4, <2>1, MessagesDiffer DEF StoreAnswer, TypeOK
  <2>2. TypeOK' BY <1>0, <1>o, <1>4, <2>t, <2>m DEF StoreAnswer, TypeOK, TurnRec
  <2>3. HandlersOK' BY <1>0, <1>4 DEF StoreAnswer, Goes, TypeOK, HandlersOK, TurnStages, Lists
  <2> QED BY <2>2, <2>3
<1>5. CASE IndexAnswer(t)
  <2>1. turn[t].in \in Sessions BY <1>0, <1>5 DEF IndexAnswer, Goes, TypeOK, HandlersOK
  <2>t. turn' \in [Turns -> TurnRec] BY <1>0, <1>5, GoneTurn DEF IndexAnswer, TurnStages
  <2>m. rows' \in [Sessions -> SUBSET Messages] BY <1>0, <1>5, <2>1, MessagesDiffer DEF IndexAnswer, Insert, TypeOK
  <2>2. TypeOK' BY <1>0, <1>o, <1>5, <2>t, <2>m DEF IndexAnswer, Insert, TypeOK, TurnRec
  <2>3. HandlersOK' BY <1>0, <1>5 DEF IndexAnswer, Goes, TypeOK, HandlersOK, TurnStages, Lists
  <2> QED BY <2>2, <2>3
<1>6. CASE ReadMemory(t)
  <2>t. turn' \in [Turns -> TurnRec] BY <1>0, <1>6, MovedTurn DEF ReadMemory, TypeOK, TurnStages
  <2>1. TypeOK' BY <1>0, <1>o, <1>6, <2>t DEF ReadMemory, store, TypeOK, TurnRec
  <2>2. HandlersOK' BY <1>0, <1>6, NoneIsNoMemory DEF ReadMemory, TypeOK, HandlersOK, TurnStages, Lists
  <2> QED BY <2>1, <2>2
<1>7. CASE Upsert(t)
  <2>1. turn[t].in \in Sessions /\ turn[t].memory \in Memory BY <1>0, <1>7 DEF Upsert, TypeOK, HandlersOK
  <2>u. Upserted(turn[t].memory, turn[t].in) \in Memory BY <2>1, UpsertedIsMemory
  <2>2. mem' \in Memory BY <1>0, <1>7, <2>u DEF Upsert, Replace, TypeOK
  <2>t. turn' \in [Turns -> TurnRec] BY <1>0, <1>7, MovedTurn DEF Upsert, TypeOK, TurnStages
  <2>3. TypeOK' BY <1>0, <1>o, <1>7, <2>2, <2>t DEF Upsert, TypeOK, TurnRec
  <2>4. HandlersOK' BY <1>0, <1>7 DEF Upsert, TypeOK, HandlersOK, TurnStages, Lists
  <2> QED BY <2>3, <2>4
<1>8. CASE TurnFails(t)
  <2>t. turn' \in [Turns -> TurnRec] BY <1>0, <1>8, MovedTurn DEF TurnFails, TypeOK, TurnStages
  <2>1. TypeOK' BY <1>0, <1>o, <1>8, <2>t DEF TurnFails, store, TypeOK, TurnRec
  <2>2. HandlersOK' BY <1>0, <1>8 DEF TurnFails, TypeOK, HandlersOK, TurnStages, Lists
  <2> QED BY <2>1, <2>2
<1> QED BY <1>1, <1>2, <1>3, <1>4, <1>5, <1>6, <1>7, <1>8 DEF Turn

LEMMA DeleteKeepsTypes ==
    ASSUME IInv, Observe, NEW s \in Sessions, Delete(s)
    PROVE  TypeOK' /\ HandlersOK'
<1>0. TypeOK /\ HandlersOK BY DEF IInv
<1>o. crossed' \in SUBSET Sessions BY <1>0 DEF Observe, Crossing, TypeOK
<1>1. CASE DeleteRead(s)
  <2>1. TypeOK' BY <1>0, <1>o, <1>1 DEF DeleteRead, store, TypeOK, DelStages
  <2>2. HandlersOK' BY <1>0, <1>1, NoneIsNoMemory DEF DeleteRead, TypeOK, HandlersOK, DelStages, Lists
  <2> QED BY <2>1, <2>2
<1>2. CASE Unlist(s)
  <2>1. del[s].memory \in Memory BY <1>0, <1>2 DEF Unlist, TypeOK, HandlersOK
  <2>2. mem' \in Memory BY <1>0, <1>2, <2>1, UpsertedIsMemory DEF Unlist, Replace, TypeOK
  <2>3. TypeOK' BY <1>0, <1>o, <1>2, <2>2 DEF Unlist, TypeOK, DelStages
  <2>4. HandlersOK' BY <1>0, <1>2 DEF Unlist, TypeOK, HandlersOK, DelStages, Lists
  <2> QED BY <2>3, <2>4
<1>3. CASE Unlink(s)
  <2>1. TypeOK' BY <1>0, <1>o, <1>3 DEF Unlink, TypeOK, DelStages
  <2>2. HandlersOK' BY <1>0, <1>3 DEF Unlink, TypeOK, HandlersOK, DelStages, Lists
  <2> QED BY <2>1, <2>2
<1>4. CASE DeleteRuns(s)
  <2>1. TypeOK' BY <1>0, <1>o, <1>4 DEF DeleteRuns, TypeOK, DelStages, NoDelete
  <2>2. HandlersOK' BY <1>0, <1>4 DEF DeleteRuns, TypeOK, HandlersOK, DelStages, Lists, NoDelete
  <2> QED BY <2>1, <2>2
<1>5. CASE DeleteFails(s)
  <2>1. TypeOK' BY <1>0, <1>o, <1>5 DEF DeleteFails, store, TypeOK, DelStages, NoDelete
  <2>2. HandlersOK' BY <1>0, <1>5 DEF DeleteFails, TypeOK, HandlersOK, DelStages, Lists, NoDelete
  <2> QED BY <2>1, <2>2
<1> QED BY <1>1, <1>2, <1>3, <1>4, <1>5 DEF Delete

LEMMA WriterKeepsTypes ==
    ASSUME IInv, Observe, RecapRead \/ RecapWrite \/ ReanchorRead \/ ReanchorWrite
    PROVE  TypeOK' /\ HandlersOK'
<1>0. TypeOK /\ HandlersOK BY DEF IInv
<1>o. crossed' \in SUBSET Sessions BY <1>0 DEF Observe, Crossing, TypeOK
<1>1. CASE RecapRead \/ ReanchorRead
  <2>1. PICK ids \in SUBSET Sessions :
            /\ \A s \in ids : Lists(mem, s)
            /\ \E a \in {"recap", "reanchor"} : writer' = [at |-> a, ids |-> ids, memory |-> mem]
            /\ serving
    <3>1. CASE RecapRead
      <4>1. PICK ids \in (SUBSET {s \in Sessions : mem[s] = "fresh"}) \ {{}} :
                writer' = [at |-> "recap", ids |-> ids, memory |-> mem]
          BY <3>1 DEF RecapRead
      <4>2. \A s \in ids : Lists(mem, s) BY <1>0, NoneIsNoMemory DEF Lists, TypeOK, Entry
      <4> QED BY <3>1, <4>1, <4>2 DEF RecapRead
    <3>2. CASE ReanchorRead BY <3>2 DEF ReanchorRead
    <3> QED BY <1>1, <3>1, <3>2
  <2>u. UNCHANGED <<serving, store, turn, del, deleted, unrecorded>> BY <1>1 DEF RecapRead, ReanchorRead
  <2>w. /\ writer' \in [at : {"idle", "recap", "reanchor"}, ids : SUBSET Sessions, memory : Memory \cup {None}]
        /\ writer'.at # "idle" /\ writer'.memory = mem /\ writer'.ids = ids
      BY <1>0, <2>1 DEF TypeOK
  <2>2. TypeOK' BY <1>0, <1>o, <2>u, <2>w DEF store, TypeOK
  <2>3. HandlersOK' BY <1>0, <2>1, <2>u, <2>w, NoneIsNoMemory DEF TypeOK, HandlersOK, Lists
  <2> QED BY <2>2, <2>3
<1>2. CASE RecapWrite \/ ReanchorWrite
  <2>1. writer.memory \in Memory BY <1>0, <1>2 DEF RecapWrite, ReanchorWrite, TypeOK, HandlersOK
  <2>2. mem' \in Memory
      BY <1>0, <1>2, <2>1 DEF RecapWrite, ReanchorWrite, Replace, TypeOK, Memory, Entry
  <2>3. TypeOK' BY <1>0, <1>o, <1>2, <2>2 DEF RecapWrite, ReanchorWrite, TypeOK, NoWriter
  <2>4. HandlersOK' BY <1>0, <1>2 DEF RecapWrite, ReanchorWrite, HandlersOK, NoWriter
  <2> QED BY <2>3, <2>4
<1> QED BY <1>1, <1>2

LEMMA DaemonKeepsTypes ==
    ASSUME IInv, Observe, Down \/ Start
    PROVE  TypeOK' /\ HandlersOK'
<1>0. TypeOK /\ HandlersOK BY DEF IInv
<1>o. crossed' \in SUBSET Sessions BY <1>0 DEF Observe, Crossing, TypeOK
<1>1. CASE Down
  <2>1. TypeOK' BY <1>0, <1>o, <1>1 DEF Down, store, TypeOK, TurnStages, DelStages, NoDelete, NoWriter
  <2>t. \A t \in Turns : turn'[t].at = (IF turn[t].at = "idle" THEN "idle" ELSE "over")
                          /\ turn'[t].in = turn[t].in /\ turn'[t].memory = None
      BY <1>0, <1>1 DEF Down, TypeOK, HandlersOK, TurnStages
  <2>d. \A s \in Sessions : del'[s].at = "idle" /\ del'[s].memory = None BY <1>1 DEF Down, NoDelete
  <2>w. writer'.at = "idle" /\ writer'.memory = None /\ writer'.ids = {} BY <1>1 DEF Down, NoWriter
  <2>2. HandlersOK' BY <1>0, <2>t, <2>d, <2>w DEF HandlersOK
  <2> QED BY <2>1, <2>2
<1>2. CASE Start
  <2>1. TypeOK' BY <1>0, <1>o, <1>2 DEF Start, handlers, TypeOK
  <2>2. HandlersOK' BY <1>0, <1>2 DEF Start, handlers, HandlersOK
  <2> QED BY <2>1, <2>2
<1> QED BY <1>1, <1>2

LEMMA TypesAreKept ==
    ASSUME IInv, Next
    PROVE  TypeOK' /\ HandlersOK'
    BY TurnKeepsTypes, DeleteKeepsTypes, WriterKeepsTypes, DaemonKeepsTypes DEF Next

-----------------------------------------------------------------------------
(* Nothing is stored or indexed before its turn comes to it.               *)

LEMMA NewsAreKept ==
    ASSUME IInv, Next
    PROVE  NewsOK'
<1>0. TypeOK /\ HandlersOK /\ NewsOK BY DEF IInv
<1> SUFFICES ASSUME NEW u \in Turns
             PROVE  /\ turn'[u].at = "idle" => Nowhere(Question(u))'
                    /\ turn'[u].at \in {"idle", "stored", "asked", "recorded"} => Nowhere(Answer(u))'
    BY DEF NewsOK, Nowhere
<1>1. ASSUME NEW t \in Turns, NEW s \in Sessions, StoreQuestion(t, s)
      PROVE  /\ turn'[u].at = "idle" => Nowhere(Question(u))'
             /\ turn'[u].at \in {"idle", "stored", "asked", "recorded"} => Nowhere(Answer(u))'
  <2>1. turn'[u].at = (IF u = t THEN "stored" ELSE turn[u].at) BY <1>0, <1>1 DEF StoreQuestion, TypeOK
  <2>2. rows' = rows /\ \A r \in Sessions : jsonl'[r] = IF r = s THEN jsonl[s] \cup {Question(t)} ELSE jsonl[r]
      BY <1>0, <1>1 DEF StoreQuestion, TypeOK
  <2>3. Question(t) # Answer(u) /\ (Question(t) = Question(u) <=> t = u) BY MessagesDiffer DEF Exchanges
  <2> QED BY <1>0, <1>1, <2>1, <2>2, <2>3 DEF NewsOK, Nowhere, StoreQuestion
<1>2. ASSUME NEW t \in Turns, IndexQuestion(t)
      PROVE  /\ turn'[u].at = "idle" => Nowhere(Question(u))'
             /\ turn'[u].at \in {"idle", "stored", "asked", "recorded"} => Nowhere(Answer(u))'
  <2>1. turn[t].at = "stored" /\ turn'[u].at = (IF u = t THEN "asked" ELSE turn[u].at)
      BY <1>0, <1>2 DEF IndexQuestion, Goes, TypeOK
  <2>2. jsonl' = jsonl /\ \A r \in Sessions : rows'[r] \subseteq rows[r] \cup {Question(t)}
      BY <1>0, <1>2 DEF IndexQuestion, Insert, TypeOK
  <2>3. Question(t) # Answer(u) /\ (Question(t) = Question(u) <=> t = u) BY MessagesDiffer DEF Exchanges
  <2> QED BY <1>0, <2>1, <2>2, <2>3 DEF NewsOK, Nowhere
<1>3. ASSUME NEW t \in Turns, StoreAnswer(t)
      PROVE  /\ turn'[u].at = "idle" => Nowhere(Question(u))'
             /\ turn'[u].at \in {"idle", "stored", "asked", "recorded"} => Nowhere(Answer(u))'
  <2>1. turn'[u].at = (IF u = t THEN "answered" ELSE turn[u].at)
      BY <1>0, <1>3 DEF StoreAnswer, Goes, TypeOK
  <2>2. rows' = rows /\ \A r \in Sessions : jsonl'[r] \subseteq jsonl[r] \cup {Answer(t)}
      BY <1>0, <1>3 DEF StoreAnswer, TypeOK
  <2>3. Answer(t) # Question(u) /\ (Answer(t) = Answer(u) <=> t = u) BY MessagesDiffer DEF Exchanges
  <2> QED BY <1>0, <2>1, <2>2, <2>3 DEF NewsOK, Nowhere
<1>4. ASSUME NEW t \in Turns, IndexAnswer(t)
      PROVE  /\ turn'[u].at = "idle" => Nowhere(Question(u))'
             /\ turn'[u].at \in {"idle", "stored", "asked", "recorded"} => Nowhere(Answer(u))'
  <2>1. turn[t].at = "answered" /\ turn'[u].at = (IF u = t THEN "indexed" ELSE turn[u].at)
      BY <1>0, <1>4 DEF IndexAnswer, Goes, TypeOK
  <2>2. jsonl' = jsonl /\ \A r \in Sessions : rows'[r] \subseteq rows[r] \cup {Answer(t)}
      BY <1>0, <1>4 DEF IndexAnswer, Insert, TypeOK
  <2>3. Answer(t) # Question(u) /\ (Answer(t) = Answer(u) <=> t = u) BY MessagesDiffer DEF Exchanges
  <2> QED BY <1>0, <2>1, <2>2, <2>3 DEF NewsOK, Nowhere
<1>5. ASSUME NEW t \in Turns, Record(t) \/ ReadMemory(t) \/ Upsert(t) \/ TurnFails(t)
      PROVE  /\ turn'[u].at = "idle" => Nowhere(Question(u))'
             /\ turn'[u].at \in {"idle", "stored", "asked", "recorded"} => Nowhere(Answer(u))'
  <2>1. jsonl' = jsonl /\ rows' = rows BY <1>5 DEF Record, ReadMemory, Upsert, TurnFails, store
  <2>2. turn'[u].at = turn[u].at \/ (turn[u].at = "asked" /\ turn'[u].at = "recorded")
        \/ turn'[u].at \in {"read", "over"}
      BY <1>0, <1>5 DEF Record, Goes, ReadMemory, Upsert, TurnFails, TypeOK
  <2> QED BY <1>0, <2>1, <2>2 DEF NewsOK, Nowhere
<1>6. ASSUME NEW s \in Sessions, Delete(s)
      PROVE  /\ turn'[u].at = "idle" => Nowhere(Question(u))'
             /\ turn'[u].at \in {"idle", "stored", "asked", "recorded"} => Nowhere(Answer(u))'
  <2>1. turn' = turn /\ rows' = rows /\ \A r \in Sessions : jsonl'[r] \subseteq jsonl[r]
      BY <1>0, <1>6 DEF Delete, DeleteRead, Unlist, Unlink, DeleteRuns, DeleteFails, store, TypeOK
  <2> QED BY <1>0, <2>1 DEF NewsOK, Nowhere
<1>7. CASE RecapRead \/ RecapWrite \/ ReanchorRead \/ ReanchorWrite
  <2>1. turn' = turn /\ rows' = rows /\ jsonl' = jsonl
      BY <1>7 DEF RecapRead, RecapWrite, ReanchorRead, ReanchorWrite, store
  <2> QED BY <1>0, <2>1 DEF NewsOK, Nowhere
<1>8. CASE Down
  <2>1. rows' = rows /\ jsonl' = jsonl /\ (turn'[u].at = turn[u].at \/ turn'[u].at = "over")
      BY <1>0, <1>8 DEF Down, store, TypeOK
  <2> QED BY <1>0, <2>1 DEF NewsOK, Nowhere
<1>9. CASE Start
  <2>1. turn' = turn /\ jsonl' = jsonl /\ \A r \in Sessions : rows'[r] = rows[r] \cup jsonl[r]
      BY <1>9 DEF Start, handlers
  <2> QED BY <1>0, <2>1 DEF NewsOK, Nowhere
<1> QED BY <1>1, <1>2, <1>3, <1>4, <1>5, <1>6, <1>7, <1>8, <1>9 DEF Next, Turn

-----------------------------------------------------------------------------
(* What the stores promise each other, per kind of handler.                *)

\* The history of crossings never forgets, and sees every crossing at once.
LEMMA CrossingsAreSeen ==
    ASSUME Observe, NEW s \in Sessions, s \notin crossed'
    PROVE  s \notin crossed /\ s \notin Crossing'
    BY DEF Observe

\* A turn of a conversation whose deletion is under way crosses it, and so does a
\* handler that lists it.
LEMMA AloneBesideDeletion ==
    ASSUME NEW s \in Sessions, s \notin Crossing'
    PROVE  del'[s].at # "idle" =>
              /\ ~Held(s)' /\ \A t \in Turns : ~Busy(s, t)'
              /\ del'[s].at = "unlisted" => mem'[s] = None
    BY DEF Crossing, Held, Busy

LEMMA TurnKeepsStores ==
    ASSUME IInv, Observe, NEW t \in Turns, Turn(t), NEW s \in Sessions, s \notin crossed'
    PROVE  StoresOK(s)'
<1>0. TypeOK /\ HandlersOK /\ NewsOK BY DEF IInv
<1>1. StoresOK(s) BY CrossingsAreSeen DEF IInv
<1>2. del'[s].at # "idle" =>
              /\ ~Held(s)' /\ \A u \in Turns : ~Busy(s, u)'
              /\ del'[s].at = "unlisted" => mem'[s] = None
    BY CrossingsAreSeen, AloneBesideDeletion
<1>d. del' = del /\ writer' = writer
    BY DEF Turn, StoreQuestion, IndexQuestion, Record, StoreAnswer, IndexAnswer, ReadMemory, Upsert, TurnFails
<1>3. ASSUME NEW r \in Sessions, StoreQuestion(t, r) PROVE StoresOK(s)'
  <2>1. /\ \A u \in Turns : turn'[u] = IF u = t THEN [at |-> "stored", in |-> r, memory |-> None] ELSE turn[u]
        /\ jsonl'[s] = IF s = r THEN jsonl[s] \cup {Question(t)} ELSE jsonl[s]
        /\ mem' = mem /\ runs' = runs /\ deleted' = deleted \ {r} /\ unrecorded' = unrecorded
      BY <1>0, <1>3 DEF StoreQuestion, TypeOK
  <2>2. Held(s)' => Held(s) BY <1>d, <2>1 DEF Held, Lists
  <2>3. \A u \in Turns : Busy(s, u)' => (u = t /\ s = r) \/ Busy(s, u) BY <2>1 DEF Busy
  <2>4. \A u \in Turns : Answer(u) # Question(t) BY MessagesDiffer DEF Exchanges
  <2>5. del[s].at = "unlinked" => s # r BY <1>2, <1>d, <2>1 DEF Busy
  <2> QED BY <1>1, <1>2, <1>d, <2>1, <2>2, <2>3, <2>4, <2>5 DEF StoresOK
<1>4. CASE IndexQuestion(t) \/ IndexAnswer(t) \/ TurnFails(t)
  <2>1. /\ jsonl' = jsonl /\ mem' = mem /\ runs' = runs /\ deleted' = deleted /\ unrecorded' = unrecorded
        /\ \A u \in Turns : u # t => turn'[u] = turn[u]
        /\ turn'[t].in = turn[t].in
        /\ turn'[t].memory \in {turn[t].memory, None}
        /\ turn[t].at # "over" /\ turn'[t].at # "recorded"
      BY <1>0, <1>4 DEF IndexQuestion, IndexAnswer, TurnFails, Goes, store, TypeOK
  <2>2. Held(s)' => Held(s) BY <1>d, <2>1 DEF Held, Lists
  <2>3. \A u \in Turns : Busy(s, u)' => Busy(s, u) BY <2>1 DEF Busy
  <2> QED BY <1>1, <1>2, <1>d, <2>1, <2>2, <2>3 DEF StoresOK
<1>5. CASE Record(t)
  <2>1. /\ jsonl' = jsonl /\ mem' = mem /\ deleted' = deleted
        /\ \A u \in Turns : turn'[u] = IF u = t THEN [turn[t] EXCEPT !.at = "recorded"] ELSE turn[u]
        /\ turn[t].at = "asked" /\ turn[t].in \in Sessions
      BY <1>0, <1>5 DEF Record, Goes, TypeOK, HandlersOK
  <2>2. /\ \A u \in Turns : u \in runs[s] \cup unrecorded => u \in runs'[s] \cup unrecorded'
        /\ turn[t].in = s => t \in runs'[s] \cup unrecorded'
        /\ turn[t].in # s => runs'[s] = runs[s]
      BY <1>0, <1>5, <2>1 DEF Record, TypeOK
  <2>3. Held(s)' => Held(s) BY <1>0, <1>d, <2>1 DEF Held, Lists, TypeOK
  <2>4. \A u \in Turns : /\ Busy(s, u)' => Busy(s, u)
                         /\ turn'[u].in = turn[u].in
                         /\ turn'[u].at = "recorded" => u = t \/ turn[u].at = "recorded"
      BY <1>0, <2>1 DEF Busy, TypeOK
  <2>5. turn[t].in = s => Busy(s, t) BY <2>1 DEF Busy
  <2>6. s \in deleted => turn[t].in # s BY <1>1, <2>5 DEF StoresOK
  <2> QED BY <1>1, <1>2, <1>d, <2>1, <2>2, <2>3, <2>4, <2>6 DEF StoresOK
<1>6. CASE StoreAnswer(t)
  <2>1. /\ runs' = runs /\ mem' = mem /\ deleted' = deleted /\ unrecorded' = unrecorded
        /\ \A u \in Turns : turn'[u] = IF u = t THEN [turn[t] EXCEPT !.at = "answered"] ELSE turn[u]
        /\ turn[t].at = "recorded" /\ turn[t].in \in Sessions
        /\ jsonl'[s] = IF s = turn[t].in THEN jsonl[s] \cup {Answer(t)} ELSE jsonl[s]
      BY <1>0, <1>6 DEF StoreAnswer, Goes, TypeOK, HandlersOK
  <2>2. Held(s)' => Held(s) BY <1>0, <1>d, <2>1 DEF Held, Lists, TypeOK
  <2>3. \A u \in Turns : /\ Busy(s, u)' => Busy(s, u)
                         /\ turn'[u].in = turn[u].in
                         /\ turn'[u].at = "recorded" => turn[u].at = "recorded"
      BY <1>0, <2>1 DEF Busy, TypeOK
  <2>4. turn[t].in = s => Busy(s, t) BY <2>1 DEF Busy
  <2>5. s \in deleted \/ del[s].at # "idle" => turn[t].in # s BY <1>1, <2>4 DEF StoresOK
  <2>6. \A u \in Turns : Answer(u) = Answer(t) => u = t BY MessagesDiffer DEF Exchanges
  <2> QED BY <1>1, <1>2, <1>d, <2>1, <2>2, <2>3, <2>5, <2>6 DEF StoresOK
<1>7. CASE ReadMemory(t)
  <2>1. /\ jsonl' = jsonl /\ mem' = mem /\ runs' = runs /\ deleted' = deleted /\ unrecorded' = unrecorded
        /\ \A u \in Turns : u # t => turn'[u] = turn[u]
        /\ turn'[t].in = turn[t].in /\ turn'[t].memory = mem
        /\ turn[t].at = "indexed" /\ turn'[t].at = "read"
      BY <1>0, <1>7 DEF ReadMemory, store, TypeOK
  <2>2. Held(s)' => Held(s) \/ mem[s] # None BY <1>d, <2>1 DEF Held, Lists
  <2>3. \A u \in Turns : Busy(s, u)' => Busy(s, u) BY <2>1 DEF Busy
  <2> QED BY <1>1, <1>2, <1>d, <2>1, <2>2, <2>3 DEF StoresOK
<1>8. CASE Upsert(t)
  <2>1. /\ jsonl' = jsonl /\ runs' = runs /\ deleted' = deleted /\ unrecorded' = unrecorded
        /\ \A u \in Turns : u # t => turn'[u] = turn[u]
        /\ turn'[t].in = turn[t].in /\ turn'[t].memory = None
        /\ turn[t].at = "read" /\ turn'[t].at = "over"
        /\ mem' \in {Upserted(turn[t].memory, turn[t].in), mem}
        /\ turn[t].memory \in Memory /\ turn[t].in \in Sessions
      BY <1>0, <1>8 DEF Upsert, Replace, TypeOK, HandlersOK
  <2>2. Held(s)' => Held(s) BY <1>d, <2>1 DEF Held, Lists
  <2>3. \A u \in Turns : Busy(s, u)' => Busy(s, u) BY <2>1 DEF Busy
  <2>4. Upserted(turn[t].memory, turn[t].in)[s] # None => Busy(s, t) \/ Held(s)
    <3>1. Upserted(turn[t].memory, turn[t].in)[s] # None => turn[t].in = s \/ turn[t].memory[s] # None
        BY <2>1, UpsertedIsMemory
    <3> QED BY <2>1, <3>1, NoneIsNoMemory DEF Busy, Held, Lists
  <2>5. mem'[s] # None => mem[s] # None \/ Busy(s, t) \/ Held(s) BY <2>1, <2>4
  <2> QED BY <1>1, <1>2, <1>d, <2>1, <2>2, <2>3, <2>5 DEF StoresOK
<1> QED BY <1>3, <1>4, <1>5, <1>6, <1>7, <1>8 DEF Turn

LEMMA DeleteKeepsStores ==
    ASSUME IInv, Observe, NEW r \in Sessions, Delete(r), NEW s \in Sessions, s \notin crossed'
    PROVE  StoresOK(s)'
<1>0. TypeOK /\ HandlersOK /\ NewsOK BY DEF IInv
<1>1. StoresOK(s) BY CrossingsAreSeen DEF IInv
<1>2. del'[s].at # "idle" =>
              /\ ~Held(s)' /\ \A u \in Turns : ~Busy(s, u)'
              /\ del'[s].at = "unlisted" => mem'[s] = None
    BY CrossingsAreSeen, AloneBesideDeletion
<1>d. turn' = turn /\ writer' = writer /\ unrecorded' = unrecorded
    BY DEF Delete, DeleteRead, Unlist, Unlink, DeleteRuns, DeleteFails
<1>b. \A u \in Turns : Busy(s, u)' <=> Busy(s, u) BY <1>d DEF Busy
<1>3. CASE DeleteRead(r)
  <2>1. /\ jsonl' = jsonl /\ mem' = mem /\ runs' = runs /\ deleted' = deleted
        /\ \A q \in Sessions : del'[q] = IF q = r THEN [at |-> "read", memory |-> mem] ELSE del[q]
        /\ r \notin deleted
      BY <1>0, <1>3 DEF DeleteRead, store, TypeOK
  <2>2. Held(s)' => Held(s) \/ mem[s] # None BY <1>d, <2>1 DEF Held, Lists
  <2> QED BY <1>1, <1>2, <1>d, <1>b, <2>1, <2>2 DEF StoresOK
<1>4. CASE Unlist(r)
  <2>1. /\ jsonl' = jsonl /\ runs' = runs /\ deleted' = deleted
        /\ \A q \in Sessions : del'[q] = IF q = r THEN [at |-> "unlisted", memory |-> None] ELSE del[q]
        /\ mem' \in {[del[r].memory EXCEPT ![r] = None], mem}
        /\ del[r].memory \in Memory /\ del[r].at = "read"
      BY <1>0, <1>4 DEF Unlist, Replace, TypeOK, HandlersOK
  <2>2. Held(s)' => Held(s) BY <1>d, <2>1 DEF Held, Lists
  <2>3. [del[r].memory EXCEPT ![r] = None][s] # None => Held(s)
      BY <2>1, NoneIsNoMemory DEF Held, Lists, Memory
  <2>4. mem'[s] # None => mem[s] # None \/ Held(s) BY <2>1, <2>3
  <2> QED BY <1>1, <1>2, <1>d, <1>b, <2>1, <2>2, <2>4 DEF StoresOK
<1>5. CASE Unlink(r)
  <2>1. /\ mem' = mem /\ runs' = runs /\ deleted' = deleted
        /\ \A q \in Sessions : /\ del'[q].memory = del[q].memory
                               /\ del'[q].at = IF q = r THEN "unlinked" ELSE del[q].at
                               /\ jsonl'[q] = IF q = r THEN {} ELSE jsonl[q]
        /\ del[r].at = "unlisted"
      BY <1>0, <1>5 DEF Unlink, TypeOK
  <2>2. Held(s)' <=> Held(s) BY <1>d, <2>1 DEF Held, Lists
  <2>3. s = r => mem[s] = None /\ ~Held(s) /\ \A u \in Turns : ~Busy(s, u) BY <1>1, <2>1 DEF StoresOK
  <2>4. \A u \in Turns : turn[u].in = s /\ turn[u].at = "recorded" => Busy(s, u) BY DEF Busy
  <2> QED BY <1>1, <1>2, <1>d, <1>b, <2>1, <2>2, <2>3, <2>4 DEF StoresOK
<1>6. CASE DeleteRuns(r)
  <2>1. /\ mem' = mem /\ jsonl' = jsonl
        /\ \/ /\ deleted' = deleted \cup {r}
              /\ \A q \in Sessions : runs'[q] = IF q = r THEN {} ELSE runs[q]
           \/ deleted' = deleted /\ runs' = runs
        /\ \A q \in Sessions : del'[q] = IF q = r THEN NoDelete ELSE del[q]
        /\ del[r].at = "unlinked"
      BY <1>0, <1>6 DEF DeleteRuns, TypeOK
  <2>2. Held(s)' => Held(s) BY <1>d, <2>1 DEF Held, Lists, NoDelete
  <2>3. s = r => mem[s] = None /\ jsonl[s] = {} /\ \A u \in Turns : ~Busy(s, u) BY <1>1, <2>1 DEF StoresOK
  <2>4. \A u \in Turns : turn[u].in = s /\ turn[u].at = "recorded" => Busy(s, u) BY DEF Busy
  <2> QED BY <1>1, <1>2, <1>d, <1>b, <2>1, <2>2, <2>3, <2>4 DEF StoresOK, NoDelete
<1>7. CASE DeleteFails(r)
  <2>1. /\ mem' = mem /\ jsonl' = jsonl /\ runs' = runs /\ deleted' = deleted
        /\ \A q \in Sessions : del'[q] = IF q = r THEN NoDelete ELSE del[q]
      BY <1>0, <1>7 DEF DeleteFails, store, TypeOK
  <2>2. Held(s)' => Held(s) BY <1>d, <2>1 DEF Held, Lists, NoDelete
  <2> QED BY <1>1, <1>2, <1>d, <1>b, <2>1, <2>2 DEF StoresOK, NoDelete
<1> QED BY <1>3, <1>4, <1>5, <1>6, <1>7 DEF Delete

LEMMA WriterKeepsStores ==
    ASSUME IInv, Observe, RecapRead \/ RecapWrite \/ ReanchorRead \/ ReanchorWrite,
           NEW s \in Sessions, s \notin crossed'
    PROVE  StoresOK(s)'
<1>0. TypeOK /\ HandlersOK BY DEF IInv
<1>1. StoresOK(s) BY CrossingsAreSeen DEF IInv
<1>2. del'[s].at # "idle" =>
              /\ ~Held(s)' /\ \A u \in Turns : ~Busy(s, u)'
              /\ del'[s].at = "unlisted" => mem'[s] = None
    BY CrossingsAreSeen, AloneBesideDeletion
<1>d. /\ turn' = turn /\ del' = del /\ unrecorded' = unrecorded
      /\ jsonl' = jsonl /\ runs' = runs /\ deleted' = deleted
    BY DEF RecapRead, RecapWrite, ReanchorRead, ReanchorWrite, store
<1>b. \A u \in Turns : Busy(s, u)' <=> Busy(s, u) BY <1>d DEF Busy
<1>3. CASE RecapRead \/ ReanchorRead
  <2>1. mem' = mem /\ writer'.memory = mem BY <1>3 DEF RecapRead, ReanchorRead, store
  <2>2. Held(s)' => Held(s) \/ mem[s] # None BY <1>d, <2>1 DEF Held, Lists
  <2> QED BY <1>1, <1>2, <1>d, <1>b, <2>1, <2>2 DEF StoresOK
<1>4. CASE RecapWrite \/ ReanchorWrite
  <2>1. writer'.memory = None BY <1>4 DEF RecapWrite, ReanchorWrite, NoWriter
  <2>2. Held(s)' => Held(s) BY <1>d, <2>1 DEF Held, Lists
  <2>3. mem'[s] # None => mem[s] # None \/ Held(s)
    <3>1. CASE RecapWrite
      <4>1. PICK done \in SUBSET writer.ids :
                \/ mem' = mem
                \/ mem' = [q \in Sessions |-> IF q \in done THEN "recapped" ELSE writer.memory[q]]
          BY <3>1 DEF RecapWrite, Replace
      <4>2. s \in done => Lists(writer.memory, s) BY <1>0 DEF HandlersOK
      <4>3. writer.memory # None BY <1>0, <3>1 DEF RecapWrite, HandlersOK
      <4> QED BY <4>1, <4>2, <4>3 DEF Held, Lists
    <3>2. CASE ReanchorWrite
      <4>1. writer.memory # None BY <1>0, <3>2 DEF ReanchorWrite, HandlersOK
      <4> QED BY <3>2, <4>1 DEF ReanchorWrite, Replace, Held, Lists
    <3> QED BY <1>4, <3>1, <3>2
  <2> QED BY <1>1, <1>2, <1>d, <1>b, <2>2, <2>3 DEF StoresOK
<1> QED BY <1>3, <1>4

LEMMA DaemonKeepsStores ==
    ASSUME IInv, Observe, Down \/ Start, NEW s \in Sessions, s \notin crossed'
    PROVE  StoresOK(s)'
<1>0. TypeOK /\ HandlersOK BY DEF IInv
<1>1. StoresOK(s) BY CrossingsAreSeen DEF IInv
<1>d. jsonl' = jsonl /\ runs' = runs /\ mem' = mem /\ deleted' = deleted /\ unrecorded' = unrecorded
    BY DEF Down, Start, store
<1>2. CASE Down
  <2>1. \A u \in Turns : turn'[u] = IF turn[u].at = "idle" THEN turn[u]
                                    ELSE [turn[u] EXCEPT !.at = "over", !.memory = None]
      BY <1>2 DEF Down
  <2>2. \A u \in Turns : /\ turn'[u].memory = None /\ turn'[u].at # "recorded"
                         /\ Busy(s, u)' => Busy(s, u)
    <3> SUFFICES ASSUME NEW u \in Turns
                 PROVE  /\ turn'[u].memory = None /\ turn'[u].at # "recorded"
                        /\ Busy(s, u)' => Busy(s, u)
        OBVIOUS
    <3>1. turn[u] \in TurnRec BY <1>0 DEF TypeOK, TurnRec
    <3>2. CASE turn[u].at = "idle"
      <4>1. turn'[u] = turn[u] /\ turn[u].memory = None BY <1>0, <2>1, <3>2 DEF HandlersOK
      <4> QED BY <3>2, <4>1 DEF Busy
    <3>3. CASE turn[u].at # "idle"
      <4>1. turn'[u] = [turn[u] EXCEPT !.at = "over", !.memory = None] BY <2>1, <3>3
      <4>2. turn'[u].at = "over" /\ turn'[u].memory = None BY <3>1, <4>1 DEF TurnRec
      <4> QED BY <4>2 DEF Busy
    <3> QED BY <3>2, <3>3
  <2>3. \A q \in Sessions : del'[q] = NoDelete BY <1>2 DEF Down
  <2>4. writer' = NoWriter BY <1>2 DEF Down
  <2>5. ~Held(s)' BY <2>2, <2>3, <2>4 DEF Held, Lists, NoDelete, NoWriter
  <2> QED BY <1>1, <1>d, <2>2, <2>3, <2>5 DEF StoresOK, NoDelete
<1>3. CASE Start
  <2>1. UNCHANGED handlers BY <1>3 DEF Start
  <2> QED BY <1>1, <1>d, <2>1 DEF StoresOK, Held, Lists, Busy, handlers
<1> QED BY <1>2, <1>3

LEMMA Inductive == IInv /\ [Next]_vars => IInv'
<1> SUFFICES ASSUME IInv, [Next]_vars PROVE IInv' OBVIOUS
<1>1. CASE Next
  <2>1. TypeOK' /\ HandlersOK' BY <1>1, TypesAreKept
  <2>2. NewsOK' BY <1>1, NewsAreKept
  <2>3. ASSUME NEW s \in Sessions, s \notin crossed' PROVE StoresOK(s)'
      BY <1>1, <2>3, TurnKeepsStores, DeleteKeepsStores, WriterKeepsStores, DaemonKeepsStores DEF Next
  <2> QED BY <2>1, <2>2, <2>3 DEF IInv
<1>2. CASE UNCHANGED vars
  <2>1. /\ UNCHANGED <<serving, jsonl, rows, runs, mem>>
        /\ UNCHANGED <<turn, del, writer, deleted, crossed, unrecorded>>
      BY <1>2 DEF vars, store, handlers, history
  <2>2. TypeOK' BY <2>1 DEF IInv, TypeOK
  <2>3. HandlersOK' BY <2>1 DEF IInv, HandlersOK, Lists
  <2>4. NewsOK' BY <2>1 DEF IInv, NewsOK, Nowhere
  <2>5. \A s \in Sessions : StoresOK(s)' <=> StoresOK(s) BY <2>1 DEF StoresOK, Held, Lists, Busy
  <2> QED BY <2>1, <2>2, <2>3, <2>4, <2>5 DEF IInv
<1> QED BY <1>1, <1>2

\* The inductive invariant of the stores, for any number of conversations and
\* requests and any interleaving of their handlers.
THEOREM StoresInvariant == Spec => []IInv
<1> QED BY Initially, Inductive, PTL DEF Spec

\* Every variable keeps its type, whichever await a handler is interrupted at.
THEOREM StoresTypeCorrect == Spec => []TypeOK
<1>1. IInv => TypeOK BY DEF IInv
<1> QED BY <1>1, StoresInvariant, PTL

\* An answer on disk has its call record, unless that could not be written or a
\* deletion was crossed, for any number of conversations and requests.
\* (chat.ts:1220)
THEOREM RecordComesFirst == Spec => []AnswerHasRecord
<1>1. IInv => AnswerHasRecord BY DEF IInv, StoresOK, AnswerHasRecord
<1> QED BY <1>1, StoresInvariant, PTL

\* After a deletion that came to its end the conversation has no message, record
\* or list entry, and gets none again, with crossed deletions as the one
\* exception.  (chat.ts:1462)
THEOREM StoresAgree == Spec => []DeletionIsComplete
<1>1. IInv => DeletionIsComplete
  <2> SUFFICES ASSUME IInv PROVE DeletionIsComplete
      OBVIOUS
  <2>1. TypeOK BY DEF IInv
  <2> QED BY <2>1 DEF IInv, StoresOK, DeletionIsComplete, TypeOK
<1> QED BY <1>1, StoresInvariant, PTL

\* The list names only conversations that have a message, crossed deletions
\* apart, although writers with old copies of the list come late.  (sessions.ts:111)
THEOREM ListIsStored == Spec => []ListedIsStored
<1>1. IInv => ListedIsStored BY DEF IInv, StoresOK, ListedIsStored
<1> QED BY <1>1, StoresInvariant, PTL

-----------------------------------------------------------------------------
(* The refinement: on the files and the index, each step of a handler is a *)
(* step of ChatFiles or none.                                              *)

\* Who is about to index what.
LEMMA AboutToIndexIs ==
    ASSUME NEW s, NEW m
    PROVE  <<s, m>> \in AboutToIndex <=>
              \E t \in Turns : /\ turn[t].in = s
                               /\ \/ turn[t].at = "stored" /\ m = Question(t)
                                  \/ turn[t].at = "answered" /\ m = Answer(t)
    BY DEF AboutToIndex

LEMMA AboutToIndexArePairs == \A x \in AboutToIndex : \E s, m : x = <<s, m>>
    BY DEF AboutToIndex

\* A step that neither takes up nor finishes indexing leaves what is about to be
\* indexed as it is.
LEMMA AboutToIndexStays ==
    ASSUME \A t \in Turns : /\ turn'[t].in = turn[t].in
                            /\ turn'[t].at = "stored" <=> turn[t].at = "stored"
                            /\ turn'[t].at = "answered" <=> turn[t].at = "answered"
    PROVE  AboutToIndex' = AboutToIndex
    BY DEF AboutToIndex

LEMMA InitImplements == Init => Files!FilesInit
<1> SUFFICES ASSUME Init PROVE Files!FilesInit OBVIOUS
<1>1. IInv BY Initially
<1>2. PICK existing \in SUBSET Sessions :
          /\ jsonl = [s \in Sessions |-> IF s \in existing THEN {Question(s), Answer(s)} ELSE {}]
          /\ rows = [s \in Sessions |-> IF s \in existing THEN {Question(s), Answer(s)} ELSE {}]
    BY DEF Init
<1>3. \A s, r \in Sessions : s # r => jsonl[s] \cap jsonl[r] = {} BY <1>2 DEF Question, Answer
<1>4. AboutToIndex = {} BY DEF Init, AboutToIndex, NoTurn
<1>5. jsonl \in [Sessions -> SUBSET Messages] BY <1>1 DEF IInv, TypeOK
<1> QED BY <1>2, <1>3, <1>4, <1>5 DEF Init, Files!FilesInit

LEMMA TurnImplements ==
    ASSUME IInv, NEW t \in Turns, Turn(t)
    PROVE  [Files!FilesNext]_(Files!files)
<1>0. TypeOK /\ HandlersOK /\ NewsOK BY DEF IInv
<1>1. ASSUME NEW s \in Sessions, StoreQuestion(t, s)
      PROVE  Files!Append(s, Question(t))
  <2>1. /\ \A u \in Turns : turn'[u] = IF u = t THEN [at |-> "stored", in |-> s, memory |-> None] ELSE turn[u]
        /\ turn[t].at = "idle" /\ turn[t].in = None
      BY <1>0, <1>1 DEF StoreQuestion, TypeOK, HandlersOK
  <2>2. AboutToIndex' = AboutToIndex \cup {<<s, Question(t)>>}
      BY <2>1 DEF AboutToIndex
  <2>3. \A r \in Sessions : <<r, Question(t)>> \notin AboutToIndex
      BY <2>1, MessagesDiffer DEF AboutToIndex, Exchanges
  <2>4. Files!New(Question(t)) BY <1>0, <2>1, <2>3 DEF Files!New, NewsOK, Nowhere
  <2> QED BY <1>1, <2>2, <2>4 DEF StoreQuestion, Files!Append
<1>2. ASSUME IndexQuestion(t)
      PROVE  turn[t].in \in Sessions /\ Files!Insert(turn[t].in, Question(t))
  <2>1. /\ \A u \in Turns : turn'[u] = IF u = t THEN [turn[t] EXCEPT !.at = "asked"] ELSE turn[u]
        /\ turn[t].at = "stored" /\ turn[t].in \in Sessions /\ serving
      BY <1>0, <1>2 DEF IndexQuestion, Goes, TypeOK, HandlersOK
  <2>2. \A u \in Turns \ {t} : Question(u) # Question(t) /\ Answer(u) # Question(t)
      BY MessagesDiffer DEF Exchanges
  <2>3. turn'[t].at = "asked" BY <1>0, <2>1 DEF TypeOK
  <2>4. AboutToIndex' = AboutToIndex \ {<<turn[t].in, Question(t)>>}
      BY <2>1, <2>2, <2>3 DEF AboutToIndex
  <2>5. <<turn[t].in, Question(t)>> \in AboutToIndex BY <2>1 DEF AboutToIndex
  <2> QED BY <1>2, <2>1, <2>4, <2>5 DEF IndexQuestion, Insert, Files!Insert
<1>3. ASSUME StoreAnswer(t)
      PROVE  turn[t].in \in Sessions /\ Files!Append(turn[t].in, Answer(t))
  <2>1. /\ \A u \in Turns : turn'[u] = IF u = t THEN [turn[t] EXCEPT !.at = "answered"] ELSE turn[u]
        /\ turn[t].at = "recorded" /\ turn[t].in \in Sessions /\ serving
      BY <1>0, <1>3 DEF StoreAnswer, Goes, TypeOK, HandlersOK
  <2>2. turn'[t].at = "answered" /\ turn'[t].in = turn[t].in BY <1>0, <2>1 DEF TypeOK
  <2>3. AboutToIndex' = AboutToIndex \cup {<<turn[t].in, Answer(t)>>}
      BY <2>1, <2>2 DEF AboutToIndex
  <2>4. \A r \in Sessions : <<r, Answer(t)>> \notin AboutToIndex
      BY <2>1, MessagesDiffer DEF AboutToIndex, Exchanges
  <2>5. Files!New(Answer(t)) BY <1>0, <2>1, <2>4 DEF Files!New, NewsOK, Nowhere
  <2> QED BY <1>3, <2>1, <2>3, <2>5 DEF StoreAnswer, Files!Append
<1>4. ASSUME IndexAnswer(t)
      PROVE  turn[t].in \in Sessions /\ Files!Insert(turn[t].in, Answer(t))
  <2>1. /\ \A u \in Turns : turn'[u] = IF u = t THEN [turn[t] EXCEPT !.at = "indexed"] ELSE turn[u]
        /\ turn[t].at = "answered" /\ turn[t].in \in Sessions /\ serving
      BY <1>0, <1>4 DEF IndexAnswer, Goes, TypeOK, HandlersOK
  <2>2. \A u \in Turns \ {t} : Question(u) # Answer(t) /\ Answer(u) # Answer(t)
      BY MessagesDiffer DEF Exchanges
  <2>3. turn'[t].at = "indexed" BY <1>0, <2>1 DEF TypeOK
  <2>4. AboutToIndex' = AboutToIndex \ {<<turn[t].in, Answer(t)>>}
      BY <2>1, <2>2, <2>3 DEF AboutToIndex
  <2>5. <<turn[t].in, Answer(t)>> \in AboutToIndex BY <2>1 DEF AboutToIndex
  <2> QED BY <1>4, <2>1, <2>4, <2>5 DEF IndexAnswer, Insert, Files!Insert
<1>5. CASE Record(t) \/ ReadMemory(t) \/ Upsert(t) \/ TurnFails(t)
  <2>1. serving' = serving /\ jsonl' = jsonl /\ rows' = rows
      BY <1>5 DEF Record, ReadMemory, Upsert, TurnFails, store
  <2>2. \A u \in Turns : /\ turn'[u].in = turn[u].in
                         /\ turn'[u].at = "stored" <=> turn[u].at = "stored"
                         /\ turn'[u].at = "answered" <=> turn[u].at = "answered"
      BY <1>0, <1>5 DEF Record, Goes, ReadMemory, Upsert, TurnFails, TypeOK
  <2>3. AboutToIndex' = AboutToIndex BY <2>2, AboutToIndexStays
  <2> QED BY <2>1, <2>3 DEF Files!files
<1>6. Question(t) \in Messages /\ Answer(t) \in Messages BY MessagesDiffer
<1> QED BY <1>1, <1>2, <1>3, <1>4, <1>5, <1>6 DEF Turn, Files!FilesNext, Files!Request

LEMMA NextImplements ==
    ASSUME IInv, [Next]_vars
    PROVE  [Files!FilesNext]_(Files!files)
<1>0. TypeOK /\ HandlersOK /\ NewsOK BY DEF IInv
<1>1. CASE \E t \in Turns : Turn(t) BY <1>1, TurnImplements
<1>2. ASSUME NEW s \in Sessions, Delete(s) PROVE [Files!FilesNext]_(Files!files)
  <2>1. turn' = turn /\ rows' = rows /\ serving' = serving
      BY <1>2 DEF Delete, DeleteRead, Unlist, Unlink, DeleteRuns, DeleteFails, store
  <2>2. AboutToIndex' = AboutToIndex BY <2>1 DEF AboutToIndex
  <2>3. CASE Unlink(s)
    <3>1. serving BY <1>0, <2>3 DEF Unlink, HandlersOK
    <3>2. Files!RemoveFile(s) BY <2>1, <2>2, <2>3, <3>1 DEF Unlink, Files!RemoveFile
    <3> QED BY <3>2 DEF Files!FilesNext, Files!Request
  <2>4. CASE ~Unlink(s)
    <3>1. jsonl' = jsonl BY <1>2, <2>4 DEF Delete, DeleteRead, Unlist, DeleteRuns, DeleteFails, store
    <3> QED BY <2>1, <2>2, <3>1 DEF Files!files
  <2> QED BY <2>3, <2>4
<1>3. CASE RecapRead \/ RecapWrite \/ ReanchorRead \/ ReanchorWrite \/ UNCHANGED vars
  <2>1. turn' = turn /\ rows' = rows /\ jsonl' = jsonl /\ serving' = serving
      BY <1>3 DEF RecapRead, RecapWrite, ReanchorRead, ReanchorWrite, vars, store, handlers
  <2>2. AboutToIndex' = AboutToIndex BY <2>1 DEF AboutToIndex
  <2> QED BY <2>1, <2>2 DEF Files!files
<1>4. CASE Down
  <2>1. \A u \in Turns : turn'[u] = IF turn[u].at = "idle" THEN turn[u]
                                    ELSE [turn[u] EXCEPT !.at = "over", !.memory = None]
      BY <1>4 DEF Down
  <2>2. ASSUME NEW u \in Turns PROVE turn'[u].at \in {"idle", "over"}
    <3>1. turn[u] \in TurnRec BY <1>0 DEF TypeOK, TurnRec
    <3> QED BY <2>1, <3>1 DEF TurnRec
  <2>3. AboutToIndex' = {} BY <2>2 DEF AboutToIndex
  <2>4. Files!Stop BY <1>4, <2>3 DEF Down, store, Files!Stop
  <2> QED BY <2>4 DEF Files!FilesNext
<1>5. CASE Start
  <2>1. AboutToIndex' = AboutToIndex BY <1>5 DEF Start, handlers, AboutToIndex
  <2>2. /\ ~serving /\ serving' = TRUE /\ jsonl' = jsonl
        /\ rows' \in [Sessions -> SUBSET Messages]
        /\ \A s \in Sessions : rows'[s] = rows[s] \cup jsonl[s]
      BY <1>0, <1>5 DEF Start, TypeOK
  <2>3. Files!Mend BY <2>1, <2>2 DEF Files!Mend
  <2> QED BY <2>3 DEF Files!FilesNext
<1> QED BY <1>1, <1>2, <1>3, <1>4, <1>5 DEF Next

\* The handlers of the chat keep the discipline that the recovery of its index
\* rests on, for any number of conversations and requests: what they do to the
\* files and the index is a behaviour of ChatFiles.  (chat.ts:875, :1230, :1463)
THEOREM StoreRefinesFiles == Spec => FilesDiscipline
<1>1. Init => Files!FilesInit BY InitImplements
<1>2. IInv /\ [Next]_vars => [Files!FilesNext]_(Files!files) BY NextImplements
<1> QED BY <1>1, <1>2, StoresInvariant, PTL DEF Spec, FilesDiscipline, Files!FilesSpec
=============================================================================

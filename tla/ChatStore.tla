----------------------------- MODULE ChatStore ------------------------------
(***************************************************************************)
(* The stores of the dashboard chat while the daemon serves                *)
(* (daemon/routes/chat.ts, chat/jsonl-store.ts, chat/fts5-index.ts,        *)
(* chat/run-store.ts, chat/sessions.ts): one JSONL file per conversation,  *)
(* a full-text index of the messages, one file of call records per         *)
(* conversation, and the list of conversations inside memory.json.         *)
(*                                                                         *)
(* One daemon writes them all, but its handlers are asynchronous: turns,   *)
(* deletions and the other writers of memory.json interleave at each       *)
(* await, and memory.json is read, changed and replaced as a whole.        *)
(***************************************************************************)
CONSTANTS
    Sessions,   \* conversations
    Turns,      \* chat requests; each is sent at most once
    None        \* no conversation, no entry, no snapshot

ASSUME ChatAssumption ==
    /\ None \notin Sessions \cup {"fresh", "recapped"} \cup [Sessions -> {"fresh", "recapped", None}]
    /\ Sessions \cap Turns = {}

VARIABLES
    serving,    \* the daemon answers requests
    jsonl,      \* chats/<id>.jsonl: the messages stored; no file if empty
    rows,       \* fts_messages: the messages indexed, per conversation
    runs,       \* chat-runs/<id>.jsonl: the turns with a call record
    mem,        \* memory.json, chat_sessions: the list of conversations
    turn,       \* each turn: where it is, its conversation, what it read of mem
    del,        \* each conversation's DELETE request, likewise
    writer,     \* another handler that holds what it read of mem
    deleted,    \* history: conversations deleted to the last file, nothing sent
                \* since
    crossed,    \* history: conversations whose deletion met a turn of theirs,
                \* a writer that still lists them, or a full disk
    unrecorded  \* history: turns whose call record could not be written

store    == <<jsonl, rows, runs, mem>>
handlers == <<turn, del, writer>>
history  == <<deleted, crossed, unrecorded>>
vars == <<serving, store, handlers, history>>

\* A conversation that existed before has one turn, named like itself.
Exchanges == Turns \cup Sessions
Question(t) == <<t, "user">>
Answer(t)   == <<t, "assistant">>
Messages == Exchanges \X {"user", "assistant"}

\* An entry of the list: with its first summary, or with a recap.
Entry  == {"fresh", "recapped"}
Memory == [Sessions -> Entry \cup {None}]

\* A turn between its awaits.
TurnStages == {"idle", "stored", "asked", "recorded", "answered", "indexed", "read", "over"}
DelStages  == {"idle", "read", "unlisted", "unlinked"}

NoTurn   == [at |-> "idle", in |-> None, memory |-> None]
NoDelete == [at |-> "idle", memory |-> None]
NoWriter == [at |-> "idle", ids |-> {}, memory |-> None]

TypeOK ==
    /\ serving \in BOOLEAN
    /\ jsonl \in [Sessions -> SUBSET Messages]
    /\ rows \in [Sessions -> SUBSET Messages]
    /\ runs \in [Sessions -> SUBSET Exchanges]
    /\ mem \in Memory
    /\ turn \in [Turns -> [at : TurnStages, in : Sessions \cup {None}, memory : Memory \cup {None}]]
    /\ del \in [Sessions -> [at : DelStages, memory : Memory \cup {None}]]
    /\ writer \in [at : {"idle", "recap", "reanchor"}, ids : SUBSET Sessions, memory : Memory \cup {None}]
    /\ deleted \in SUBSET Sessions /\ crossed \in SUBSET Sessions
    /\ unrecorded \in SUBSET Turns

\* The conversations of `existing' were held before, in good order.
Init ==
    /\ serving = FALSE
    /\ \E existing \in SUBSET Sessions :
           LET of(full, none) == [s \in Sessions |-> IF s \in existing THEN full[s] ELSE none]
               both == [s \in Sessions |-> {Question(s), Answer(s)}]
           IN  /\ jsonl = of(both, {})
               /\ rows = of(both, {})
               /\ runs = of([s \in Sessions |-> {s}], {})
               /\ mem = of([s \in Sessions |-> "fresh"], None)
    /\ turn = [t \in Turns |-> NoTurn]
    /\ del = [s \in Sessions |-> NoDelete]
    /\ writer = NoWriter
    /\ deleted = {} /\ crossed = {} /\ unrecorded = {}

-----------------------------------------------------------------------------
(* The history of crossings: a deletion is under way, and so is a turn of  *)
(* that conversation or a handler whose copy of memory.json lists it; or   *)
(* its own write of memory.json came to nothing.                           *)

Lists(memory, s) == memory # None /\ memory[s] # None

Crossing ==
    {s \in Sessions :
        /\ del[s].at # "idle"
        /\ \/ \E t \in Turns :
                  \/ turn[t].in = s /\ turn[t].at # "over"
                  \/ Lists(turn[t].memory, s)
           \/ \E r \in Sessions \ {s} : Lists(del[r].memory, s)
           \/ Lists(writer.memory, s)
           \/ del[s].at = "unlisted" /\ mem[s] # None}

Observe == crossed' = crossed \cup Crossing'

-----------------------------------------------------------------------------
(* A turn: POST /api/chat.                                                 *)

\* appendMessage; a request may name a conversation that was deleted.
StoreQuestion(t, s) ==
    /\ serving /\ turn[t].at = "idle"
    /\ turn' = [turn EXCEPT ![t] = [at |-> "stored", in |-> s, memory |-> None]]
    /\ jsonl' = [jsonl EXCEPT ![s] = @ \cup {Question(t)}]
    /\ deleted' = deleted \ {s}
    /\ UNCHANGED <<serving, rows, runs, mem, del, writer, unrecorded>>

Goes(t, from, to) ==
    /\ turn[t].at = from
    /\ turn' = [turn EXCEPT ![t].at = to]

\* insertMessage: an id that is indexed already is left alone.
Insert(s, m) == rows' = [rows EXCEPT ![s] = @ \cup {m}]

IndexQuestion(t) ==
    /\ Goes(t, "stored", "asked")
    /\ Insert(turn[t].in, Question(t))
    /\ UNCHANGED <<serving, jsonl, runs, mem, del, writer, deleted, unrecorded>>

\* Mutant: the write of the record is not awaited.
RecordUnawaited(t) ==
    /\ Goes(t, "asked", "recorded")
    /\ runs' \in {runs, [runs EXCEPT ![turn[t].in] = @ \cup {t}]}
    /\ UNCHANGED <<serving, jsonl, rows, mem, del, writer, deleted, unrecorded>>

\* The agent has answered, failed or been cancelled: the call record goes
\* first, and one that cannot be written does not fail the turn.
Record(t) ==
    /\ Goes(t, "asked", "recorded")
    /\ \/ /\ runs' = [runs EXCEPT ![turn[t].in] = @ \cup {t}]
          /\ UNCHANGED unrecorded
       \/ unrecorded' = unrecorded \cup {t} /\ UNCHANGED runs
    /\ UNCHANGED <<serving, jsonl, rows, mem, del, writer, deleted>>

\* Mutant: the answer is stored and never indexed.
StoreAnswerOnly(t) ==
    /\ Goes(t, "recorded", "indexed")
    /\ jsonl' = [jsonl EXCEPT ![turn[t].in] = @ \cup {Answer(t)}]
    /\ UNCHANGED <<serving, rows, runs, mem, del, writer, deleted, unrecorded>>

StoreAnswer(t) ==
    /\ Goes(t, "recorded", "answered")
    /\ jsonl' = [jsonl EXCEPT ![turn[t].in] = @ \cup {Answer(t)}]
    /\ UNCHANGED <<serving, rows, runs, mem, del, writer, deleted, unrecorded>>

IndexAnswer(t) ==
    /\ Goes(t, "answered", "indexed")
    /\ Insert(turn[t].in, Answer(t))
    /\ UNCHANGED <<serving, jsonl, runs, mem, del, writer, deleted, unrecorded>>

\* upsertChatSession reads memory.json, then replaces it.
ReadMemory(t) ==
    /\ turn[t].at = "indexed"
    /\ turn' = [turn EXCEPT ![t].at = "read", ![t].memory = mem]
    /\ UNCHANGED <<serving, store, del, writer, deleted, unrecorded>>

\* writeMemory swallows its errors: memory.json may stay as it is.
Replace(memory) == mem' \in {memory, mem}

\* Mutant: a new entry takes over the field of a finished one.
UpsertedDone(memory, s) == [memory EXCEPT ![s] = IF @ = None THEN "done" ELSE @]

Upserted(memory, s) ==
    [memory EXCEPT ![s] = IF @ = None THEN "fresh" ELSE @]

Upsert(t) ==
    /\ turn[t].at = "read"
    /\ Replace(Upserted(turn[t].memory, turn[t].in))
    /\ turn' = [turn EXCEPT ![t].at = "over", ![t].memory = None]
    /\ UNCHANGED <<serving, jsonl, rows, runs, del, writer, deleted, unrecorded>>

\* A store throws: the request ends where it is.  One whose insert throws is a
\* turn that goes no further.
TurnFails(t) ==
    /\ turn[t].at \in {"recorded", "indexed", "read"}
    /\ turn' = [turn EXCEPT ![t].at = "over", ![t].memory = None]
    /\ UNCHANGED <<serving, store, del, writer, deleted, unrecorded>>

Turn(t) ==
    \/ \E s \in Sessions : StoreQuestion(t, s)
    \/ IndexQuestion(t) \/ Record(t) \/ StoreAnswer(t) \/ IndexAnswer(t)
    \/ ReadMemory(t) \/ Upsert(t) \/ TurnFails(t)

-----------------------------------------------------------------------------
(* DELETE /api/chat/sessions/:id, one store after the other.  The rows of  *)
(* the index stay: the recovery at the next start is to remove them.       *)

DeleteRead(s) ==
    /\ serving /\ del[s].at = "idle" /\ s \notin deleted
    /\ mem[s] # None \/ jsonl[s] # {} \/ runs[s] # {}
    /\ del' = [del EXCEPT ![s] = [at |-> "read", memory |-> mem]]
    /\ UNCHANGED <<serving, store, turn, writer, deleted, unrecorded>>

\* deleteChatSession: memory.json is written only if it lists s.
Unlist(s) ==
    /\ del[s].at = "read"
    /\ IF del[s].memory[s] = None THEN UNCHANGED mem
                                  ELSE Replace([del[s].memory EXCEPT ![s] = None])
    /\ del' = [del EXCEPT ![s] = [at |-> "unlisted", memory |-> None]]
    /\ UNCHANGED <<serving, jsonl, rows, runs, turn, writer, deleted, unrecorded>>

\* Mutant: the file goes before the entry.
UnlinkFirst(s) ==
    /\ del[s].at \in {"read", "unlisted"}
    /\ jsonl' = [jsonl EXCEPT ![s] = {}]
    /\ del' = [del EXCEPT ![s].at = IF @ = "read" THEN "read" ELSE "unlinked"]
    /\ UNCHANGED <<serving, rows, runs, mem, turn, writer, deleted, unrecorded>>

\* deleteSessionFile
Unlink(s) ==
    /\ del[s].at = "unlisted"
    /\ jsonl' = [jsonl EXCEPT ![s] = {}]
    /\ del' = [del EXCEPT ![s].at = "unlinked"]
    /\ UNCHANGED <<serving, rows, runs, mem, turn, writer, deleted, unrecorded>>

\* Mutant: the call records are forgotten.
DeleteNoRuns(s) ==
    /\ del[s].at = "unlinked"
    /\ del' = [del EXCEPT ![s] = NoDelete]
    /\ deleted' = deleted \cup {s}
    /\ UNCHANGED <<serving, store, turn, writer, unrecorded>>

\* deleteRuns, and the reply, which is ok also when the records cannot be removed.
DeleteRuns(s) ==
    /\ del[s].at = "unlinked"
    /\ \/ runs' = [runs EXCEPT ![s] = {}] /\ deleted' = deleted \cup {s}
       \/ UNCHANGED <<runs, deleted>>
    /\ del' = [del EXCEPT ![s] = NoDelete]
    /\ UNCHANGED <<serving, jsonl, rows, mem, turn, writer, unrecorded>>

\* The file, or the sidecar after it, cannot be removed: the request fails.
DeleteFails(s) ==
    /\ del[s].at \in {"unlisted", "unlinked"}
    /\ del' = [del EXCEPT ![s] = NoDelete]
    /\ UNCHANGED <<serving, store, turn, writer, deleted, unrecorded>>

Delete(s) ==
    DeleteRead(s) \/ Unlist(s) \/ Unlink(s) \/ DeleteRuns(s) \/ DeleteFails(s)

-----------------------------------------------------------------------------
(* The other handlers that rewrite the list.  The recap reads it, has each *)
(* conversation summarised by a paid call, and then writes.                *)

RecapRead ==
    /\ serving /\ writer = NoWriter
    /\ \E ids \in (SUBSET {s \in Sessions : mem[s] = "fresh"}) \ {{}} :
           writer' = [at |-> "recap", ids |-> ids, memory |-> mem]
    /\ UNCHANGED <<serving, store, turn, del, deleted, unrecorded>>

\* A summary may come back empty; without any there is no write.
RecapWrite ==
    /\ writer.at = "recap"
    /\ \E done \in SUBSET writer.ids :
           IF done = {} THEN UNCHANGED mem
           ELSE Replace([s \in Sessions |-> IF s \in done
                                            THEN "recapped" ELSE writer.memory[s]])
    /\ writer' = NoWriter
    /\ UNCHANGED <<serving, jsonl, rows, runs, turn, del, deleted, unrecorded>>

\* reanchorChatSession: the anchor is not modelled, the write back is.
ReanchorRead ==
    /\ serving /\ writer = NoWriter
    /\ \E s \in Sessions : mem[s] # None
    /\ writer' = [at |-> "reanchor", ids |-> {}, memory |-> mem]
    /\ UNCHANGED <<serving, store, turn, del, deleted, unrecorded>>

ReanchorWrite ==
    /\ writer.at = "reanchor"
    /\ Replace(writer.memory)
    /\ writer' = NoWriter
    /\ UNCHANGED <<serving, jsonl, rows, runs, turn, del, deleted, unrecorded>>

-----------------------------------------------------------------------------
\* The daemon stops or dies: what its handlers held is gone.
Down ==
    /\ serving /\ serving' = FALSE
    /\ turn' = [t \in Turns |-> IF turn[t].at = "idle" THEN turn[t]
                                ELSE [turn[t] EXCEPT !.at = "over", !.memory = None]]
    /\ del' = [s \in Sessions |-> NoDelete]
    /\ writer' = NoWriter
    /\ UNCHANGED <<store, deleted, unrecorded>>

\* The next start; its recovery finds all files (ChatRecovery: or not).
Start ==
    /\ ~serving /\ serving' = TRUE
    /\ rows' = [s \in Sessions |-> rows[s] \cup jsonl[s]]
    /\ UNCHANGED <<jsonl, runs, mem, handlers, deleted, unrecorded>>

Next ==
    /\ \/ \E t \in Turns : Turn(t)
       \/ \E s \in Sessions : Delete(s)
       \/ RecapRead \/ RecapWrite \/ ReanchorRead \/ ReanchorWrite
       \/ Down \/ Start
    /\ Observe

Spec == Init /\ [][Next]_vars

-----------------------------------------------------------------------------
(* The handlers keep the discipline that the recovery of the index rests   *)
(* on (ChatFiles): stored before indexed, each message by its own request. *)

AboutToIndex ==
    {<<turn[t].in, Question(t)>> : t \in {u \in Turns : turn[u].at = "stored"}}
        \cup {<<turn[t].in, Answer(t)>> : t \in {u \in Turns : turn[u].at = "answered"}}

Files == INSTANCE ChatFiles WITH pending <- AboutToIndex

\* Every step of the handlers is, on the files and the index, a step of
\* ChatFiles or none (chat.ts:875, :1230, :1463).
FilesDiscipline == Files!FilesSpec

-----------------------------------------------------------------------------
\* "The call record goes first": an answer in a conversation has its call
\* record, unless the record could not be written or the conversation was
\* deleted while the turn was under way (chat.ts:1220).
AnswerHasRecord ==
    \A s \in Sessions \ crossed, t \in Turns :
        Answer(t) \in jsonl[s] => t \in runs[s] \cup unrecorded

\* A deletion that came to its end leaves nothing behind in any store, and no
\* later write of memory.json brings the conversation back, unless the deletion
\* crossed a turn of the conversation or a writer that had read the list
\* before (chat.ts:1462, sessions.ts:82).
DeletionIsComplete ==
    \A s \in deleted \ crossed : jsonl[s] = {} /\ runs[s] = {} /\ mem[s] = None

\* The list names only conversations that have a message, although it is
\* written last in a turn and by writers with old copies: unless a deletion
\* was crossed (sessions.ts:111, chat.ts:1462).
ListedIsStored ==
    \A s \in Sessions \ crossed : mem[s] # None => jsonl[s] # {}
=============================================================================

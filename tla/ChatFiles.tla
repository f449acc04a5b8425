----------------------------- MODULE ChatFiles ------------------------------
(***************************************************************************)
(* What the conversations on disk and the full-text index promise each     *)
(* other: a message is stored before it is indexed, a deletion removes the *)
(* file and leaves the rows, and rows are put right while the daemon is    *)
(* not serving.  The recovery (ChatRecovery) works under this              *)
(* specification and the handlers of the chat (ChatStore) implement it.    *)
(***************************************************************************)
CONSTANTS
    Sessions,   \* conversations
    Messages    \* messages; one that is nowhere any more stands for a new one

VARIABLES
    serving,    \* the daemon answers requests
    jsonl,      \* chats/<id>.jsonl: the messages stored; no file if empty
    rows,       \* fts_messages: the messages indexed, per conversation
    pending     \* stored by a request that is about to index them, or was when
                \* the insert threw

files == <<serving, jsonl, rows, pending>>

FilesTypeOK ==
    /\ serving \in BOOLEAN
    /\ jsonl \in [Sessions -> SUBSET Messages]
    /\ rows \in [Sessions -> SUBSET Messages]
    /\ pending \in SUBSET (Sessions \X Messages)

FilesInit ==
    /\ serving = FALSE
    /\ jsonl \in [Sessions -> SUBSET Messages]
    /\ \A s, r \in Sessions : s # r => jsonl[s] \cap jsonl[r] = {}
    /\ rows = jsonl
    /\ pending = {}

New(m) == \A s \in Sessions : m \notin jsonl[s] \cup rows[s] /\ <<s, m>> \notin pending

\* appendMessage
Append(s, m) ==
    /\ serving /\ New(m)
    /\ jsonl' = [jsonl EXCEPT ![s] = @ \cup {m}]
    /\ pending' = pending \cup {<<s, m>>}
    /\ UNCHANGED <<serving, rows>>

\* insertMessage, by the request that stored the message
Insert(s, m) ==
    /\ serving /\ <<s, m>> \in pending
    /\ rows' = [rows EXCEPT ![s] = @ \cup {m}]
    /\ pending' = pending \ {<<s, m>>}
    /\ UNCHANGED <<serving, jsonl>>

\* deleteSessionFile
RemoveFile(s) ==
    /\ serving
    /\ jsonl' = [jsonl EXCEPT ![s] = {}]
    /\ UNCHANGED <<serving, rows, pending>>

\* The daemon ends, and what was about to be indexed is not.
Stop ==
    /\ serving /\ serving' = FALSE
    /\ pending' = {}
    /\ UNCHANGED <<jsonl, rows>>

\* The recovery indexes stored messages and takes whole conversations out.
Mend ==
    /\ ~serving /\ serving' \in BOOLEAN
    /\ rows' \in [Sessions -> SUBSET Messages]
    /\ \A s \in Sessions :
           /\ rows'[s] \subseteq rows[s] \cup jsonl[s]
           /\ rows[s] \subseteq rows'[s] \/ rows'[s] \subseteq jsonl[s]
    /\ UNCHANGED <<jsonl, pending>>

Request ==
    \/ \E s \in Sessions, m \in Messages : Append(s, m) \/ Insert(s, m)
    \/ \E s \in Sessions : RemoveFile(s)

FilesNext == Request \/ Stop \/ Mend

FilesSpec == FilesInit /\ [][FilesNext]_files
=============================================================================

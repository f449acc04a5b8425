----------------------------- MODULE StopMarker -----------------------------
(***************************************************************************)
(* One review per Stop event (daemon/marker.ts, hooks/on-stop.ts,          *)
(* daemon/routes/hooks.ts).  The end of one turn is delivered several      *)
(* times: to an old hook and the plugin's hook, to the daemon and the      *)
(* command behind it, twice by a host that fires twice.  The deliveries    *)
(* agree on a marker file named by what the transcript held when each of   *)
(* them read it; its creator reviews.                                      *)
(*                                                                         *)
(* One session is modelled: the markers of two have different names.  What *)
(* a review does is the module StopHook.                                   *)
(***************************************************************************)
EXTENDS Naturals

CONSTANTS
    Deliveries,  \* hook processes and requests to the daemon
    Requests,    \* the requests: the daemon handles them, and they die with it
    MaxTurns,    \* bound: turns of the session
    Unreadable   \* no key: the transcript is missing or cannot be read

ASSUME MarkerAssumption ==
    /\ Requests \subseteq Deliveries
    /\ MaxTurns \in Nat
    /\ Unreadable \notin Nat

VARIABLES
    turns,       \* turns in the transcript: its content
    marker,      \* the marker file of each content
    stale,       \* contents whose claim is older than STALE_CLAIM_MS
    at,          \* where each delivery is
    turn,        \* the turn whose end it delivers
    key,         \* the content it hashed
    role         \* what it claimed: "none", "owned", or "unowned" after an error

markerVars == <<turns, marker, stale, at, turn, key, role>>

Turns == 1..MaxTurns

MarkerTypeOK ==
    /\ turns \in 0..MaxTurns
    /\ marker \in [Turns -> {"none", "empty", "claimed", "done"}]
    /\ stale \in SUBSET Turns
    /\ at \in [Deliveries -> {"new", "key", "look", "probe", "wait", "claim", "write",
                              "review", "complete", "reviewed", "skipped", "dead"}]
    /\ turn \in [Deliveries -> 0..MaxTurns]
    /\ key \in [Deliveries -> Turns \cup {Unreadable}]
    /\ role \in [Deliveries -> {"none", "owned", "unowned"}]

MarkerInit ==
    /\ turns = 0
    /\ marker = [v \in Turns |-> "none"]
    /\ stale = {}
    /\ at = [d \in Deliveries |-> "new"]
    /\ turn = [d \in Deliveries |-> 0]
    /\ key = [d \in Deliveries |-> Unreadable]
    /\ role = [d \in Deliveries |-> "none"]

-----------------------------------------------------------------------------
(* A delivery.                                                             *)

Go(d, from, to) == at[d] = from /\ at' = [at EXCEPT ![d] = to]
Begin(d, how)   == role' = [role EXCEPT ![d] = how]

\* The host fires its hooks, and posts to the daemon.
Deliver(d) ==
    /\ turns > 0
    /\ Go(d, "new", "key")
    /\ turn' = [turn EXCEPT ![d] = turns]
    /\ UNCHANGED <<turns, marker, stale, key, role>>

\* Mutant: the key is the session alone.
SessionKey(d) ==
    /\ Go(d, "key", IF d \in Requests THEN "claim" ELSE "look")
    /\ key' = [key EXCEPT ![d] = 1]
    /\ UNCHANGED <<turns, marker, stale, turn, role>>

\* Mutant: a transcript that cannot be read hashes to nothing, as any other.
KeyOfNothing(d) ==
    /\ Go(d, "key", IF d \in Requests THEN "claim" ELSE "look")
    /\ key' \in {[key EXCEPT ![d] = turns], [key EXCEPT ![d] = 0]}
    /\ UNCHANGED <<turns, marker, stale, turn, role>>

\* deriveStopMarkerKey: the hash of what the transcript holds by now.  Without
\* one the review runs, and nothing can be suppressed.
DeriveKey(d) ==
    /\ \/ /\ Go(d, "key", IF d \in Requests THEN "claim" ELSE "look")
          /\ key' = [key EXCEPT ![d] = turns]
          /\ UNCHANGED role
       \/ /\ Go(d, "key", "review")
          /\ Begin(d, "unowned")
          /\ UNCHANGED key
    /\ UNCHANGED <<turns, marker, stale, turn>>

Completed(v) == marker[v] = "done"
Claimed(v)   == marker[v] = "claimed" /\ v \notin stale

\* readMarker.  A marker without its body reads as no marker, and so does one
\* that cannot be read.
Look(d) ==
    /\ \/ Go(d, "look", "skipped") /\ Completed(key[d])
       \/ Go(d, "look", "probe") /\ Claimed(key[d])
       \/ Go(d, "look", "claim")
    /\ UNCHANGED <<turns, marker, stale, turn, key, role>>

\* Only with a live daemon is there somebody worth waiting for.
Probe(d) ==
    /\ Go(d, "probe", "wait") \/ Go(d, "probe", "claim")
    /\ UNCHANGED <<turns, marker, stale, turn, key, role>>

\* Half a second later.
Wait(d) ==
    /\ \/ Go(d, "wait", "skipped") /\ (Completed(key[d]) \/ Claimed(key[d]))
       \/ Go(d, "wait", "claim")
    /\ UNCHANGED <<turns, marker, stale, turn, key, role>>

\* Mutant: the marker is opened without O_EXCL.
ClaimOverwrites(d) ==
    /\ Go(d, "claim", "write")
    /\ marker' = [marker EXCEPT ![key[d]] = "empty"]
    /\ Begin(d, "owned")
    /\ UNCHANGED <<turns, stale, turn, key>>

\* claimMarker: O_CREAT | O_EXCL.  Whoever finds the file skips, however old
\* the claim in it is.
Claim(d) ==
    /\ \/ /\ Go(d, "claim", "write")
          /\ marker[key[d]] = "none"
          /\ marker' = [marker EXCEPT ![key[d]] = "empty"]
          /\ Begin(d, "owned")
       \/ /\ Go(d, "claim", "skipped")
          /\ marker[key[d]] # "none"
          /\ UNCHANGED <<marker, role>>
    /\ UNCHANGED <<turns, stale, turn, key>>

\* The body of the marker.
WriteClaim(d) ==
    /\ Go(d, "write", "review")
    /\ marker' = [marker EXCEPT ![key[d]] = "claimed"]
    /\ UNCHANGED <<turns, stale, turn, key, role>>

\* Mutant: a broken marker directory suppresses.
ErrorSkips(d) ==
    /\ Go(d, "claim", "skipped") \/ Go(d, "write", "skipped")
    /\ UNCHANGED <<turns, marker, stale, turn, key, role>>

\* An unwritable directory, a full disk: whatever is thrown before the file is
\* complete, the review runs, and it owns no marker.
MarkerError(d) ==
    /\ Go(d, "claim", "review") \/ Go(d, "write", "review")
    /\ Begin(d, "unowned")
    /\ UNCHANGED <<turns, marker, stale, turn, key>>

\* handleStopHook, however it ends.
Review(d) ==
    /\ Go(d, "review", IF role[d] = "owned" THEN "complete" ELSE "reviewed")
    /\ UNCHANGED <<turns, marker, stale, turn, key, role>>

\* completeMarker.  When it throws the claim stays; a hook swallows that.
Complete(d) ==
    /\ Go(d, "complete", "reviewed")
    /\ marker' \in {marker, [marker EXCEPT ![key[d]] = "done"]}
    /\ UNCHANGED <<turns, stale, turn, key, role>>

Underway(d) == at[d] \notin {"new", "reviewed", "skipped", "dead"}

\* A hook process is killed, or dies.
Die(d) ==
    /\ d \notin Requests /\ Underway(d)
    /\ at' = [at EXCEPT ![d] = "dead"]
    /\ UNCHANGED <<turns, marker, stale, turn, key, role>>

\* The daemon dies with every review it runs.
DaemonDies ==
    /\ \E d \in Requests : Underway(d)
    /\ at' = [d \in Deliveries |-> IF d \in Requests /\ Underway(d) THEN "dead" ELSE at[d]]
    /\ UNCHANGED <<turns, marker, stale, turn, key, role>>

-----------------------------------------------------------------------------
\* The agent ends another turn.
EndTurn ==
    /\ turns < MaxTurns
    /\ turns' = turns + 1
    /\ UNCHANGED <<marker, stale, at, turn, key, role>>

\* Two minutes pass over a claim.
Age(v) ==
    /\ marker[v] = "claimed" /\ v \notin stale
    /\ stale' = stale \cup {v}
    /\ UNCHANGED <<turns, marker, at, turn, key, role>>

Advance(d) ==
    \/ DeriveKey(d) \/ Look(d) \/ Probe(d) \/ Wait(d) \/ Claim(d) \/ WriteClaim(d)
    \/ MarkerError(d) \/ Review(d) \/ Complete(d)

MarkerNext ==
    \/ \E d \in Deliveries : Deliver(d) \/ Advance(d) \/ Die(d)
    \/ DaemonDies \/ EndTurn
    \/ \E v \in Turns : Age(v)

MarkerSpec == MarkerInit /\ [][MarkerNext]_markerVars

\* A delivery that runs goes on: the probe, the sleep and the review end.
FairMarkerSpec == MarkerSpec /\ \A d \in Deliveries : WF_markerVars(Advance(d))

-----------------------------------------------------------------------------
(* Properties.                                                             *)

\* A turn is reviewed, and paid for, once: of all deliveries that hashed the
\* same content at most one owns the review.  Another review needs a marker
\* directory that failed (double-hook-dedupe.test.ts).
OneOwner ==
    \A d, e \in Deliveries :
        (role[d] = "owned" /\ role[e] = "owned" /\ key[d] = key[e]) => d = e

\* Does delivery e look at everything up to turn t?
Covers(e, t) == role[e] # "none" /\ (turn[e] >= t \/ key[e] \in t..MaxTurns)

\* A suppressed delivery has a reviewer: whoever skips leaves its turn to a
\* delivery that took it on, never to a marker nobody stands behind.
SkippedIsCovered ==
    \A d \in Deliveries :
        at[d] = "skipped" => \E e \in Deliveries : Covers(e, turn[d])

\* "A best-effort dedupe that occasionally lets a duplicate through is
\* acceptable; one that drops a real review is not" (on-stop.ts:169): a
\* delivered turn is reviewed, unless a process died on it.
DeliveredIsReviewed ==
    \A d \in Deliveries :
        at[d] = "key" ~>
            \E e \in Deliveries : /\ at[e] = "reviewed" \/ at[e] = "dead"
                                  /\ e = d \/ Covers(e, turn[d])

-----------------------------------------------------------------------------
\* What a delivery knows: it hashes no less than the turn it delivers, it owns a
\* marker file that is there, and it claims nothing before it opens one.
DeliveryOK(d) ==
    /\ turn[d] <= turns
    /\ at[d] # "new" => turn[d] \in Turns
    /\ at[d] \in {"look", "probe", "wait", "claim", "write", "complete"} => key[d] \in Turns
    /\ at[d] \in {"new", "key"} => key[d] = Unreadable
    /\ key[d] \in Turns => turn[d] <= key[d]
    /\ at[d] \in {"write", "complete"} => role[d] = "owned"
    /\ role[d] = "owned" => key[d] \in Turns
    /\ role[d] = "owned" => marker[key[d]] # "none"
    /\ at[d] \in {"new", "key", "look", "probe", "wait", "claim"} => role[d] = "none"

\* Behind every marker file there is a delivery that took its content on.
MarkersBacked ==
    \A v \in Turns :
        marker[v] # "none" => \E e \in Deliveries : role[e] # "none" /\ key[e] = v

\* Inductive: a marker file never goes away, so its creation is the one moment
\* that makes an owner, and whoever finds it can rely on who stands behind it.
MarkerIInv ==
    /\ MarkerTypeOK
    /\ \A d \in Deliveries : DeliveryOK(d)
    /\ OneOwner
    /\ MarkersBacked
    /\ SkippedIsCovered
=============================================================================

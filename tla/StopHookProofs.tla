-------------------------- MODULE StopHookProofs --------------------------
(***************************************************************************)
(* The safety of the Stop event: of the hook (StopHook) for every          *)
(* repository, any number of hooks and sessions, and any number of wakes;  *)
(* of the choice of who reviews (StopMarker) for any number of deliveries  *)
(* and turns.  The two are specifications of their own: what they share is *)
(* the event.                                                              *)
(***************************************************************************)
EXTENDS StopHook, StopMarker, TLAPS

-----------------------------------------------------------------------------
(* The decision.                                                           *)

\* Whatever git answers, decideReviewUnit returns a decision over the values
\* it was given.
LEMMA DecideType ==
    ASSUME NEW c \in Commits, NEW t \in Trees, NEW a \in Anchor \cup {None},
           NEW f \in Facts(c, t, a)
    PROVE  Decide(f) \in Decision
<1>1. /\ f.head = c /\ f.tree = t /\ f.stored = a
      /\ f.mergeBase \in Commits \cup {None}
  BY GitAssumption DEF Facts
<1> QED
  BY <1>1 DEF Decide, Decision, Fire, Skip, RevisionRange, Anchor

\* A fired decision consumes what it was given and its range ends there; a
\* skip moves the anchor only to content equal to the content it held.
LEMMA DecideMeaning ==
    ASSUME NEW c \in Commits, NEW t \in Trees, NEW a \in Anchor \cup {None},
           NEW f \in Facts(c, t, a), NEW d, d = Decide(f)
    PROVE  /\ d.fire => d.to = [head |-> c, tree |-> t]
           /\ d.range # None => d.fire /\ d.range.to = c
           /\ ~d.fire => d.range = None
           /\ (~d.fire /\ d.to # None) =>
                /\ d.to = [head |-> c, tree |-> t]
                /\ a # None
                /\ t = a.tree
<1>1. f.head = c /\ f.tree = t /\ f.stored = a
  BY DEF Facts
<1> QED
  BY <1>1, NoneAssumption DEF Decide, Fire, Skip

\* A decision skips only HEADs whose commit or content the anchor holds.
LEMMA SkipMeaning ==
    ASSUME NEW c \in Commits, NEW t \in Trees, NEW a \in Anchor \cup {None},
           NEW f \in Facts(c, t, a), ~Decide(f).fire
    PROVE  a # None /\ (c = a.head \/ t = a.tree)
<1>1. f.head = c /\ f.tree = t /\ f.stored = a
  BY DEF Facts
<1> QED
  BY <1>1 DEF Decide, Fire, Skip

-----------------------------------------------------------------------------
(* The history of contents.                                                *)

\* Marking contents keeps what was known and makes the marked ones known.
LEMMA MarkGrows ==
    ASSUME TypeOK, NEW T \in SUBSET Trees, NEW how \in {"read", "torn", "blind"},
           seen' = Mark(T, how)
    PROVE  /\ seen' \in [Trees -> Seen]
           /\ Known \subseteq Known'
           /\ T \subseteq Known'
  BY DEF TypeOK, Mark, Seen, Known

\* What was fit to write stays fit while the known contents grow.
LEMMA HookOKGrows ==
    ASSUME NEW K, NEW L, K \subseteq L, NEW st, NEW l, HookOK(st, l, K)
    PROVE  HookOK(st, l, L)
  BY DEF HookOK, PairOK, Dealt, EntryOK

LEMMA FilesOKGrows ==
    ASSUME FilesOK, Known \subseteq Known', anchor' = anchor,
           skipState' = skipState
    PROVE  FilesOK'
  BY DEF FilesOK, Dealt, EntryOK

\* A step of one hook to stage st with locals l leaves every hook fit.
LEMMA HookMoves ==
    ASSUME IInv, Known \subseteq Known', NEW h \in Hooks,
           NEW st \in Stage, NEW l \in Local, HookOK(st, l, Known'),
           stage' = [stage EXCEPT ![h] = st], loc' = [loc EXCEPT ![h] = l]
    PROVE  /\ stage' \in [Hooks -> Stage]
           /\ loc' \in [Hooks -> Local]
           /\ \A g \in Hooks : HookOK(stage'[g], loc'[g], Known')
<1>1. stage \in [Hooks -> Stage] /\ loc \in [Hooks -> Local]
  BY DEF IInv, TypeOK
<1>2. ASSUME NEW g \in Hooks
      PROVE  HookOK(stage'[g], loc'[g], Known')
  <2>1. CASE g = h
    BY <1>1, <2>1
  <2>2. CASE g # h
    <3>1. stage'[g] = stage[g] /\ loc'[g] = loc[g]
      BY <1>1, <2>2
    <3>2. HookOK(stage[g], loc[g], Known)
      BY DEF IInv
    <3> QED
      BY <3>1, <3>2, HookOKGrows
  <2> QED
    BY <2>1, <2>2
<1> QED
  BY <1>1, <1>2

\* An idle hook carries nothing.
LEMMA IdleIsFit ==
    /\ "idle" \in Stage
    /\ NoLocal \in Local
    /\ \A K : HookOK("idle", NoLocal, K)
<1>1. "idle" \in Stage /\ NoLocal \in Local
  BY DEF Stage, NoLocal, Local
<1>2. ASSUME NEW K PROVE HookOK("idle", NoLocal, K)
  BY DEF HookOK
<1> QED
  BY <1>1, <1>2

-----------------------------------------------------------------------------
(* The inductive invariant.                                                *)

\* The initial states satisfy the inductive invariant: no hook runs, and an
\* anchor left by an older version names reviewed content.
LEMMA InitIInv == Init => IInv
<1> SUFFICES ASSUME Init PROVE IInv
  OBVIOUS
<1>1. TypeOK
  <2>1. anchor \in Anchor \cup {None} /\ seen \in [Trees -> Seen]
    BY DEF Init, Anchor, Seen
  <2> QED
    BY <2>1, IdleIsFit, HookAssumption DEF Init, TypeOK, SkipState
<1>2. FilesOK
  <2>1. Dealt(anchor, Known)
    BY GitAssumption, NoneAssumption DEF Init, Dealt, Known
  <2> QED
    BY <2>1 DEF Init, FilesOK, EntryOK
<1>3. \A h \in Hooks : HookOK(stage[h], loc[h], Known)
  BY IdleIsFit DEF Init
<1> QED
  BY <1>1, <1>2, <1>3 DEF IInv

\* A hook that goes idle without writing keeps the invariant.
LEMMA DoneIInv ==
    ASSUME IInv, NEW h \in Hooks, Done(h), seen' = seen, FilesOK',
           anchor' \in Anchor \cup {None}, skipState' \in SkipState,
           wake' \in {"none", "fresh", "stale"}, head' \in Commits,
           woken' \in Nat, forced' \in Nat
    PROVE  IInv'
<1>1. Known' = Known
  BY DEF Known
<1>2. /\ stage' \in [Hooks -> Stage] /\ loc' \in [Hooks -> Local]
      /\ \A g \in Hooks : HookOK(stage'[g], loc'[g], Known')
  BY <1>1, IdleIsFit, HookMoves DEF Done
<1> QED
  BY <1>2 DEF IInv, TypeOK

\* A hook that moves on to stage st with locals l, writing no file, keeps the
\* invariant when l is fit for st.
LEMMA MovesIInv ==
    ASSUME IInv, NEW h \in Hooks, NEW st \in Stage, NEW l \in Local,
           HookOK(st, l, Known'), Known \subseteq Known',
           seen' \in [Trees -> Seen],
           GoTo(h, st), loc' = [loc EXCEPT ![h] = l],
           UNCHANGED <<head, anchor, skipState>>,
           wake' \in {"none", "fresh", "stale"},
           woken' \in Nat, forced' \in Nat
    PROVE  IInv'
<1>1. /\ stage' \in [Hooks -> Stage] /\ loc' \in [Hooks -> Local]
      /\ \A g \in Hooks : HookOK(stage'[g], loc'[g], Known')
  BY HookMoves DEF GoTo
<1>2. FilesOK'
  BY FilesOKGrows DEF IInv
<1> QED
  BY <1>1, <1>2 DEF IInv, TypeOK

LEMMA StopIInv ==
    ASSUME IInv, NEW h \in Hooks, Stop(h) PROVE IInv'
<1>1. PICK c \in Contexts :
        loc' = [loc EXCEPT ![h] = [NoLocal EXCEPT !.context = c, !.saw = wake]]
  BY DEF Stop
<1> DEFINE st == IF wake = "none" THEN "gates" ELSE "unlink"
           l == [NoLocal EXCEPT !.context = c, !.saw = wake]
<1>2. st \in Stage /\ l \in Local
  BY DEF Stage, Local, NoLocal, IInv, TypeOK
<1>3. HookOK(st, l, Known')
  BY HookAssumption DEF HookOK, NoLocal
<1>4. Known' = Known /\ GoTo(h, st) /\ loc' = [loc EXCEPT ![h] = l]
  BY <1>1 DEF Stop, Known, history
<1> QED
  BY <1>2, <1>3, <1>4, MovesIInv DEF Stop, files, history, IInv, TypeOK

LEMMA UnlinkWakeIInv ==
    ASSUME IInv, NEW h \in Hooks, UnlinkWake(h) PROVE IInv'
<1> DEFINE won == wake # "none" /\ loc[h].saw = "fresh"
           l == [loc[h] EXCEPT !.bypass = won, !.saw = "none"]
<1>1. loc \in [Hooks -> Local] /\ forced \in Nat /\ woken \in Nat
  BY DEF IInv, TypeOK
<1>2. l \in Local /\ "gates" \in Stage /\ l.context = loc[h].context
  BY <1>1 DEF Local, Stage
<1>3. HookOK("gates", l, Known')
  <2>1. HookOK("unlink", loc[h], Known)
    BY DEF UnlinkWake, At, IInv
  <2> QED
    BY <1>2, <2>1 DEF HookOK
<1>4. loc' = [loc EXCEPT ![h].bypass = won, ![h].saw = "none"]
  BY DEF UnlinkWake
<1>5. loc' = [loc EXCEPT ![h] = l]
  BY <1>1, <1>4
<1>6. forced' \in Nat
  BY <1>1 DEF UnlinkWake
<1>7. GoTo(h, "gates") /\ seen' = seen /\ Known' = Known
  BY DEF UnlinkWake, Known
<1> QED
  BY <1>1, <1>2, <1>3, <1>5, <1>6, <1>7, MovesIInv DEF UnlinkWake, IInv, TypeOK

LEMMA ReadHeadIInv ==
    ASSUME IInv, NEW h \in Hooks, ReadHead(h) PROVE IInv'
<1> DEFINE l == [loc[h] EXCEPT !.head = head]
<1>1. /\ l \in Local /\ "tree" \in Stage
      /\ l.head = head /\ l.context = loc[h].context
  BY DEF IInv, TypeOK, Local, Stage
<1>2. HookOK("tree", l, Known')
  <2>1. HookOK("gates", loc[h], Known) /\ head \in Commits
    BY DEF ReadHead, At, IInv, TypeOK
  <2> QED
    BY <1>1, <2>1, NoneAssumption DEF HookOK
<1>3. /\ GoTo(h, "tree") /\ seen' = seen /\ Known' = Known
      /\ loc' = [loc EXCEPT ![h] = l]
  BY DEF ReadHead, Known, history
<1> QED
  BY <1>1, <1>2, <1>3, MovesIInv DEF ReadHead, files, history, IInv, TypeOK

LEMMA ReadTreeIInv ==
    ASSUME IInv, NEW h \in Hooks, ReadTree(h) PROVE IInv'
<1> DEFINE l == [loc[h] EXCEPT !.tree = Tree[head]]
           T == {Tree[head], Tree[loc[h].head]}
<1>1. /\ loc[h] \in Local /\ loc[h].context # None
      /\ head \in Commits /\ loc[h].head \in Commits
  <2>1. loc[h].head # None /\ loc[h].context # None
    BY DEF ReadTree, At, IInv, HookOK
  <2> QED
    BY <2>1 DEF IInv, TypeOK, Local
<1>2. /\ l \in Local /\ "anchor" \in Stage
      /\ l.head = loc[h].head /\ l.tree = Tree[head]
      /\ l.context = loc[h].context
  BY <1>1, GitAssumption DEF Local, Stage
<1>3. /\ seen' \in [Trees -> Seen] /\ Known \subseteq Known'
      /\ PairOK(l.head, l.tree, Known')
  <2>1. CASE Tree[head] = Tree[loc[h].head]
    BY <1>2, <2>1 DEF ReadTree, PairOK, Known, IInv, TypeOK
  <2>2. CASE Tree[head] # Tree[loc[h].head]
    <3>1. T \in SUBSET Trees
      BY <1>1, GitAssumption
    <3>2. seen' = Mark(T, "torn")
      BY <2>2 DEF ReadTree
    <3>3. seen' \in [Trees -> Seen] /\ Known \subseteq Known' /\ T \subseteq Known'
      BY <3>1, <3>2, MarkGrows DEF IInv
    <3> QED
      BY <1>2, <3>3 DEF PairOK
  <2> QED
    BY <2>1, <2>2
<1>4. HookOK("anchor", l, Known')
  BY <1>1, <1>2, <1>3, GitAssumption, NoneAssumption DEF HookOK
<1>5. GoTo(h, "anchor") /\ loc' = [loc EXCEPT ![h] = l]
  BY DEF ReadTree
<1> QED
  BY <1>1, <1>2, <1>3, <1>4, <1>5, MovesIInv DEF ReadTree, files, IInv, TypeOK

\* The gate hands on a unit whose range ends at its HEAD and whose pair is
\* fit, or a skip whose anchor is already fit.
LEMMA GateIInv ==
    ASSUME IInv, NEW h \in Hooks, NEW d \in Decision, Gate(h, d),
           d.to # None => d.to.tree # None /\ PairOK(d.to.head, d.to.tree, Known),
           d.range # None => d.fire /\ d.to # None /\ d.range.to = d.to.head,
           ~d.fire => Dealt(d.to, Known),
           loc[h].context # None
    PROVE  IInv'
<1>1. loc[h] \in Local /\ loc \in [Hooks -> Local]
  BY DEF IInv, TypeOK
<1>2. Known' = Known /\ seen' = seen
  BY DEF Gate, history, Known
<1>3. CASE d.fire \/ loc[h].bypass
  <2> DEFINE to == IF d.fire THEN d.to ELSE None
             l == [loc[h] EXCEPT !.head = None, !.tree = None,
                                 !.range = d.range, !.to = to]
  <2>1. CASE GoTo(h, "dedupe") /\ loc' = [loc EXCEPT ![h].head = None,
             ![h].tree = None, ![h].range = d.range, ![h].to = to]
    <3>1. loc' = [loc EXCEPT ![h] = l]
      BY <1>1, <2>1
    <3>2. /\ l \in Local /\ "dedupe" \in Stage
          /\ l.range = d.range /\ l.to = to /\ l.context = loc[h].context
      BY <1>1 DEF Local, Stage, Decision
    <3>3. HookOK("dedupe", l, Known')
      BY <1>2, <3>2 DEF HookOK
    <3> HIDE DEF l
    <3> QED
      BY <1>2, <2>1, <3>1, <3>2, <3>3, MovesIInv
      DEF Gate, files, history, IInv, TypeOK
  <2>2. CASE Done(h)
    BY <2>2, DoneIInv DEF Gate, files, history, IInv, TypeOK, FilesOK, Dealt, EntryOK, Known
  <2> QED
    BY <1>3, <2>1, <2>2 DEF Gate
<1>4. CASE ~d.fire /\ ~loc[h].bypass
  <2> DEFINE l == [loc[h] EXCEPT !.head = None, !.tree = None, !.to = d.to]
  <2>1. GoTo(h, "skip") /\ loc' = [loc EXCEPT ![h].head = None,
             ![h].tree = None, ![h].to = d.to]
    BY <1>4 DEF Gate
  <2>2. loc' = [loc EXCEPT ![h] = l]
    BY <1>1, <2>1
  <2>3. /\ l \in Local /\ "skip" \in Stage
        /\ l.to = d.to /\ l.context = loc[h].context
    BY <1>1 DEF Local, Stage, Decision
  <2>4. HookOK("skip", l, Known')
    BY <1>2, <1>4, <2>3 DEF HookOK
  <2> HIDE DEF l
  <2> QED
    BY <1>2, <2>1, <2>2, <2>3, <2>4, MovesIInv
    DEF Gate, files, history, IInv, TypeOK
<1> QED
  BY <1>3, <1>4 DEF Gate

LEMMA GitFailsIInv ==
    ASSUME IInv, NEW h \in Hooks, GitFails(h) PROVE IInv'
<1>1. NotARepo \in Decision
  BY DEF NotARepo, Skip, Decision
<1>2. NotARepo.to = None /\ NotARepo.range = None /\ ~NotARepo.fire
  BY DEF NotARepo, Skip
<1>3. loc[h].context # None
  BY DEF GitFails, IInv, HookOK
<1> QED
  BY <1>1, <1>2, <1>3, GateIInv DEF GitFails, Dealt

LEMMA DecideUnitIInv ==
    ASSUME IInv, NEW h \in Hooks, DecideUnit(h) PROVE IInv'
<1> DEFINE c == loc[h].head
           t == loc[h].tree
<1>1. /\ c \in Commits /\ t \in Trees /\ PairOK(c, t, Known)
      /\ loc[h].context # None
  <2>1. HookOK("anchor", loc[h], Known)
    BY DEF DecideUnit, At, IInv
  <2> QED
    BY <2>1 DEF HookOK, IInv, TypeOK, Local
<1>2. anchor \in Anchor \cup {None} /\ Dealt(anchor, Known)
  BY DEF IInv, TypeOK, FilesOK
<1>3. ASSUME NEW f \in Facts(c, t, anchor), Gate(h, Decide(f))
      PROVE  IInv'
  <2> DEFINE d == Decide(f)
  <2>1. d \in Decision
    BY <1>1, <1>2, DecideType
  <2>2. /\ d.fire => d.to = [head |-> c, tree |-> t]
        /\ d.range # None => d.fire /\ d.range.to = c
        /\ (~d.fire /\ d.to # None) =>
             /\ d.to = [head |-> c, tree |-> t]
             /\ anchor # None
             /\ t = anchor.tree
    BY <1>1, <1>2, DecideMeaning
  <2> HIDE DEF d
  <2>3. d.to # None => d.to.tree # None /\ PairOK(d.to.head, d.to.tree, Known)
    BY <1>1, <2>2, NoneAssumption
  <2>4. d.range # None => d.fire /\ d.to # None /\ d.range.to = d.to.head
    BY <1>1, <2>2, NoneAssumption DEF Anchor
  <2>5. ~d.fire => Dealt(d.to, Known)
    BY <1>1, <1>2, <2>2, NoneAssumption DEF Dealt, PairOK
  <2>6. Gate(h, d)
    BY <1>3 DEF d
  <2> QED
    BY <1>1, <2>1, <2>3, <2>4, <2>5, <2>6, GateIInv
<1>4. ASSUME Gate(h, NotARepo) PROVE IInv'
  <2>1. NotARepo \in Decision
    BY DEF NotARepo, Skip, Decision
  <2>2. NotARepo.to = None /\ NotARepo.range = None /\ ~NotARepo.fire
    BY DEF NotARepo, Skip
  <2> QED
    BY <1>1, <1>4, <2>1, <2>2, GateIInv DEF Dealt
<1> QED
  BY <1>3, <1>4 DEF DecideUnit

\* Writing an anchor that is fit keeps the anchor fit.
LEMMA WriteAnchorFit ==
    ASSUME TypeOK, NEW to \in Anchor \cup {None}, Dealt(to, Known),
           Dealt(anchor, Known), Known' = Known, WriteAnchor(to)
    PROVE  anchor' \in Anchor \cup {None} /\ Dealt(anchor', Known')
  BY DEF WriteAnchor, TypeOK

LEMMA SkipUnitIInv ==
    ASSUME IInv, NEW h \in Hooks, SkipUnit(h) PROVE IInv'
<1>1. Known' = Known /\ seen' = seen
  BY DEF SkipUnit, history, Known
<1>2. loc[h].to \in Anchor \cup {None} /\ Dealt(loc[h].to, Known)
  BY DEF SkipUnit, At, IInv, TypeOK, Local, HookOK
<1>3. anchor' \in Anchor \cup {None} /\ Dealt(anchor', Known')
  BY <1>1, <1>2, WriteAnchorFit DEF SkipUnit, IInv, FilesOK
<1>4. FilesOK'
  BY <1>1, <1>3 DEF SkipUnit, IInv, FilesOK, EntryOK
<1> QED
  BY <1>1, <1>3, <1>4, DoneIInv DEF SkipUnit, history, IInv, TypeOK

LEMMA DedupeIInv ==
    ASSUME IInv, NEW h \in Hooks, Dedupe(h) PROVE IInv'
<1> DEFINE dup == skipState[SessionOf[h]] = SignatureOf(h)
           st == IF dup THEN "hashRead" ELSE "review"
           l == [loc[h] EXCEPT !.dup = dup]
           adopts == dup /\ loc[h].range = None /\ loc[h].to # None
<1>1. /\ loc[h] \in Local /\ loc \in [Hooks -> Local]
      /\ HookOK("dedupe", loc[h], Known)
  BY DEF Dedupe, At, IInv, TypeOK
<1>2. /\ l \in Local /\ st \in Stage
      /\ l.to = loc[h].to /\ l.range = loc[h].range
      /\ l.context = loc[h].context
  BY <1>1 DEF Local, Stage
<1>3. GoTo(h, st) /\ loc' = [loc EXCEPT ![h] = l]
  <2>1. loc' = [loc EXCEPT ![h].dup = dup] /\ GoTo(h, st)
    BY DEF Dedupe
  <2> QED
    BY <1>1, <2>1
<1>4. seen' = IF adopts THEN Mark({Tree[loc[h].to.head]}, "blind") ELSE seen
  BY DEF Dedupe
<1>5. /\ seen' \in [Trees -> Seen] /\ Known \subseteq Known'
      /\ adopts => Tree[loc[h].to.head] \in Known'
  <2>1. CASE adopts
    <3>1. {Tree[loc[h].to.head]} \in SUBSET Trees
      BY <1>1, <2>1, GitAssumption DEF Local, Anchor
    <3> QED
      BY <1>4, <2>1, <3>1, MarkGrows DEF IInv
  <2>2. CASE ~adopts
    BY <1>4, <2>2 DEF Known, IInv, TypeOK
  <2> QED
    BY <2>1, <2>2
<1>6. dup /\ loc[h].range # None => Tree[loc[h].range.to] \in Known
  <2> SUFFICES ASSUME dup, loc[h].range # None
               PROVE  Tree[loc[h].range.to] \in Known
    OBVIOUS
  <2>1. EntryOK(skipState[SessionOf[h]], Known)
    BY HookAssumption DEF IInv, FilesOK
  <2>2. SignatureOf(h) # None /\ SignatureOf(h).range = loc[h].range
    <3>1. SignatureOf(h) \in Signature
      BY <1>1 DEF SignatureOf, Signature, Local, HookOK
    <3> QED
      BY <3>1, HookAssumption DEF SignatureOf
  <2> QED
    BY <2>1, <2>2 DEF EntryOK
<1> HIDE DEF l, dup
<1>7. HookOK(st, l, Known')
  <2>1. CASE ~dup
    BY <1>1, <1>2, <1>5, <2>1 DEF HookOK, PairOK
  <2>2. CASE dup
    <3>1. loc[h].range # None => Tree[loc[h].range.to] \in Known'
      BY <1>5, <1>6, <2>2
    <3>2. loc[h].to # None => Tree[loc[h].to.head] \in Known'
      BY <1>1, <1>5, <3>1, <2>2 DEF HookOK
    <3>3. Dealt(loc[h].to, Known')
      BY <1>1, <1>5, <3>2 DEF HookOK, PairOK, Dealt
    <3> QED
      BY <1>1, <1>2, <2>2, <3>1, <3>3 DEF HookOK
  <2> QED
    BY <2>1, <2>2
<1> QED
  BY <1>2, <1>3, <1>5, <1>7, MovesIInv DEF Dedupe, files, IInv, TypeOK

LEMMA ResolvedIInv ==
    ASSUME IInv, NEW h \in Hooks, Resolved(h) PROVE IInv'
<1>1. loc[h] \in Local /\ loc \in [Hooks -> Local] /\ HookOK("review", loc[h], Known)
  BY DEF Resolved, At, IInv, TypeOK
<1>2. /\ seen' \in [Trees -> Seen] /\ Known \subseteq Known'
      /\ loc[h].to # None => Tree[loc[h].to.head] \in Known'
  <2>1. CASE loc[h].to = None
    BY <2>1 DEF Resolved, Known, IInv, TypeOK
  <2>2. CASE loc[h].to # None
    <3>1. {Tree[loc[h].to.head]} \in SUBSET Trees
      BY <1>1, <2>2, GitAssumption DEF Local, Anchor
    <3>2. seen' = Mark({Tree[loc[h].to.head]}, "read")
      BY <2>2 DEF Resolved
    <3> QED
      BY <3>1, <3>2, MarkGrows DEF IInv
  <2> QED
    BY <2>1, <2>2
<1>3. Dealt(loc[h].to, Known')
  BY <1>1, <1>2 DEF HookOK, PairOK, Dealt
<1>4. loc[h].range # None => Tree[loc[h].range.to] \in Known'
  BY <1>1, <1>2 DEF HookOK
<1>5. HookOK("consume", loc[h], Known')
  BY <1>1, <1>3, <1>4 DEF HookOK
<1>6. "consume" \in Stage /\ GoTo(h, "consume") /\ loc' = [loc EXCEPT ![h] = loc[h]]
  BY <1>1 DEF Resolved, Stage
<1> QED
  BY <1>1, <1>2, <1>5, <1>6, MovesIInv DEF Resolved, IInv, TypeOK

LEMMA ConsumeIInv ==
    ASSUME IInv, NEW h \in Hooks, Consume(h) PROVE IInv'
<1> DEFINE l == [loc[h] EXCEPT !.to = None]
<1>1. loc[h] \in Local /\ loc \in [Hooks -> Local] /\ HookOK("consume", loc[h], Known)
  BY DEF Consume, At, IInv, TypeOK
<1>2. Known' = Known /\ seen' = seen
  BY DEF Consume, history, Known
<1>3. loc[h].to \in Anchor \cup {None} /\ Dealt(loc[h].to, Known)
  BY <1>1 DEF Local, HookOK
<1>4. anchor' \in Anchor \cup {None} /\ Dealt(anchor', Known')
  BY <1>2, <1>3, WriteAnchorFit DEF Consume, IInv, FilesOK
<1>5. FilesOK'
  BY <1>2, <1>4 DEF Consume, IInv, FilesOK, EntryOK
<1>6. CASE Done(h)
  BY <1>2, <1>4, <1>5, <1>6, DoneIInv DEF Consume, history, IInv, TypeOK
<1>7. CASE GoTo(h, "hashRead") /\ loc' = [loc EXCEPT ![h].to = None]
  <2>1. /\ l \in Local /\ "hashRead" \in Stage /\ l.to = None
        /\ l.range = loc[h].range /\ l.context = loc[h].context
    BY <1>1 DEF Local, Stage
  <2>2. loc' = [loc EXCEPT ![h] = l]
    BY <1>1, <1>7
  <2> HIDE DEF l
  <2>3. HookOK("hashRead", l, Known')
    BY <1>1, <1>2, <2>1 DEF HookOK, Dealt
  <2>4. /\ stage' \in [Hooks -> Stage] /\ loc' \in [Hooks -> Local]
        /\ \A g \in Hooks : HookOK(stage'[g], loc'[g], Known')
    BY <1>2, <1>7, <2>1, <2>2, <2>3, HookMoves DEF GoTo
  <2> QED
    BY <1>2, <1>4, <1>5, <2>4 DEF Consume, history, IInv, TypeOK
<1> QED
  BY <1>6, <1>7 DEF Consume

LEMMA HashReadIInv ==
    ASSUME IInv, NEW h \in Hooks, HashRead(h) PROVE IInv'
<1> DEFINE l == [loc[h] EXCEPT !.snap = skipState]
<1>1. /\ loc[h] \in Local /\ loc \in [Hooks -> Local] /\ skipState \in SkipState
      /\ HookOK("hashRead", loc[h], Known)
  BY DEF HashRead, At, IInv, TypeOK
<1>2. /\ l \in Local /\ "hashWrite" \in Stage /\ l.snap = skipState
      /\ l.to = loc[h].to /\ l.range = loc[h].range
      /\ l.context = loc[h].context
  BY <1>1 DEF Local, Stage
<1>3. GoTo(h, "hashWrite") /\ loc' = [loc EXCEPT ![h] = l]
  <2>1. GoTo(h, "hashWrite") /\ loc' = [loc EXCEPT ![h].snap = skipState]
    BY DEF HashRead
  <2> QED
    BY <1>1, <2>1
<1>4. Known' = Known /\ seen' = seen
  BY DEF HashRead, history, Known
<1>5. skipState # None
  BY <1>1, HookAssumption
<1> HIDE DEF l
<1>6. HookOK("hashWrite", l, Known')
  BY <1>1, <1>2, <1>4, <1>5 DEF HookOK, IInv, FilesOK
<1> QED
  BY <1>2, <1>3, <1>4, <1>6, MovesIInv DEF HashRead, files, history, IInv, TypeOK

LEMMA HashWriteIInv ==
    ASSUME IInv, NEW h \in Hooks, HashWrite(h) PROVE IInv'
<1> DEFINE l == [loc[h] EXCEPT !.snap = None]
<1>1. /\ loc[h] \in Local /\ loc \in [Hooks -> Local] /\ SessionOf[h] \in Sessions
      /\ HookOK("hashWrite", loc[h], Known)
  BY HookAssumption DEF HashWrite, At, IInv, TypeOK
<1>2. Known' = Known /\ seen' = seen /\ anchor' = anchor
  BY DEF HashWrite, history, Known
<1>3. loc[h].snap \in SkipState /\ \A s \in Sessions : EntryOK(loc[h].snap[s], Known)
  BY <1>1 DEF Local, HookOK
<1>4. SignatureOf(h) \in Signature /\ EntryOK(SignatureOf(h), Known)
  <2>1. loc[h].context \in Contexts /\ loc[h].range \in RevisionRange \cup {None}
    BY <1>1 DEF Local, HookOK
  <2>2. loc[h].range # None => Tree[loc[h].range.to] \in Known
    BY <1>1 DEF HookOK
  <2> QED
    BY <2>1, <2>2 DEF SignatureOf, Signature, EntryOK
<1>5. skipState' \in SkipState /\ \A s \in Sessions : EntryOK(skipState'[s], Known)
  <2>1. CASE UNCHANGED skipState
    BY <2>1 DEF IInv, TypeOK, FilesOK
  <2>2. ASSUME NEW kept \in SUBSET Sessions,
               skipState' = [s \in Sessions |->
                   IF s = SessionOf[h] THEN SignatureOf(h)
                   ELSE IF s \in kept THEN loc[h].snap[s] ELSE None]
        PROVE  skipState' \in SkipState /\ \A s \in Sessions : EntryOK(skipState'[s], Known)
    <3>1. ASSUME NEW s \in Sessions
          PROVE  /\ skipState'[s] \in Signature \cup {None}
                 /\ EntryOK(skipState'[s], Known)
      <4>1. CASE s = SessionOf[h]
        BY <1>4, <2>2, <4>1
      <4>2. CASE s # SessionOf[h] /\ s \in kept
        BY <1>3, <2>2, <4>2 DEF SkipState
      <4>3. CASE s # SessionOf[h] /\ s \notin kept
        BY <2>2, <4>3 DEF EntryOK
      <4> QED
        BY <4>1, <4>2, <4>3
    <3> QED
      BY <2>2, <3>1 DEF SkipState
  <2> QED
    BY <2>1, <2>2 DEF HashWrite
<1>6. FilesOK'
  BY <1>2, <1>5 DEF IInv, FilesOK
<1>7. CASE Done(h)
  BY <1>2, <1>5, <1>6, <1>7, DoneIInv DEF HashWrite, history, IInv, TypeOK
<1>8. CASE GoTo(h, "consume") /\ loc' = [loc EXCEPT ![h].snap = None]
  <2>1. /\ l \in Local /\ "consume" \in Stage /\ l.to = loc[h].to
        /\ l.range = loc[h].range /\ l.context = loc[h].context
    BY <1>1 DEF Local, Stage
  <2>2. loc' = [loc EXCEPT ![h] = l]
    BY <1>1, <1>8
  <2> HIDE DEF l
  <2>3. HookOK("consume", l, Known')
    BY <1>1, <1>2, <2>1 DEF HookOK
  <2>4. /\ stage' \in [Hooks -> Stage] /\ loc' \in [Hooks -> Local]
        /\ \A g \in Hooks : HookOK(stage'[g], loc'[g], Known')
    BY <1>2, <1>8, <2>1, <2>2, <2>3, HookMoves DEF GoTo
  <2> QED
    BY <1>2, <1>5, <1>6, <2>4 DEF HashWrite, history, IInv, TypeOK
<1> QED
  BY <1>7, <1>8 DEF HashWrite

\* Dying, failing and giving up write nothing.
LEMMA QuitIInv ==
    ASSUME IInv, NEW h \in Hooks, PolicySkip(h) \/ Failed(h) \/ Crash(h)
    PROVE  IInv'
<1>1. Done(h) /\ UNCHANGED <<head, files, history>>
  BY DEF PolicySkip, Failed, Crash
<1>2. FilesOK'
  BY <1>1 DEF files, history, IInv, FilesOK, Dealt, EntryOK, Known
<1> QED
  BY <1>1, <1>2, DoneIInv DEF files, history, IInv, TypeOK

\* The user, git and the clock only ever remove an anchor.
LEMMA EnvironmentIInv ==
    ASSUME IInv, Environment PROVE IInv'
<1>1. /\ UNCHANGED <<skipState, stage, loc, seen>> /\ Known' = Known
      /\ anchor' \in {anchor, None} /\ head' \in Commits
  BY DEF Environment, MoveHead, LoseAnchor, Wake, WakeExpires, files, history,
         Known, IInv, TypeOK
<1>2. wake' \in {"none", "fresh", "stale"} /\ woken' \in Nat /\ forced' \in Nat
  BY DEF Environment, MoveHead, LoseAnchor, Wake, WakeExpires, files, history,
         IInv, TypeOK
<1>3. TypeOK'
  BY <1>1, <1>2 DEF IInv, TypeOK
<1>4. FilesOK'
  BY <1>1 DEF IInv, FilesOK, Dealt, EntryOK
<1> QED
  BY <1>1, <1>3, <1>4 DEF IInv

\* Every step preserves the inductive invariant.
LEMMA NextIInv == IInv /\ [Next]_vars => IInv'
<1> SUFFICES ASSUME IInv, [Next]_vars PROVE IInv'
  OBVIOUS
<1>1. CASE Environment
  BY <1>1, EnvironmentIInv
<1>2. ASSUME NEW h \in Hooks, HookStep(h) PROVE IInv'
  <2>1. CASE PolicySkip(h) \/ Failed(h) \/ Crash(h)
    BY <2>1, QuitIInv
  <2> QED
    BY <1>2, <2>1, StopIInv, UnlinkWakeIInv, ReadHeadIInv, ReadTreeIInv,
       GitFailsIInv, DecideUnitIInv, SkipUnitIInv, DedupeIInv, ResolvedIInv,
       ConsumeIInv, HashReadIInv, HashWriteIInv DEF HookStep
<1>3. CASE UNCHANGED vars
  BY <1>3 DEF vars, files, history, IInv, TypeOK, FilesOK, Known
<1> QED
  BY <1>1, <1>2, <1>3 DEF Next

\* The inductive invariant holds in every reachable state.
THEOREM Invariant == Spec => []IInv
<1>1. Init => IInv
  BY InitIInv
<1>2. IInv /\ [Next]_vars => IInv'
  BY NextIInv
<1> QED
  BY <1>1, <1>2, PTL DEF Spec

-----------------------------------------------------------------------------
(* The theorems.                                                           *)

\* Every variable keeps its type, under every interleaving of hooks.
THEOREM TypeCorrect == Spec => []TypeOK
<1>1. IInv => TypeOK
  BY DEF IInv
<1> QED
  BY <1>1, Invariant, PTL

\* However many hooks race, crash or overwrite each other, the anchor names
\* only content that was dealt with.
THEOREM AnchorIsRead == Spec => []ConsumedWasRead
<1>1. IInv => ConsumedWasRead
  BY DEF IInv, FilesOK, Dealt, ConsumedWasRead
<1> QED
  BY <1>1, Invariant, PTL

\* While HEAD holds content nobody looked at, the gate fires on it, whatever
\* git fails to answer.
THEOREM UnreadFires == Spec => []UnreadHeadFires
<1>1. IInv => UnreadHeadFires
  <2> SUFFICES ASSUME IInv, Tree[head] \notin Known,
                      NEW f \in Facts(head, Tree[head], anchor),
                      ~Decide(f).fire
               PROVE  FALSE
    BY DEF UnreadHeadFires
  <2>1. /\ head \in Commits /\ Tree[head] \in Trees
        /\ anchor \in Anchor \cup {None} /\ Dealt(anchor, Known)
    BY GitAssumption DEF IInv, TypeOK, FilesOK
  <2>2. anchor # None /\ (head = anchor.head \/ Tree[head] = anchor.tree)
    BY <2>1, SkipMeaning
  <2> QED
    BY <2>1, <2>2, NoneAssumption DEF Dealt
<1> QED
  BY <1>1, Invariant, PTL

\* A failed review is never answered with "no_change": every stored signature
\* that names a unit names one that was dealt with.
THEOREM HashIsOfReadUnit == Spec => []HashNamesReadUnit
<1>1. IInv => HashNamesReadUnit
  BY DEF IInv, FilesOK, EntryOK, HashNamesReadUnit
<1> QED
  BY <1>1, Invariant, PTL

\* A duplicate skip of a unit consumes content that was dealt with.
DuplicateUnitWasRead ==
    \A h \in Hooks :
        At(h, "dedupe") /\ loc[h].range # None /\ skipState[SessionOf[h]] = SignatureOf(h) =>
            loc[h].to # None /\ Tree[loc[h].to.head] \in Known

\* What stays true of the comment at handle-stop.ts:1094 ("never a new commit") for
\* every repository and any number of hooks: a duplicate skip takes content nobody
\* looked at only when its signature names no unit.
THEOREM DuplicatesOfUnitsWereRead == Spec => []DuplicateUnitWasRead
<1>1. IInv => DuplicateUnitWasRead
  <2> SUFFICES ASSUME IInv, NEW h \in Hooks, At(h, "dedupe"), loc[h].range # None,
                      skipState[SessionOf[h]] = SignatureOf(h)
               PROVE  loc[h].to # None /\ Tree[loc[h].to.head] \in Known
    BY DEF DuplicateUnitWasRead
  <2>1. loc[h].to # None /\ loc[h].range.to = loc[h].to.head
    BY DEF IInv, HookOK, At
  <2>2. SessionOf[h] \in Sessions /\ loc[h] \in Local
    BY HookAssumption DEF IInv, TypeOK
  <2>3. SignatureOf(h) \in Signature /\ SignatureOf(h).range = loc[h].range
    <3>1. loc[h].context \in Contexts
      BY <2>2 DEF IInv, HookOK, At, Local
    <3> QED
      BY <2>2, <3>1 DEF SignatureOf, Signature, Local
  <2>4. EntryOK(skipState[SessionOf[h]], Known)
    BY <2>2 DEF IInv, FilesOK
  <2> QED
    BY <2>1, <2>3, <2>4, HookAssumption DEF EntryOK
<1> QED
  BY <1>1, Invariant, PTL

-----------------------------------------------------------------------------
(* The promise of the hook.                                                *)

\* What the files hold, when they are fit, was dealt with.
LEMMA FitIsDealt ==
    ASSUME TypeOK, FilesOK
    PROVE  Consumed \in SUBSET Known /\ Said \in SUBSET Known
<1>1. Consumed \in SUBSET Known
  BY DEF FilesOK, Dealt, Consumed
<1>2. Said \in SUBSET Known
  BY DEF FilesOK, EntryOK, Said
<1> QED
  BY <1>1, <1>2

\* A step that deals with content writes no file.
LEMMA DealingWritesNothing ==
    ASSUME IInv, [Next]_vars, seen' # seen
    PROVE  /\ UNCHANGED <<anchor, skipState>>
           /\ Known \subseteq Known'
<1>0. TypeOK
  BY DEF IInv
<1>1. PICK h \in Hooks : ReadTree(h) \/ Dedupe(h) \/ Resolved(h)
  BY DEF Next, Environment, HookStep, MoveHead, LoseAnchor, Wake, WakeExpires, Stop,
     UnlinkWake, PolicySkip, ReadHead, GitFails, DecideUnit, Gate, SkipUnit, Failed,
     Consume, HashRead, HashWrite, Crash, vars, history
<1>2. UNCHANGED <<anchor, skipState>>
  BY <1>1 DEF ReadTree, Dedupe, Resolved, files
<1>3. \E T, how : seen' = Mark(T, how) /\ how # "no"
  BY <1>1 DEF ReadTree, Dedupe, Resolved
<1>4. \A t \in Trees : seen[t] # "no" => seen'[t] # "no"
  BY <1>3 DEF Mark
<1> QED
  BY <1>2, <1>4 DEF Known

\* No step writes both files.
LEMMA OneFileAtATime ==
    ASSUME [Next]_vars PROVE anchor' = anchor \/ skipState' = skipState
<1>1. CASE Environment \/ UNCHANGED vars
  BY <1>1 DEF Environment, MoveHead, LoseAnchor, Wake, WakeExpires, vars, files
<1>2. ASSUME NEW h \in Hooks, HookStep(h) PROVE anchor' = anchor \/ skipState' = skipState
  BY <1>2 DEF HookStep, Stop, UnlinkWake, PolicySkip, ReadHead, ReadTree, GitFails,
     DecideUnit, Gate, SkipUnit, Dedupe, Resolved, Failed, Consume, HashRead, HashWrite,
     Crash, files
<1> QED
  BY <1>1, <1>2 DEF Next

\* Content is dealt with in one step and consumed or called already said in a later
\* one, for every repository and any number of hooks that read, decide and write at
\* their own pace.
THEOREM HookRefinesReviewer == Spec => ImplementsReviewer
<1>1. Init /\ IInv => Promise!ReviewerInit
  <2> SUFFICES ASSUME Init, IInv PROVE Promise!ReviewerInit
    OBVIOUS
  <2>1. Known \in SUBSET Trees
    BY DEF Known
  <2>2. Consumed \in SUBSET Known
    BY FitIsDealt DEF IInv
  <2>3. Said = {}
    BY DEF Init, Said
  <2> QED
    BY <2>1, <2>2, <2>3 DEF Promise!ReviewerInit
<1>2. IInv /\ IInv' /\ [Next]_vars => [Promise!ReviewerNext]_(Promise!reviewerVars)
  <2> SUFFICES ASSUME IInv, IInv', [Next]_vars
               PROVE  [Promise!ReviewerNext]_(Promise!reviewerVars)
    OBVIOUS
  <2>1. CASE seen' # seen
    <3>1. UNCHANGED <<Consumed, Said>> /\ Known \subseteq Known'
      BY <2>1, DealingWritesNothing DEF Consumed, Said
    <3>2. Known' \in SUBSET Trees
      BY DEF Known
    <3> QED
      BY <3>1, <3>2 DEF Promise!ReviewerNext, Promise!Deal
  <2>2. CASE seen' = seen
    <3>1. Known' = Known
      BY <2>2 DEF Known
    <3>2. Consumed' \in SUBSET Known' /\ Said' \in SUBSET Known'
      <4>1. TypeOK' /\ FilesOK'
        BY DEF IInv
      <4>2. Consumed' \in SUBSET Known'
        BY <4>1 DEF FilesOK, Dealt, Consumed
      <4>3. Said' \in SUBSET Known'
        BY <4>1 DEF FilesOK, EntryOK, Said
      <4> QED
        BY <4>2, <4>3
    <3>3. CASE skipState' = skipState
      <4>1. Said' = Said
        BY <3>3 DEF Said
      <4> QED
        BY <3>1, <3>2, <4>1 DEF Promise!ReviewerNext, Promise!Consume
    <3>4. CASE anchor' = anchor
      <4>1. Consumed' = Consumed
        BY <3>4 DEF Consumed
      <4> QED
        BY <3>1, <3>2, <4>1 DEF Promise!ReviewerNext, Promise!Say
    <3> QED
      BY <3>3, <3>4, OneFileAtATime
  <2> QED
    BY <2>1, <2>2
<1> QED
  BY <1>1, <1>2, Invariant, PTL DEF Spec, ImplementsReviewer, Promise!ReviewerSpec

-----------------------------------------------------------------------------
(* The wake.                                                               *)

\* A wake still on disk, and those that forced a review, were all given.
LEMMA WakeInvariant == Spec => [](TypeOK /\ WakeInv)
<1>1. Init => WakeInv
  BY DEF Init, WakeInv
<1>2. TypeOK /\ TypeOK' /\ WakeInv /\ [Next]_vars => WakeInv'
  <2> SUFFICES ASSUME TypeOK, TypeOK', WakeInv, [Next]_vars PROVE WakeInv'
    OBVIOUS
  <2>1. ASSUME NEW h \in Hooks, UnlinkWake(h) PROVE WakeInv'
    BY <2>1 DEF UnlinkWake, WakeInv, TypeOK
  <2>2. CASE Wake
    BY <2>2 DEF Wake, WakeInv, TypeOK
  <2>3. CASE WakeExpires
    BY <2>3 DEF WakeExpires, history, WakeInv, TypeOK
  <2>4. CASE UNCHANGED <<wake, woken, forced>>
    BY <2>4 DEF WakeInv
  <2>5. ASSUME NEW h \in Hooks, HookStep(h), ~UnlinkWake(h)
        PROVE  UNCHANGED <<wake, woken, forced>>
    BY <2>5 DEF HookStep, Stop, PolicySkip, ReadHead, ReadTree, GitFails,
       DecideUnit, Gate, SkipUnit, Dedupe, Resolved, Failed, Consume, HashRead,
       HashWrite, Crash, files, history
  <2>6. CASE MoveHead \/ LoseAnchor \/ UNCHANGED vars
    BY <2>4, <2>6 DEF MoveHead, LoseAnchor, vars, files, history
  <2> QED
    BY <2>1, <2>2, <2>3, <2>4, <2>5, <2>6 DEF Next, Environment
<1> QED
  BY <1>1, <1>2, TypeCorrect, PTL DEF Spec

\* A wake forces at most one review, however many hooks see the marker.
THEOREM WakeIsUsedOnce == Spec => []OneReviewPerWake
<1>1. TypeOK /\ WakeInv => OneReviewPerWake
  BY DEF TypeOK, WakeInv, OneReviewPerWake
<1> QED
  BY <1>1, WakeInvariant, PTL

-----------------------------------------------------------------------------
(* One owner per Stop event, and a reviewer behind every skip.             *)

\* What a delivery claimed, hashed and delivers is not taken back.
Keeps ==
    \A e \in Deliveries :
        role[e] # "none" => role'[e] # "none" /\ turn'[e] = turn[e] /\ key'[e] = key[e]

\* Marker files stay backed while none is made.
LEMMA BackedStays ==
    ASSUME MarkersBacked, Keeps,
           \A v \in Turns : marker'[v] # "none" => marker[v] # "none"
    PROVE  MarkersBacked'
  BY DEF MarkersBacked, Keeps

\* A delivery that skipped stays covered; one that skips now must be.
LEMMA SkippedStays ==
    ASSUME SkippedIsCovered, Keeps,
           \A d \in Deliveries : at'[d] = "skipped" =>
               /\ turn'[d] = turn[d]
               /\ at[d] = "skipped" \/ \E e \in Deliveries : Covers(e, turn[d])
    PROVE  SkippedIsCovered'
<1> SUFFICES ASSUME NEW d \in Deliveries, at'[d] = "skipped"
             PROVE  \E e \in Deliveries : Covers(e, turn[d])'
  BY DEF SkippedIsCovered
<1>1. PICK e \in Deliveries : Covers(e, turn[d])
  BY DEF SkippedIsCovered
<1>2. role'[e] # "none" /\ turn'[e] = turn[e] /\ key'[e] = key[e] /\ turn'[d] = turn[d]
  BY <1>1 DEF Keeps, Covers
<1>3. Covers(e, turn[d])'
  BY <1>1, <1>2 DEF Covers
<1> QED
  BY <1>3

\* A content with a marker file is looked at by a delivery that covers every
\* turn whose delivery hashed it.
LEMMA MarkerCovers ==
    ASSUME MarkerIInv, NEW d \in Deliveries, key[d] \in Turns, marker[key[d]] # "none"
    PROVE  \E e \in Deliveries : Covers(e, turn[d])
<1>1. PICK e \in Deliveries : role[e] # "none" /\ key[e] = key[d]
  BY DEF MarkerIInv, MarkersBacked
<1>2. turn[d] <= key[d] /\ turn[d] \in Nat /\ key[d] \in 1..MaxTurns /\ MaxTurns \in Nat
  BY MarkerAssumption DEF MarkerIInv, MarkerTypeOK, DeliveryOK, Turns
<1>3. key[e] \in turn[d]..MaxTurns
  BY <1>1, <1>2
<1> QED
  BY <1>1, <1>3 DEF Covers

\* Nothing was delivered yet.
LEMMA InitMarkerIInv == MarkerInit => MarkerIInv
  BY MarkerAssumption
  DEF MarkerInit, MarkerIInv, MarkerTypeOK, Turns, DeliveryOK, OneOwner, MarkersBacked, SkippedIsCovered

\* A new delivery claims nothing.
LEMMA DeliverIInv ==
    ASSUME MarkerIInv, NEW d \in Deliveries, Deliver(d) PROVE MarkerIInv'
<1>1. MarkerTypeOK'
  BY MarkerAssumption DEF MarkerIInv, MarkerTypeOK, Turns, DeliveryOK, Deliver, Go
<1>2. Keeps
  BY DEF MarkerIInv, MarkerTypeOK, DeliveryOK, Keeps, Deliver, Go
<1>3. \A e \in Deliveries : DeliveryOK(e)'
  BY MarkerAssumption DEF MarkerIInv, MarkerTypeOK, Turns, DeliveryOK, Deliver, Go
<1>4. OneOwner'
  BY DEF MarkerIInv, MarkerTypeOK, DeliveryOK, OneOwner, Deliver, Go
<1>5. MarkersBacked'
  <2>1. \A v \in Turns : marker'[v] # "none" => marker[v] # "none"
    BY DEF MarkerIInv, MarkerTypeOK, DeliveryOK, Deliver, Go
  <2> QED
    BY <1>2, <2>1, BackedStays DEF MarkerIInv
<1>6. SkippedIsCovered'
  <2>1. \A e \in Deliveries : at'[e] = "skipped" => at[e] = "skipped" /\ turn'[e] = turn[e]
    BY DEF MarkerIInv, MarkerTypeOK, Deliver, Go
  <2> QED
    BY <1>2, <2>1, SkippedStays DEF MarkerIInv
<1> QED
  BY <1>1, <1>3, <1>4, <1>5, <1>6 DEF MarkerIInv

\* The hash is of the turn delivered or of a later one.
LEMMA DeriveKeyIInv ==
    ASSUME MarkerIInv, NEW d \in Deliveries, DeriveKey(d) PROVE MarkerIInv'
<1>0. turns \in Turns
  BY MarkerAssumption DEF MarkerIInv, MarkerTypeOK, Turns, DeliveryOK, DeriveKey, Go
<1>1. MarkerTypeOK'
  BY <1>0 DEF MarkerIInv, MarkerTypeOK, DeriveKey, Go, Begin
<1>2. Keeps
  BY DEF MarkerIInv, MarkerTypeOK, DeliveryOK, Keeps, DeriveKey, Go, Begin
<1>3. \A e \in Deliveries : DeliveryOK(e)'
  BY MarkerAssumption DEF MarkerIInv, MarkerTypeOK, Turns, DeliveryOK, DeriveKey, Go, Begin
<1>4. OneOwner'
  BY DEF MarkerIInv, MarkerTypeOK, DeliveryOK, OneOwner, DeriveKey, Go, Begin
<1>5. MarkersBacked'
  <2>1. \A v \in Turns : marker'[v] # "none" => marker[v] # "none"
    BY DEF MarkerIInv, MarkerTypeOK, DeliveryOK, DeriveKey, Go, Begin
  <2> QED
    BY <1>2, <2>1, BackedStays DEF MarkerIInv
<1>6. SkippedIsCovered'
  <2>1. \A e \in Deliveries : at'[e] = "skipped" => at[e] = "skipped" /\ turn'[e] = turn[e]
    BY DEF MarkerIInv, MarkerTypeOK, DeriveKey, Go, Begin
  <2> QED
    BY <1>2, <2>1, SkippedStays DEF MarkerIInv
<1> QED
  BY <1>1, <1>3, <1>4, <1>5, <1>6 DEF MarkerIInv

\* A marker that is done has a delivery behind it.
LEMMA LookIInv ==
    ASSUME MarkerIInv, NEW d \in Deliveries, Look(d) PROVE MarkerIInv'
<1>1. MarkerTypeOK'
  BY MarkerAssumption DEF MarkerIInv, MarkerTypeOK, Turns, DeliveryOK, Look, Go, Completed, Claimed
<1>2. Keeps
  BY DEF MarkerIInv, MarkerTypeOK, DeliveryOK, Keeps, Look, Go, Completed, Claimed
<1>3. \A e \in Deliveries : DeliveryOK(e)'
  BY MarkerAssumption DEF MarkerIInv, MarkerTypeOK, Turns, DeliveryOK, Look, Go, Completed, Claimed
<1>4. OneOwner'
  BY DEF MarkerIInv, MarkerTypeOK, DeliveryOK, OneOwner, Look, Go, Completed, Claimed
<1>5. MarkersBacked'
  <2>1. \A v \in Turns : marker'[v] # "none" => marker[v] # "none"
    BY DEF MarkerIInv, MarkerTypeOK, DeliveryOK, Look, Go, Completed, Claimed
  <2> QED
    BY <1>2, <2>1, BackedStays DEF MarkerIInv
<1>6. SkippedIsCovered'
  <2>1. at'[d] = "skipped" => key[d] \in Turns /\ marker[key[d]] # "none"
    BY DEF MarkerIInv, MarkerTypeOK, DeliveryOK, Look, Go, Completed, Claimed
  <2>2. \A e \in Deliveries : turn'[e] = turn[e] /\ (e # d => at'[e] = at[e])
    BY DEF MarkerIInv, MarkerTypeOK, Look, Go, Completed, Claimed
  <2> QED
    BY <1>2, <2>1, <2>2, MarkerCovers, SkippedStays DEF MarkerIInv
<1> QED
  BY <1>1, <1>3, <1>4, <1>5, <1>6 DEF MarkerIInv

\* Asking the daemon changes nothing.
LEMMA ProbeIInv ==
    ASSUME MarkerIInv, NEW d \in Deliveries, Probe(d) PROVE MarkerIInv'
<1>1. MarkerTypeOK'
  BY MarkerAssumption DEF MarkerIInv, MarkerTypeOK, Turns, DeliveryOK, Probe, Go
<1>2. Keeps
  BY DEF MarkerIInv, MarkerTypeOK, DeliveryOK, Keeps, Probe, Go
<1>3. \A e \in Deliveries : DeliveryOK(e)'
  BY MarkerAssumption DEF MarkerIInv, MarkerTypeOK, Turns, DeliveryOK, Probe, Go
<1>4. OneOwner'
  BY DEF MarkerIInv, MarkerTypeOK, DeliveryOK, OneOwner, Probe, Go
<1>5. MarkersBacked'
  <2>1. \A v \in Turns : marker'[v] # "none" => marker[v] # "none"
    BY DEF MarkerIInv, MarkerTypeOK, DeliveryOK, Probe, Go
  <2> QED
    BY <1>2, <2>1, BackedStays DEF MarkerIInv
<1>6. SkippedIsCovered'
  <2>1. \A e \in Deliveries : at'[e] = "skipped" => at[e] = "skipped" /\ turn'[e] = turn[e]
    BY DEF MarkerIInv, MarkerTypeOK, Probe, Go
  <2> QED
    BY <1>2, <2>1, SkippedStays DEF MarkerIInv
<1> QED
  BY <1>1, <1>3, <1>4, <1>5, <1>6 DEF MarkerIInv

\* Nor does waiting; a claim seen then is backed too.
LEMMA WaitIInv ==
    ASSUME MarkerIInv, NEW d \in Deliveries, Wait(d) PROVE MarkerIInv'
<1>1. MarkerTypeOK'
  BY MarkerAssumption DEF MarkerIInv, MarkerTypeOK, Turns, DeliveryOK, Wait, Go, Completed, Claimed
<1>2. Keeps
  BY DEF MarkerIInv, MarkerTypeOK, DeliveryOK, Keeps, Wait, Go, Completed, Claimed
<1>3. \A e \in Deliveries : DeliveryOK(e)'
  BY MarkerAssumption DEF MarkerIInv, MarkerTypeOK, Turns, DeliveryOK, Wait, Go, Completed, Claimed
<1>4. OneOwner'
  BY DEF MarkerIInv, MarkerTypeOK, DeliveryOK, OneOwner, Wait, Go, Completed, Claimed
<1>5. MarkersBacked'
  <2>1. \A v \in Turns : marker'[v] # "none" => marker[v] # "none"
    BY DEF MarkerIInv, MarkerTypeOK, DeliveryOK, Wait, Go, Completed, Claimed
  <2> QED
    BY <1>2, <2>1, BackedStays DEF MarkerIInv
<1>6. SkippedIsCovered'
  <2>1. at'[d] = "skipped" => key[d] \in Turns /\ marker[key[d]] # "none"
    BY DEF MarkerIInv, MarkerTypeOK, DeliveryOK, Wait, Go, Completed, Claimed
  <2>2. \A e \in Deliveries : turn'[e] = turn[e] /\ (e # d => at'[e] = at[e])
    BY DEF MarkerIInv, MarkerTypeOK, Wait, Go, Completed, Claimed
  <2> QED
    BY <1>2, <2>1, <2>2, MarkerCovers, SkippedStays DEF MarkerIInv
<1> QED
  BY <1>1, <1>3, <1>4, <1>5, <1>6 DEF MarkerIInv

\* The claim: the file was not there, hence no other owner.
LEMMA ClaimIInv ==
    ASSUME MarkerIInv, NEW d \in Deliveries, Claim(d) PROVE MarkerIInv'
<1>1. MarkerTypeOK'
  BY MarkerAssumption DEF MarkerIInv, MarkerTypeOK, Turns, DeliveryOK, Claim, Go, Begin
<1>2. Keeps
  BY DEF MarkerIInv, MarkerTypeOK, DeliveryOK, Keeps, Claim, Go, Begin
<1>3. \A e \in Deliveries : DeliveryOK(e)'
  BY MarkerAssumption DEF MarkerIInv, MarkerTypeOK, Turns, DeliveryOK, Claim, Go, Begin
<1>4. OneOwner'
  BY DEF MarkerIInv, MarkerTypeOK, DeliveryOK, OneOwner, Claim, Go, Begin
<1>5. MarkersBacked'
  <2>1. CASE marker' = marker
    BY <1>2, <2>1, BackedStays DEF MarkerIInv
  <2>2. CASE marker' # marker
    <3>1. role'[d] # "none" /\ key' = key
      BY <2>2 DEF MarkerIInv, MarkerTypeOK, Claim, Begin
    <3>2. \A v \in Turns : v # key[d] => marker'[v] = marker[v]
      BY <2>2 DEF MarkerIInv, MarkerTypeOK, Claim
    <3> QED
      BY <1>2, <3>1, <3>2 DEF MarkerIInv, MarkersBacked, Keeps
  <2> QED
    BY <2>1, <2>2
<1>6. SkippedIsCovered'
  <2>1. at'[d] = "skipped" => key[d] \in Turns /\ marker[key[d]] # "none"
    BY DEF MarkerIInv, MarkerTypeOK, DeliveryOK, Claim, Go, Begin
  <2>2. \A e \in Deliveries : turn'[e] = turn[e] /\ (e # d => at'[e] = at[e])
    BY DEF MarkerIInv, MarkerTypeOK, Claim, Go, Begin
  <2> QED
    BY <1>2, <2>1, <2>2, MarkerCovers, SkippedStays DEF MarkerIInv
<1> QED
  BY <1>1, <1>3, <1>4, <1>5, <1>6 DEF MarkerIInv

\* The body of the marker.
LEMMA WriteClaimIInv ==
    ASSUME MarkerIInv, NEW d \in Deliveries, WriteClaim(d) PROVE MarkerIInv'
<1>1. MarkerTypeOK'
  BY MarkerAssumption DEF MarkerIInv, MarkerTypeOK, Turns, DeliveryOK, WriteClaim, Go
<1>2. Keeps
  BY DEF MarkerIInv, MarkerTypeOK, DeliveryOK, Keeps, WriteClaim, Go
<1>3. \A e \in Deliveries : DeliveryOK(e)'
  BY MarkerAssumption DEF MarkerIInv, MarkerTypeOK, Turns, DeliveryOK, WriteClaim, Go
<1>4. OneOwner'
  BY DEF MarkerIInv, MarkerTypeOK, DeliveryOK, OneOwner, WriteClaim, Go
<1>5. MarkersBacked'
  <2>1. \A v \in Turns : marker'[v] # "none" => marker[v] # "none"
    BY DEF MarkerIInv, MarkerTypeOK, DeliveryOK, WriteClaim, Go
  <2> QED
    BY <1>2, <2>1, BackedStays DEF MarkerIInv
<1>6. SkippedIsCovered'
  <2>1. \A e \in Deliveries : at'[e] = "skipped" => at[e] = "skipped" /\ turn'[e] = turn[e]
    BY DEF MarkerIInv, MarkerTypeOK, WriteClaim, Go
  <2> QED
    BY <1>2, <2>1, SkippedStays DEF MarkerIInv
<1> QED
  BY <1>1, <1>3, <1>4, <1>5, <1>6 DEF MarkerIInv

\* An error gives a claim up and reviews all the same.
LEMMA MarkerErrorIInv ==
    ASSUME MarkerIInv, NEW d \in Deliveries, MarkerError(d) PROVE MarkerIInv'
<1>1. MarkerTypeOK'
  BY MarkerAssumption DEF MarkerIInv, MarkerTypeOK, Turns, DeliveryOK, MarkerError, Go, Begin
<1>2. Keeps
  BY DEF MarkerIInv, MarkerTypeOK, DeliveryOK, Keeps, MarkerError, Go, Begin
<1>3. \A e \in Deliveries : DeliveryOK(e)'
  BY MarkerAssumption DEF MarkerIInv, MarkerTypeOK, Turns, DeliveryOK, MarkerError, Go, Begin
<1>4. OneOwner'
  BY DEF MarkerIInv, MarkerTypeOK, DeliveryOK, OneOwner, MarkerError, Go, Begin
<1>5. MarkersBacked'
  <2>1. \A v \in Turns : marker'[v] # "none" => marker[v] # "none"
    BY DEF MarkerIInv, MarkerTypeOK, DeliveryOK, MarkerError, Go, Begin
  <2> QED
    BY <1>2, <2>1, BackedStays DEF MarkerIInv
<1>6. SkippedIsCovered'
  <2>1. \A e \in Deliveries : at'[e] = "skipped" => at[e] = "skipped" /\ turn'[e] = turn[e]
    BY DEF MarkerIInv, MarkerTypeOK, MarkerError, Go, Begin
  <2> QED
    BY <1>2, <2>1, SkippedStays DEF MarkerIInv
<1> QED
  BY <1>1, <1>3, <1>4, <1>5, <1>6 DEF MarkerIInv

\* A review ends.
LEMMA ReviewIInv ==
    ASSUME MarkerIInv, NEW d \in Deliveries, Review(d) PROVE MarkerIInv'
<1>1. MarkerTypeOK'
  BY MarkerAssumption DEF MarkerIInv, MarkerTypeOK, Turns, DeliveryOK, Review, Go
<1>2. Keeps
  BY DEF MarkerIInv, MarkerTypeOK, DeliveryOK, Keeps, Review, Go
<1>3. \A e \in Deliveries : DeliveryOK(e)'
  BY MarkerAssumption DEF MarkerIInv, MarkerTypeOK, Turns, DeliveryOK, Review, Go
<1>4. OneOwner'
  BY DEF MarkerIInv, MarkerTypeOK, DeliveryOK, OneOwner, Review, Go
<1>5. MarkersBacked'
  <2>1. \A v \in Turns : marker'[v] # "none" => marker[v] # "none"
    BY DEF MarkerIInv, MarkerTypeOK, DeliveryOK, Review, Go
  <2> QED
    BY <1>2, <2>1, BackedStays DEF MarkerIInv
<1>6. SkippedIsCovered'
  <2>1. \A e \in Deliveries : at'[e] = "skipped" => at[e] = "skipped" /\ turn'[e] = turn[e]
    BY DEF MarkerIInv, MarkerTypeOK, Review, Go
  <2> QED
    BY <1>2, <2>1, SkippedStays DEF MarkerIInv
<1> QED
  BY <1>1, <1>3, <1>4, <1>5, <1>6 DEF MarkerIInv

\* The marker says done.
LEMMA CompleteIInv ==
    ASSUME MarkerIInv, NEW d \in Deliveries, Complete(d) PROVE MarkerIInv'
<1>1. MarkerTypeOK'
  BY MarkerAssumption DEF MarkerIInv, MarkerTypeOK, Turns, DeliveryOK, Complete, Go
<1>2. Keeps
  BY DEF MarkerIInv, MarkerTypeOK, DeliveryOK, Keeps, Complete, Go
<1>3. \A e \in Deliveries : DeliveryOK(e)'
  BY MarkerAssumption DEF MarkerIInv, MarkerTypeOK, Turns, DeliveryOK, Complete, Go
<1>4. OneOwner'
  BY DEF MarkerIInv, MarkerTypeOK, DeliveryOK, OneOwner, Complete, Go
<1>5. MarkersBacked'
  <2>1. \A v \in Turns : marker'[v] # "none" => marker[v] # "none"
    BY DEF MarkerIInv, MarkerTypeOK, DeliveryOK, Complete, Go
  <2> QED
    BY <1>2, <2>1, BackedStays DEF MarkerIInv
<1>6. SkippedIsCovered'
  <2>1. \A e \in Deliveries : at'[e] = "skipped" => at[e] = "skipped" /\ turn'[e] = turn[e]
    BY DEF MarkerIInv, MarkerTypeOK, Complete, Go
  <2> QED
    BY <1>2, <2>1, SkippedStays DEF MarkerIInv
<1> QED
  BY <1>1, <1>3, <1>4, <1>5, <1>6 DEF MarkerIInv

\* What the dead claimed stays claimed.
LEMMA DieIInv ==
    ASSUME MarkerIInv, NEW d \in Deliveries, Die(d) PROVE MarkerIInv'
<1>1. MarkerTypeOK'
  BY MarkerAssumption DEF MarkerIInv, MarkerTypeOK, Turns, DeliveryOK, Die, Underway
<1>2. Keeps
  BY DEF MarkerIInv, MarkerTypeOK, DeliveryOK, Keeps, Die, Underway
<1>3. \A e \in Deliveries : DeliveryOK(e)'
  BY MarkerAssumption DEF MarkerIInv, MarkerTypeOK, Turns, DeliveryOK, Die, Underway
<1>4. OneOwner'
  BY DEF MarkerIInv, MarkerTypeOK, DeliveryOK, OneOwner, Die, Underway
<1>5. MarkersBacked'
  <2>1. \A v \in Turns : marker'[v] # "none" => marker[v] # "none"
    BY DEF MarkerIInv, MarkerTypeOK, DeliveryOK, Die, Underway
  <2> QED
    BY <1>2, <2>1, BackedStays DEF MarkerIInv
<1>6. SkippedIsCovered'
  <2>1. \A e \in Deliveries : at'[e] = "skipped" => at[e] = "skipped" /\ turn'[e] = turn[e]
    BY DEF MarkerIInv, MarkerTypeOK, Die, Underway
  <2> QED
    BY <1>2, <2>1, SkippedStays DEF MarkerIInv
<1> QED
  BY <1>1, <1>3, <1>4, <1>5, <1>6 DEF MarkerIInv

\* The daemon's death, another turn, time.
LEMMA MarkerEnvironmentIInv ==
    ASSUME MarkerIInv, DaemonDies \/ EndTurn \/ \E v \in Turns : Age(v)
    PROVE  MarkerIInv'
<1>1. MarkerTypeOK'
  <2>1. CASE DaemonDies
    BY <2>1 DEF MarkerIInv, MarkerTypeOK, DaemonDies
  <2>2. CASE EndTurn
    BY <2>2, MarkerAssumption DEF MarkerIInv, MarkerTypeOK, EndTurn
  <2>3. CASE \E v \in Turns : Age(v)
    BY <2>3 DEF MarkerIInv, MarkerTypeOK, Age
  <2> QED
    BY <2>1, <2>2, <2>3
<1>2. Keeps /\ marker' = marker /\ UNCHANGED <<turn, key, role>>
  BY DEF Keeps, DaemonDies, EndTurn, Age
<1>3. \A e \in Deliveries : DeliveryOK(e)'
  BY MarkerAssumption, <1>2 DEF MarkerIInv, MarkerTypeOK, DeliveryOK, DaemonDies, Underway, EndTurn, Age
<1>4. OneOwner'
  BY <1>2 DEF MarkerIInv, OneOwner
<1>5. MarkersBacked'
  BY <1>2, BackedStays DEF MarkerIInv
<1>6. SkippedIsCovered'
  <2>1. \A e \in Deliveries : at'[e] = "skipped" => at[e] = "skipped"
    BY DEF DaemonDies, EndTurn, Age
  <2> QED
    BY <1>2, <2>1, SkippedStays DEF MarkerIInv
<1> QED
  BY <1>1, <1>3, <1>4, <1>5, <1>6 DEF MarkerIInv

\* Every step preserves the inductive invariant.
LEMMA NextMarkerIInv == MarkerIInv /\ [MarkerNext]_markerVars => MarkerIInv'
<1> SUFFICES ASSUME MarkerIInv, [MarkerNext]_markerVars PROVE MarkerIInv'
  OBVIOUS
<1>1. CASE UNCHANGED markerVars
  BY <1>1 DEF markerVars, MarkerIInv, MarkerTypeOK, DeliveryOK, OneOwner, MarkersBacked, SkippedIsCovered, Covers
<1>2. CASE MarkerNext
  BY <1>2, DeliverIInv, DeriveKeyIInv, LookIInv, ProbeIInv, WaitIInv, ClaimIInv,
     WriteClaimIInv, MarkerErrorIInv, ReviewIInv, CompleteIInv, DieIInv, MarkerEnvironmentIInv
  DEF MarkerNext, Advance
<1> QED
  BY <1>1, <1>2

\* The inductive invariant holds in every reachable state.
THEOREM MarkerInvariant == MarkerSpec => []MarkerIInv
<1> QED
  BY InitMarkerIInv, NextMarkerIInv, PTL DEF MarkerSpec

\* Every variable keeps its type, whatever transcripts cannot be read.
THEOREM MarkerTypeCorrect == MarkerSpec => []MarkerTypeOK
<1>1. MarkerIInv => MarkerTypeOK
  BY DEF MarkerIInv
<1> QED
  BY <1>1, MarkerInvariant, PTL

\* A turn has one owner, however many processes the host fires and whenever
\* they die.  (claimMarker)
THEOREM StopIsReviewedOnce == MarkerSpec => []OneOwner
<1>1. MarkerIInv => OneOwner
  BY DEF MarkerIInv
<1> QED
  BY <1>1, MarkerInvariant, PTL

\* Every skip has a reviewer, whatever the file system refuses.
\* (claimStopMarker)
THEOREM SkipsAreCovered == MarkerSpec => []SkippedIsCovered
<1>1. MarkerIInv => SkippedIsCovered
  BY DEF MarkerIInv
<1> QED
  BY <1>1, MarkerInvariant, PTL
=============================================================================

------------------------- MODULE ChannelServerProofs -------------------------
(***************************************************************************)
(* Proofs about ChannelServer: type correctness, that jobs belong to the   *)
(* tip of their channel, and that the ledger of accepted shares is kept,   *)
(* for every feed of templates and prev-hashes.                            *)
(***************************************************************************)
EXTENDS ChannelServer, Integers, FiniteSetTheorems, TLAPS

-----------------------------------------------------------------------------
(* The steps of the server, by operation.                                  *)

Step(c) ==
  \/ UpdateChannel(c) \/ OnNewTemplate(c) \/ OnSetNewPrevHash(c)
  \/ OnSetCustomMiningJob(c) \/ OnGroupChannelJob(c)
  \/ \E s \in SharesFor(c) : ValidateShare(c, s)
  \/ GetJob(c) \/ SkipTemplate(c) \/ Panic(c)

LEMMA StepCases == Next => UNCHANGED server /\ \E c \in Channels : Step(c)
  BY DEF Next, Step, ExtendedCall, StandardCall, GroupCall

LEMMA FeedLength == Len(Feed) \in Nat
  BY FeedAssumption

LEMMA SourceType ==
  /\ \A n, on \in Nat : Source(n, on) \in Sources
  /\ \A t \in Nat : TemplateOf(t) \in Sources
  /\ NoJob \in [src: Sources, status: Statuses]
  BY DEF Source, TemplateOf, Sources, NoJob, Job, Statuses

LEMMA StoredType ==
  ASSUME NEW js \in [Ids -> [src: Sources, status: Statuses]],
         NEW i \in Ids, NEW src \in Sources, NEW future \in BOOLEAN
  PROVE  /\ Stored(js, i, src, future) \in [Ids -> [src: Sources, status: Statuses]]
         /\ \A k \in Ids : k # i =>
              (Stored(js, i, src, future)[k].status = "none" <=> js[k].status = "none")
<1>1. \A k \in Ids : js[k] \in [src: Sources, status: Statuses]
  OBVIOUS
<1>2. \A x \in Sources, st \in Statuses : Job(x, st) \in [src: Sources, status: Statuses]
  BY DEF Job
<1>3. {"future", "active", "past"} \subseteq Statuses
  BY DEF Statuses
<1>4. \A k \in Ids : Stored(js, i, src, future)[k] \in [src: Sources, status: Statuses]
  BY <1>1, <1>2, <1>3 DEF Stored
<1>5. Stored(js, i, src, future) = [k \in Ids |-> Stored(js, i, src, future)[k]]
  BY DEF Stored
<1>6. Stored(js, i, src, future) \in [Ids -> [src: Sources, status: Statuses]]
  BY <1>4, <1>5
<1>7. \A k \in Ids : k # i =>
        (Stored(js, i, src, future)[k].status = "none" <=> js[k].status = "none")
  BY DEF Stored, Job
<1> QED BY <1>6, <1>7

LEMMA ActivatedType ==
  ASSUME NEW js \in [Ids -> [src: Sources, status: Statuses]], NEW t
  PROVE  /\ Activated(js, t) \in [Ids -> [src: Sources, status: Statuses]]
         /\ \A k \in Ids : js[k].status = "none" => Activated(js, t)[k].status = "none"
<1>1. \A k \in Ids : js[k] \in [src: Sources, status: Statuses]
  OBVIOUS
<1>2. \A x \in Sources, st \in Statuses : Job(x, st) \in [src: Sources, status: Statuses]
  BY DEF Job
<1>3. {"stale", "active"} \subseteq Statuses
  BY DEF Statuses
<1>4. \A k \in Ids : Activated(js, t)[k] \in [src: Sources, status: Statuses]
  BY <1>1, <1>2, <1>3, SourceType DEF Activated
<1>5. Activated(js, t) = [k \in Ids |-> Activated(js, t)[k]]
  BY DEF Activated
<1>6. Activated(js, t) \in [Ids -> [src: Sources, status: Statuses]]
  BY <1>4, <1>5
<1>7. \A k \in Ids : js[k].status = "none" => Activated(js, t)[k].status = "none"
  BY DEF Activated
<1> QED BY <1>6, <1>7

LEMMA JobsType ==
  ASSUME NEW c \in Channels, NEW js \in [Ids -> [src: Sources, status: Statuses]],
         NEW m \in Jobs(c, js)
  PROVE  /\ m.id \in Ids /\ m.src = js[m.id].src /\ m.src \in Sources
         /\ m \in [id: 0 .. MaxJobs, src: Sources, future: BOOLEAN]
         /\ m.future => js[m.id].status = "future"
         /\ ~m.future => js[m.id].status \in {"active", "past"}
<1>1. PICK i \in Ids : /\ js[i].status \in {"future", "active", "past"}
                       /\ m = [id |-> i, src |-> js[i].src, future |-> js[i].status = "future"]
  BY ChannelAssumption DEF Jobs, ExtendedJobs, StandardJobs, GroupJobs, ExtendedJob, StandardJob
<1>2. m.id = i /\ m.src = js[i].src /\ js[i].src \in Sources
  BY <1>1
<1>3. m.future \in BOOLEAN /\ (m.future <=> js[i].status = "future")
  BY <1>1
<1>4. i \in 0 .. MaxJobs
  BY BoundAssumption DEF Ids
<1>5. m \in [id: 0 .. MaxJobs, src: Sources, future: BOOLEAN]
  BY <1>1, <1>2, <1>4
<1> QED BY <1>1, <1>2, <1>3, <1>5

\* A job added under an id: what AddJob does to the variables it changes.
LEMMA AddJobType ==
  ASSUME TypeOK, NEW c \in Channels, NEW i \in Ids, NEW src \in Sources, NEW future \in BOOLEAN,
         AddJob(c, i, src, future)
  PROVE  /\ job' \in [Channels -> [Ids -> [src: Sources, status: Statuses]]]
         /\ \A d \in Channels \ {c} : job'[d] = job[d]
         /\ \A k \in Ids : k # i => (job'[c][k].status = "none" <=> job[c][k].status = "none")
         /\ job'[c] = Stored(job[c], i, src, future)
         /\ made' \in [Channels -> SUBSET [id: Ids, src: Sources]]
<1>1. job[c] \in [Ids -> [src: Sources, status: Statuses]] /\ DOMAIN job = Channels
  BY DEF TypeOK
<1>2. job' = [job EXCEPT ![c] = Stored(job[c], i, src, future)]
  BY DEF AddJob
<1>3. job'[c] = Stored(job[c], i, src, future) /\ \A d \in Channels \ {c} : job'[d] = job[d]
  BY <1>1, <1>2
<1>4. job'[c] \in [Ids -> [src: Sources, status: Statuses]]
  BY <1>1, <1>3, StoredType
<1>5. job' \in [Channels -> [Ids -> [src: Sources, status: Statuses]]]
  BY <1>2, <1>4, <1>3 DEF TypeOK
<1>6. made' = [made EXCEPT ![c] = @ \cup {Known(m) : m \in Jobs(c, job'[c])}]
  BY DEF AddJob
<1>7. {Known(m) : m \in Jobs(c, job'[c])} \subseteq [id: Ids, src: Sources]
  BY <1>4, JobsType DEF Known
<1>8. made' \in [Channels -> SUBSET [id: Ids, src: Sources]]
  BY <1>6, <1>7 DEF TypeOK
<1>9. \A k \in Ids : k # i => (job'[c][k].status = "none" <=> job[c][k].status = "none")
  <2>1. \A k \in Ids : k # i =>
          (Stored(job[c], i, src, future)[k].status = "none" <=> job[c][k].status = "none")
    BY <1>1, StoredType
  <2> QED BY <1>3, <2>1
<1> QED BY <1>3, <1>5, <1>8, <1>9

-----------------------------------------------------------------------------
(* Type correctness.                                                       *)

\* In the initial state no message was handed on and every store is empty.
LEMMA TypeInit == Init => TypeOK
<1> SUFFICES ASSUME Init PROVE TypeOK
  OBVIOUS
<1>1. 0 \in 0 .. Len(Feed) /\ 1 \in 1 .. MaxJobs + 1 /\ 0 \in 0 .. MaxJobs
  BY FeedLength, BoundAssumption
<1>2. life = [c \in Channels |-> IF c \in server.open THEN "fed" ELSE "none"] /\ custom \in Nat
  BY DEF Init
<1>3. life \in [Channels -> {"fed", "left", "poisoned", "none"}]
  BY <1>2
<1>4. [i \in Ids |-> NoJob] \in [Ids -> [src: Sources, status: Statuses]]
  BY SourceType
<1>5. job \in [Channels -> [Ids -> [src: Sources, status: Statuses]]]
  BY <1>4 DEF Init
<1>6. held \in [job: [id: 0 .. MaxJobs, src: Sources, future: BOOLEAN], tip: Nat]
  BY <1>1, SourceType DEF Init, NoSnapshot
<1>7. \A c \in Channels \ Followers : \A i \in Ids : i >= nextId[c] => job[c][i].status = "none"
  BY DEF Init, NoJob, Job
<1> QED BY <1>1, <1>2, <1>3, <1>5, <1>6, <1>7 DEF Init, TypeOK

\* What a message of the feed changes besides the store.
LEMMA RelayedType ==
  ASSUME TypeOK, NEW c \in Channels, Relayed(c)
  PROVE  /\ pos' \in [Channels -> 0 .. Len(Feed)]
         /\ pos'[c] \in Places /\ pos'[c] = pos[c] + 1
         /\ \A d \in Channels \ {c} : pos'[d] = pos[d]
  BY FeedLength DEF TypeOK, Relayed, Places

LEMMA TypeTemplate ==
  ASSUME TypeOK, UNCHANGED server, NEW c \in Channels, OnNewTemplate(c)
  PROVE  TypeOK'
<1>1. pos' \in [Channels -> 0 .. Len(Feed)] /\ IsTemplate(pos'[c]) /\ pos'[c] \in Places
  BY RelayedType DEF OnNewTemplate
<1>2. /\ UNCHANGED <<tip, target, seen, held, astray, custom>>
      /\ UNCHANGED <<credited, accepted>>
  BY DEF OnNewTemplate, shares
<1>3. CASE Leave(c) /\ UNCHANGED <<nextId, job, made>>
  <2>1. life' \in [Channels -> {"fed", "left", "poisoned", "none"}]
    BY <1>3 DEF Leave, TypeOK
  <2> QED BY <1>1, <1>2, <1>3, <2>1 DEF TypeOK
<1>4. CASE /\ nextId[c] \in Ids
           /\ AddJob(c, nextId[c], TemplateOf(pos'[c]), Feed[pos'[c]].future)
           /\ nextId' = [nextId EXCEPT ![c] = @ + 1]
           /\ UNCHANGED life
  <2>1. pos'[c] \in Nat /\ TemplateOf(pos'[c]) \in Sources
    BY <1>1, SourceType DEF Places
  <2>2. Feed[pos'[c]].future \in BOOLEAN
    BY <1>1, FeedAssumption DEF IsTemplate, Places
  <2>3. /\ job' \in [Channels -> [Ids -> [src: Sources, status: Statuses]]]
        /\ \A d \in Channels \ {c} : job'[d] = job[d]
        /\ \A k \in Ids : k # nextId[c] => (job'[c][k].status = "none" <=> job[c][k].status = "none")
        /\ made' \in [Channels -> SUBSET [id: Ids, src: Sources]]
    BY <1>4, <2>1, <2>2, AddJobType
  <2>4. nextId' \in [Channels -> 1 .. MaxJobs + 1]
    BY <1>4, BoundAssumption DEF TypeOK, Ids
  <2>5. ASSUME NEW d \in Channels \ Followers, NEW i \in Ids, i >= nextId'[d]
        PROVE  job'[d][i].status = "none"
    <3>1. CASE d = c
      <4>1. nextId[c] \in Int /\ nextId'[c] = nextId[c] + 1 /\ i \in Int
        BY <1>4 DEF TypeOK, Ids
      <4>2. i >= nextId[c] /\ i # nextId[c]
        BY <4>1, <2>5, <3>1
      <4>3. job[c][i].status = "none"
        BY <4>2, <2>5, <3>1 DEF TypeOK
      <4> QED BY <2>3, <3>1, <4>2, <4>3
    <3>2. CASE d # c
      BY <1>4, <2>3, <2>5, <3>2 DEF TypeOK
    <3> QED BY <3>1, <3>2
  <2> QED BY <1>1, <1>2, <1>4, <2>3, <2>4, <2>5 DEF TypeOK
<1> QED BY <1>3, <1>4 DEF OnNewTemplate

LEMMA TypePrevHash ==
  ASSUME TypeOK, UNCHANGED server, NEW c \in Channels, OnSetNewPrevHash(c)
  PROVE  TypeOK'
<1>1. /\ pos' \in [Channels -> 0 .. Len(Feed)] /\ IsPrevHash(pos'[c])
      /\ pos'[c] \in Places /\ pos'[c] \in 0 .. Len(Feed)
  BY RelayedType, FeedLength DEF OnSetNewPrevHash, Places
<1>2. /\ UNCHANGED <<nextId, target, held, made, astray, custom>>
      /\ UNCHANGED <<credited, accepted>>
  BY DEF OnSetNewPrevHash, shares
<1>3. CASE Leave(c) /\ UNCHANGED <<tip, job, seen>>
  <2>1. life' \in [Channels -> {"fed", "left", "poisoned", "none"}]
    BY <1>3 DEF Leave, TypeOK
  <2> QED BY <1>1, <1>2, <1>3, <2>1 DEF TypeOK
<1>4. ASSUME NEW i, job' = [job EXCEPT ![c] = Activated(@, i)],
             tip' = [tip EXCEPT ![c] = pos'[c]], seen' = [seen EXCEPT ![c] = {}], UNCHANGED life
      PROVE  TypeOK'
  <2>2. job[c] \in [Ids -> [src: Sources, status: Statuses]]
    BY DEF TypeOK
  <2>3. /\ Activated(job[c], i) \in [Ids -> [src: Sources, status: Statuses]]
        /\ \A k \in Ids : job[c][k].status = "none" =>
             Activated(job[c], i)[k].status = "none"
    BY <2>2, ActivatedType
  <2>4. job' \in [Channels -> [Ids -> [src: Sources, status: Statuses]]]
    BY <1>4, <2>3 DEF TypeOK
  <2>5. \A d \in Channels : \A k \in Ids : job[d][k].status = "none" => job'[d][k].status = "none"
    BY <1>4, <2>3 DEF TypeOK
  <2>6. tip' \in [Channels -> 0 .. Len(Feed)] /\ seen' \in [Channels -> SUBSET Works]
    BY <1>1, <1>4 DEF TypeOK
  <2>7. \A d \in Channels \ Followers : \A k \in Ids : k >= nextId'[d] => job'[d][k].status = "none"
    BY <1>2, <2>5 DEF TypeOK
  <2> QED BY <1>1, <1>2, <1>4, <2>4, <2>6, <2>7 DEF TypeOK
<1> QED BY <1>3, <1>4 DEF OnSetNewPrevHash

LEMMA TypeHand ==
  ASSUME TypeOK, NEW c \in Channels, NEW i \in Ids, NEW src \in Sources, NEW future \in BOOLEAN,
         NEW on, Hand(c, i, src, future, on)
  PROVE  /\ AddJob(c, i, src, future)
         /\ astray' \in [Channels -> SUBSET Sources]
         /\ astray[c] \subseteq astray'[c] /\ (src \notin astray'[c] => on = tip[c])
         /\ \A d \in Channels \ {c} : astray'[d] = astray[d]
         /\ astray'[c] \subseteq astray[c] \cup {src}
<1>1. astray[c] \cup {src} \in SUBSET Sources /\ astray \in [Channels -> SUBSET Sources]
  BY DEF TypeOK
<1>2. astray' = [astray EXCEPT ![c] = IF on = tip[c] THEN astray[c] ELSE astray[c] \cup {src}]
  BY DEF Hand
<1> QED BY <1>1, <1>2 DEF Hand

LEMMA TypeCustom ==
  ASSUME TypeOK, UNCHANGED server, NEW c \in Channels, OnSetCustomMiningJob(c)
  PROVE  TypeOK'
<1>1. /\ nextId[c] \in Ids /\ custom' = custom + 1
      /\ nextId' = [nextId EXCEPT ![c] = @ + 1]
      /\ UNCHANGED <<pos, life, tip, target, seen, held>>
      /\ UNCHANGED <<credited, accepted>>
  BY DEF OnSetCustomMiningJob, shares
<1>2. PICK on \in Places : Hand(c, nextId[c], Source(custom', on), FALSE, on)
  BY DEF OnSetCustomMiningJob
<1>3. Source(custom', on) \in Sources /\ custom' \in Nat
  BY <1>1, SourceType DEF TypeOK, Places
<1>4. /\ job' \in [Channels -> [Ids -> [src: Sources, status: Statuses]]]
      /\ \A d \in Channels \ {c} : job'[d] = job[d]
      /\ \A k \in Ids : k # nextId[c] => (job'[c][k].status = "none" <=> job[c][k].status = "none")
      /\ made' \in [Channels -> SUBSET [id: Ids, src: Sources]]
      /\ astray' \in [Channels -> SUBSET Sources]
  <2> DEFINE src == Source(custom', on)
  <2>1. src \in Sources /\ nextId[c] \in Ids /\ Hand(c, nextId[c], src, FALSE, on)
    BY <1>1, <1>2, <1>3
  <2> HIDE DEF src
  <2>2. AddJob(c, nextId[c], src, FALSE) /\ astray' \in [Channels -> SUBSET Sources]
    BY <2>1, TypeHand
  <2> QED BY <2>1, <2>2, AddJobType
<1>5. nextId' \in [Channels -> 1 .. MaxJobs + 1]
  BY <1>1, BoundAssumption DEF TypeOK, Ids
<1>6. ASSUME NEW d \in Channels \ Followers, NEW i \in Ids, i >= nextId'[d]
      PROVE  job'[d][i].status = "none"
  <2>1. CASE d = c
    <3>1. nextId[c] \in Int /\ nextId'[c] = nextId[c] + 1 /\ i \in Int
      BY <1>1 DEF TypeOK, Ids
    <3>2. i >= nextId[c] /\ i # nextId[c]
      BY <3>1, <1>6, <2>1
    <3> QED BY <1>4, <1>6, <2>1, <3>2 DEF TypeOK
  <2>2. CASE d # c
    BY <1>1, <1>4, <1>6, <2>2 DEF TypeOK
  <2> QED BY <2>1, <2>2
<1> QED BY <1>1, <1>3, <1>4, <1>5, <1>6 DEF TypeOK

LEMMA TypeGroupJob ==
  ASSUME TypeOK, UNCHANGED server, NEW c \in Channels, OnGroupChannelJob(c)
  PROVE  TypeOK'
<1>1. /\ c \in Followers /\ held.job.id \in Ids
      /\ UNCHANGED <<pos, tip, nextId, target, seen, held, custom>>
      /\ UNCHANGED <<credited, accepted>>
  BY DEF OnGroupChannelJob, shares
<1>2. held.job.src \in Sources /\ held.job.future \in BOOLEAN
  BY DEF TypeOK
<1>3. CASE Hand(c, held.job.id, held.job.src, held.job.future, held.tip) /\ UNCHANGED life
  <2>1. /\ job' \in [Channels -> [Ids -> [src: Sources, status: Statuses]]]
        /\ \A d \in Channels \ {c} : job'[d] = job[d]
        /\ made' \in [Channels -> SUBSET [id: Ids, src: Sources]]
        /\ astray' \in [Channels -> SUBSET Sources]
    BY <1>1, <1>2, <1>3, TypeHand, AddJobType
  <2>2. ASSUME NEW d \in Channels \ Followers, NEW i \in Ids, i >= nextId'[d]
        PROVE  job'[d][i].status = "none"
    <3>1. job'[d] = job[d] /\ nextId' = nextId
      BY <1>1, <2>1
    <3> QED BY <3>1, <2>2 DEF TypeOK
  <2> QED BY <1>1, <1>3, <2>1, <2>2 DEF TypeOK
<1>4. CASE Leave(c) /\ UNCHANGED <<job, made, astray>>
  <2>1. life' \in [Channels -> {"fed", "left", "poisoned", "none"}]
    BY <1>4 DEF Leave, TypeOK
  <2> QED BY <1>1, <1>4, <2>1 DEF TypeOK
<1> QED BY <1>3, <1>4 DEF OnGroupChannelJob

\* A share of a client is a record whose work is typed.
LEMMA ShareType ==
  ASSUME TypeOK, NEW c \in Channels, NEW s \in SharesFor(c)
  PROVE  Work(s) \in Works /\ Work(s).tip = s.tip
<1>1. PICK m \in made[c], p \in {q \in 1 .. pos[c] : IsPrevHash(q)}, nonce \in Nonces,
           form \in {"good", "malformed", "unconvertible"} : s = Share(m.id, m.src, p, nonce, form)
  BY DEF SharesFor
<1>2. s.src \in Sources /\ s.tip \in Nat /\ s.nonce \in Nonces
  BY <1>1, FeedLength DEF TypeOK, Share
<1> QED BY <1>2 DEF Work, Works

LEMMA TypeShare ==
  ASSUME TypeOK, UNCHANGED server, NEW c \in Channels, NEW s \in SharesFor(c), ValidateShare(c, s)
  PROVE  TypeOK'
<1>1. UNCHANGED <<pos, life, tip, nextId, job, target, held, made, astray, custom>>
  BY DEF ValidateShare
<1>2. \/ /\ seen'     = [seen EXCEPT ![c] = @ \cup {Work(s)}]
         /\ credited' = [credited EXCEPT ![c] = @ \cup {Work(s)}]
         /\ accepted' = [accepted EXCEPT ![c] = @ + 1]
      \/ /\ seen' = [seen EXCEPT ![c] = @ \cup {Work(s)}]
         /\ UNCHANGED <<credited, accepted>>
  BY DEF ValidateShare, shares
<1>3. Work(s) \in Works
  BY ShareType
<1>4. seen[c] \cup {Work(s)} \in SUBSET Works /\ credited[c] \cup {Work(s)} \in SUBSET Works
  BY <1>3 DEF TypeOK
<1>5. seen' \in [Channels -> SUBSET Works]
  BY <1>2, <1>4 DEF TypeOK
<1>6. credited' \in [Channels -> SUBSET Works]
  BY <1>2, <1>4 DEF TypeOK
<1>7. accepted' \in [Channels -> Nat]
  <2>1. accepted[c] + 1 \in Nat /\ accepted \in [Channels -> Nat]
    BY DEF TypeOK
  <2>2. accepted' = [accepted EXCEPT ![c] = accepted[c] + 1] \/ accepted' = accepted
    BY <1>2
  <2> QED BY <2>1, <2>2
<1> QED BY <1>1, <1>5, <1>6, <1>7 DEF TypeOK

LEMMA TypeOther ==
  ASSUME TypeOK, UNCHANGED server, NEW c \in Channels, UpdateChannel(c) \/ GetJob(c) \/ SkipTemplate(c) \/ Panic(c)
  PROVE  TypeOK'
<1>1. CASE UpdateChannel(c)
  <2>1. target' \in [Channels -> {"easy", "hard"}]
    BY <1>1 DEF UpdateChannel, TypeOK
  <2> QED BY <1>1, <2>1 DEF UpdateChannel, TypeOK, shares
<1>2. CASE GetJob(c)
  <2>1. PICK m \in Jobs(c, job[c]) : held' = [job |-> m, tip |-> IF m.src.on = 0 THEN tip[c] ELSE m.src.on]
    BY <1>2 DEF GetJob
  <2>2. m \in [id: 0 .. MaxJobs, src: Sources, future: BOOLEAN]
    <3>1. job[c] \in [Ids -> [src: Sources, status: Statuses]]
      BY DEF TypeOK
    <3> QED BY <3>1, JobsType
  <2>3. held' \in [job: [id: 0 .. MaxJobs, src: Sources, future: BOOLEAN], tip: Nat]
    <3>1. m.src.on \in Nat /\ tip[c] \in Nat
      BY <2>2, FeedLength DEF TypeOK, Sources
    <3> QED BY <2>1, <2>2, <3>1
  <2> QED BY <1>2, <2>3 DEF GetJob, TypeOK, shares
<1>3. CASE SkipTemplate(c)
  <2>1. pos' \in [Channels -> 0 .. Len(Feed)]
    BY <1>3, RelayedType DEF SkipTemplate
  <2> QED BY <1>3, <2>1 DEF SkipTemplate, TypeOK, shares
<1>4. CASE Panic(c)
  <2>1. /\ life' \in [Channels -> {"fed", "left", "poisoned", "none"}]
        /\ target' \in [Channels -> {"easy", "hard"}]
        /\ seen' \in [Channels -> SUBSET Works]
        /\ made' \in [Channels -> SUBSET [id: Ids, src: Sources]]
        /\ astray' \in [Channels -> SUBSET Sources]
    BY <1>4 DEF Panic, TypeOK
  <2>2. 1 \in 1 .. MaxJobs + 1
    BY BoundAssumption
  <2>3. nextId' \in [Channels -> 1 .. MaxJobs + 1]
    BY <1>4, <2>2 DEF Panic, TypeOK
  <2>4. [i \in Ids |-> NoJob] \in [Ids -> [src: Sources, status: Statuses]]
    BY SourceType
  <2>5. job' \in [Channels -> [Ids -> [src: Sources, status: Statuses]]]
    BY <1>4, <2>4 DEF Panic, TypeOK
  <2>6. NoJob.status = "none"
    BY DEF NoJob, Job
  <2>7. \A d \in Channels \ Followers : \A i \in Ids : i >= nextId'[d] => job'[d][i].status = "none"
    BY <1>4, <2>6 DEF Panic, TypeOK
  <2> QED BY <1>4, <2>1, <2>3, <2>5, <2>7 DEF Panic, TypeOK, shares
<1> QED BY <1>1, <1>2, <1>3, <1>4

\* Every call of every channel keeps the type invariant.
LEMMA TypeStep == TypeOK /\ [Next]_vars => TypeOK'
<1> SUFFICES ASSUME TypeOK, [Next]_vars PROVE TypeOK'
  OBVIOUS
<1>1. CASE UNCHANGED vars
  BY <1>1 DEF TypeOK, vars
<1>2. CASE Next
  <2>1. PICK c \in Channels : Step(c)
    BY <1>2, StepCases
  <2>2. UNCHANGED server
    BY <1>2, StepCases
  <2> QED BY <2>1, <2>2, TypeTemplate, TypePrevHash, TypeCustom, TypeGroupJob, TypeShare, TypeOther DEF Step
<1> QED BY <1>1, <1>2

\* The channel server is typed, and no store holds a job under an id that its
\* factory has still to give out: for every feed, set of channels and bounds.
THEOREM ServerTypeCorrect == Spec => []TypeOK
<1>1. Init => TypeOK
  BY TypeInit
<1>2. TypeOK /\ [Next]_vars => TypeOK'
  BY TypeStep
<1> QED BY <1>1, <1>2, PTL DEF Spec

-----------------------------------------------------------------------------
(* Jobs belong to the tip of their channel.                                *)

\* A future job waits for the prev-hash of its template.
FutureSource(src) == src.on = 0 /\ IsTemplate(src.n) /\ Feed[src.n].future

\* A channel is at the last prev-hash it was handed, unless a call of its failed.
TipIsLast ==
  \A c \in Channels :
    /\ tip[c] <= pos[c]
    /\ tip[c] # 0 => IsPrevHash(tip[c])
    /\ life[c] = "fed" => \A q \in Places : q > tip[c] /\ q <= pos[c] => ~IsPrevHash(q)

FutureJobsWait ==
  \A c \in Channels, i \in Ids : job[c][i].status = "future" => FutureSource(job[c][i].src)

\* What an extended channel is handed at another tip is custom work.
AstrayIsCustom == \A c \in Channels \ Followers : \A src \in astray[c] : src.on # 0

\* The snapshot the program holds is of a job made for the tip it was taken at.
HeldBelongs ==
  held.job.id \in Ids =>
    IF held.job.future THEN FutureSource(held.job.src) ELSE For(held.job.src, held.tip)

JobsInv == TypeOK /\ TipIsLast /\ FutureJobsWait /\ AstrayIsCustom /\ HeldBelongs /\ JobsBelongToTip

Belongs == TipIsLast /\ FutureJobsWait /\ AstrayIsCustom /\ HeldBelongs /\ JobsBelongToTip

\* What the store keeps when a job is added to it.
LEMMA StoredBelongs ==
  ASSUME NEW js \in [Ids -> [src: Sources, status: Statuses]],
         NEW i \in Ids, NEW src \in Sources, NEW future \in BOOLEAN, NEW p, NEW away,
         \A k \in Ids : js[k].status = "future" => FutureSource(js[k].src),
         \A k \in Ids : js[k].status \in {"active", "past"} /\ js[k].src \notin away => For(js[k].src, p),
         future => FutureSource(src),
         ~future /\ src \notin away => For(src, p)
  PROVE  LET new == Stored(js, i, src, future) IN
         /\ \A k \in Ids : new[k].status = "future" => FutureSource(new[k].src)
         /\ \A k \in Ids : new[k].status \in {"active", "past"} /\ new[k].src \notin away => For(new[k].src, p)
<1> DEFINE new == Stored(js, i, src, future)
<1>1. new[i] = [src |-> src, status |-> IF future THEN "future" ELSE "active"]
  BY DEF Stored, Job
<1>2. \A k \in Ids : k # i =>
        \/ new[k] = js[k]
        \/ js[k].status = "active" /\ new[k].src = js[k].src /\ new[k].status = "past"
  BY DEF Stored, Job
<1> HIDE DEF new
<1>3. ASSUME NEW k \in Ids, new[k].status = "future" PROVE FutureSource(new[k].src)
  <2>1. CASE k = i
    <3>1. future /\ new[k].src = src
      BY <1>1, <1>3, <2>1
    <3> QED BY <3>1
  <2>2. CASE k # i
    <3>1. new[k] = js[k]
      BY <1>2, <1>3, <2>2
    <3> QED BY <1>3, <3>1
  <2> QED BY <2>1, <2>2
<1>4. ASSUME NEW k \in Ids, new[k].status \in {"active", "past"}, new[k].src \notin away PROVE For(new[k].src, p)
  <2>1. CASE k = i
    <3>1. ~future /\ new[k].src = src
      BY <1>1, <1>4, <2>1
    <3> QED BY <1>4, <3>1
  <2>2. CASE k # i
    <3>1. new[k].src = js[k].src /\ js[k].status \in {"active", "past"}
      BY <1>2, <1>4, <2>2
    <3> QED BY <1>4, <3>1
  <2> QED BY <2>1, <2>2
<1> QED BY <1>3, <1>4 DEF new

\* What a prev-hash leaves in the store: the future job of its template.
LEMMA ActivatedBelongs ==
  ASSUME NEW js \in [Ids -> [src: Sources, status: Statuses]], NEW p \in Places, IsPrevHash(p), NEW i,
         \A k \in Ids : js[k].status = "future" => FutureSource(js[k].src),
         i \in Ids => js[i].src = TemplateOf(Feed[p].template)
  PROVE  LET new == Activated(js, i) IN
         /\ \A k \in Ids : new[k].status = "future" => FutureSource(new[k].src)
         /\ \A k \in Ids : new[k].status \in {"active", "past"} => For(new[k].src, p)
<1> DEFINE t   == Feed[p].template
           new == Activated(js, i)
<1>1. \A k \in Ids :
        \/ /\ js[k].status = "future" /\ js[k].src = TemplateOf(t)
           /\ new[k] = [src |-> js[k].src, status |-> "active"]
        \/ new[k].status \in {"none", "stale"}
  BY DEF Activated, Job, NoJob, Statuses
<1>2. ASSUME FutureSource(TemplateOf(t)) PROVE For(TemplateOf(t), p)
  <2>1. TemplateOf(t).n = t /\ TemplateOf(t).on = 0
    BY DEF TemplateOf, Source
  <2>2. Feed[t].future /\ BuildsOn(t, p)
    BY <1>2, <2>1 DEF FutureSource, BuildsOn
  <2> QED BY <2>1, <2>2 DEF For
<1>3. ASSUME NEW k \in Ids, new[k].status \in {"future", "active", "past"}
      PROVE  /\ new[k].status = "active" /\ new[k].src = TemplateOf(t)
             /\ FutureSource(TemplateOf(t))
  <2>1. /\ js[k].status = "future" /\ js[k].src = TemplateOf(t)
        /\ new[k] = [src |-> js[k].src, status |-> "active"]
    BY <1>1, <1>3
  <2> QED BY <2>1
<1>4. \A k \in Ids : new[k].status = "future" => FutureSource(new[k].src)
  BY <1>3
<1>5. ASSUME NEW k \in Ids, new[k].status \in {"active", "past"} PROVE For(new[k].src, p)
  BY <1>2, <1>3, <1>5
<1> QED BY <1>4, <1>5

LEMMA TemplateIsNoPrevHash ==
  ASSUME NEW t, IsTemplate(t)
  PROVE  ~IsPrevHash(t)
  BY DEF IsTemplate, IsPrevHash

\* A template that is not a future one builds on the tip of a channel that was
\* handed every message before it.
LEMMA TemplateBuildsOnTip ==
  ASSUME TypeOK, TipIsLast, NEW c \in Channels, Relayed(c), IsTemplate(pos'[c]),
         ~Feed[pos'[c]].future, tip[c] # 0
  PROVE  For(TemplateOf(pos'[c]), tip[c])
<1>1. pos'[c] = pos[c] + 1 /\ pos[c] \in Nat /\ tip[c] \in Nat /\ life[c] = "fed"
  BY RelayedType, FeedLength DEF TypeOK, Relayed
<1>2. IsPrevHash(tip[c]) /\ tip[c] < pos'[c]
  BY <1>1 DEF TipIsLast
<1>3. ASSUME NEW q \in tip[c] + 1 .. pos'[c] PROVE ~IsPrevHash(q)
  <2>1. CASE q = pos'[c]
    BY <2>1, TemplateIsNoPrevHash
  <2>2. CASE q # pos'[c]
    <3>1. q > tip[c] /\ q <= pos[c]
      BY <1>1, <2>2
    <3>2. q \in Places => ~IsPrevHash(q)
      BY <1>1, <3>1 DEF TipIsLast
    <3> QED BY <3>2 DEF IsPrevHash
  <2> QED BY <2>1, <2>2
<1>4. BuildsOn(pos'[c], tip[c])
  BY <1>2, <1>3 DEF BuildsOn
<1> QED BY <1>4 DEF For, TemplateOf, Source

\* The store and its tip after a job was added.
LEMMA AddJobBelongs ==
  ASSUME JobsInv, NEW c \in Channels, NEW i \in Ids, NEW src \in Sources, NEW future \in BOOLEAN,
         AddJob(c, i, src, future), tip' = tip, future => FutureSource(src),
         \A d \in Channels : astray[d] \subseteq astray'[d],
         ~future /\ src \notin astray'[c] => For(src, tip[c])
  PROVE  FutureJobsWait' /\ JobsBelongToTip'
<1>1. /\ job'[c] = Stored(job[c], i, src, future)
      /\ \A d \in Channels \ {c} : job'[d] = job[d]
  BY AddJobType DEF JobsInv
<1>2. job[c] \in [Ids -> [src: Sources, status: Statuses]]
  BY DEF JobsInv, TypeOK
<1>3. /\ \A k \in Ids : job[c][k].status = "future" => FutureSource(job[c][k].src)
      /\ \A k \in Ids : job[c][k].status \in {"active", "past"} /\ job[c][k].src \notin astray'[c] => For(job[c][k].src, tip[c])
  BY DEF JobsInv, FutureJobsWait, JobsBelongToTip
<1>4. /\ \A k \in Ids : job'[c][k].status = "future" => FutureSource(job'[c][k].src)
      /\ \A k \in Ids : job'[c][k].status \in {"active", "past"} /\ job'[c][k].src \notin astray'[c] => For(job'[c][k].src, tip[c])
  <2> DEFINE new == Stored(job[c], i, src, future)
  <2>1. /\ \A k \in Ids : new[k].status = "future" => FutureSource(new[k].src)
        /\ \A k \in Ids : new[k].status \in {"active", "past"} /\ new[k].src \notin astray'[c] => For(new[k].src, tip[c])
    BY <1>2, <1>3, StoredBelongs
  <2> QED BY <1>1, <2>1
<1>5. ASSUME NEW d \in Channels, NEW k \in Ids
      PROVE  /\ job'[d][k].status = "future" => FutureSource(job'[d][k].src)
             /\ job'[d][k].status \in {"active", "past"} /\ job'[d][k].src \notin astray'[d] => For(job'[d][k].src, tip'[d])
  <2>1. CASE d = c
    BY <1>4, <2>1
  <2>2. CASE d # c
    <3>1. job'[d] = job[d]
      BY <1>1, <2>2
    <3> QED BY <3>1 DEF JobsInv, FutureJobsWait, JobsBelongToTip
  <2> QED BY <2>1, <2>2
<1> QED BY <1>5 DEF FutureJobsWait, JobsBelongToTip

LEMMA BelongsTemplate ==
  ASSUME JobsInv, NEW c \in Channels, OnNewTemplate(c)
  PROVE  Belongs'
<1>1. /\ Relayed(c) /\ IsTemplate(pos'[c]) /\ UNCHANGED <<tip, held, astray>>
      /\ pos'[c] \in Places /\ pos'[c] = pos[c] + 1 /\ \A d \in Channels \ {c} : pos'[d] = pos[d]
  BY RelayedType DEF OnNewTemplate, JobsInv
<1>2. life' = life \/ Leave(c)
  BY DEF OnNewTemplate
<1>3. \A d \in Channels : life'[d] = "fed" => life[d] = "fed"
  BY <1>2 DEF Leave, JobsInv, TypeOK
<1>4. \A d \in Channels : pos[d] \in Nat /\ tip[d] \in Nat
  BY FeedLength DEF JobsInv, TypeOK
<1>5. ASSUME NEW d \in Channels, NEW q \in Places, life'[d] = "fed", q > tip'[d], q <= pos'[d]
      PROVE  ~IsPrevHash(q)
  <2>1. CASE q <= pos[d]
    BY <1>1, <1>3, <1>5, <2>1 DEF JobsInv, TipIsLast
  <2>2. CASE ~(q <= pos[d])
    <3>1. d = c /\ q = pos'[c]
      BY <1>1, <1>4, <1>5, <2>2 DEF Places
    <3> QED BY <1>1, <3>1, TemplateIsNoPrevHash
  <2> QED BY <2>1, <2>2
<1>6. \A d \in Channels : tip'[d] <= pos'[d] /\ (tip'[d] # 0 => IsPrevHash(tip'[d]))
  BY <1>1, <1>4 DEF JobsInv, TipIsLast
<1>7. TipIsLast'
  BY <1>5, <1>6 DEF TipIsLast
<1>8. HeldBelongs'
  BY <1>1 DEF JobsInv, HeldBelongs
<1>9. CASE job' = job
  BY <1>1, <1>7, <1>8, <1>9 DEF Belongs, JobsInv, FutureJobsWait, AstrayIsCustom, JobsBelongToTip
<1>10. CASE /\ nextId[c] \in Ids
            /\ Feed[pos'[c]].future \/ tip[c] # 0
            /\ AddJob(c, nextId[c], TemplateOf(pos'[c]), Feed[pos'[c]].future)
  <2>1. TemplateOf(pos'[c]) \in Sources /\ Feed[pos'[c]].future \in BOOLEAN
    BY <1>1, SourceType, FeedAssumption DEF Places, IsTemplate
  <2>2. Feed[pos'[c]].future => FutureSource(TemplateOf(pos'[c]))
    BY <1>1 DEF FutureSource, TemplateOf, Source
  <2>3. ~Feed[pos'[c]].future => For(TemplateOf(pos'[c]), tip[c])
    BY <1>1, <1>10, TemplateBuildsOnTip DEF JobsInv
  <2>4. FutureJobsWait' /\ JobsBelongToTip'
    BY <1>1, <1>10, <2>1, <2>2, <2>3, AddJobBelongs
  <2> QED BY <1>1, <1>7, <1>8, <2>4 DEF Belongs, JobsInv, AstrayIsCustom
<1> QED BY <1>9, <1>10 DEF OnNewTemplate

LEMMA BelongsPrevHash ==
  ASSUME JobsInv, NEW c \in Channels, OnSetNewPrevHash(c)
  PROVE  Belongs'
<1>1. /\ Relayed(c) /\ IsPrevHash(pos'[c]) /\ UNCHANGED <<held, astray>>
      /\ pos'[c] \in Places /\ pos'[c] = pos[c] + 1 /\ \A d \in Channels \ {c} : pos'[d] = pos[d]
  BY RelayedType DEF OnSetNewPrevHash, JobsInv
<1>2. \A d \in Channels : pos[d] \in Nat /\ tip[d] \in Nat
  BY FeedLength DEF JobsInv, TypeOK
<1>3. HeldBelongs'
  BY <1>1 DEF JobsInv, HeldBelongs
<1>4. CASE Leave(c) /\ UNCHANGED <<tip, job>>
  <2>1. life'[c] = "left" /\ \A d \in Channels \ {c} : life'[d] = life[d]
    BY <1>4 DEF Leave, JobsInv, TypeOK
  <2>2. ASSUME NEW d \in Channels
        PROVE  /\ tip'[d] <= pos'[d]
               /\ tip'[d] # 0 => IsPrevHash(tip'[d])
               /\ life'[d] = "fed" => \A q \in Places : q > tip'[d] /\ q <= pos'[d] => ~IsPrevHash(q)
    <3>1. CASE d = c
      BY <1>1, <1>2, <1>4, <2>1, <3>1 DEF JobsInv, TipIsLast
    <3>2. CASE d # c
      BY <1>1, <1>4, <2>1, <3>2 DEF JobsInv, TipIsLast
    <3> QED BY <3>1, <3>2
  <2>3. TipIsLast'
    BY <2>2 DEF TipIsLast
  <2>4. FutureJobsWait' /\ JobsBelongToTip'
    BY <1>1, <1>4 DEF JobsInv, FutureJobsWait, JobsBelongToTip
  <2> QED BY <1>1, <1>3, <2>3, <2>4 DEF Belongs, JobsInv, AstrayIsCustom
<1>5. ASSUME NEW i \in Chosen(c, Feed[pos'[c]].template), job' = [job EXCEPT ![c] = Activated(@, i)],
             tip' = [tip EXCEPT ![c] = pos'[c]], UNCHANGED life
      PROVE  Belongs'
  <2>1. /\ tip'[c] = pos'[c] /\ job'[c] = Activated(job[c], i)
        /\ \A d \in Channels \ {c} : tip'[d] = tip[d] /\ job'[d] = job[d]
    BY <1>5 DEF JobsInv, TypeOK
  <2>2. job[c] \in [Ids -> [src: Sources, status: Statuses]]
    BY DEF JobsInv, TypeOK
  <2>3. \A k \in Ids : job[c][k].status = "future" => FutureSource(job[c][k].src)
    BY DEF JobsInv, FutureJobsWait
  <2>4. /\ \A k \in Ids : job'[c][k].status = "future" => FutureSource(job'[c][k].src)
        /\ \A k \in Ids : job'[c][k].status \in {"active", "past"} => For(job'[c][k].src, tip'[c])
    <3>1. i \in Ids => job[c][i].src = TemplateOf(Feed[pos'[c]].template)
      BY DEF Chosen, Ids
    <3> DEFINE p == pos'[c]
    <3> HIDE DEF p
    <3>2. p \in Places /\ IsPrevHash(p) /\ (i \in Ids => job[c][i].src = TemplateOf(Feed[p].template))
      BY <1>1, <3>1 DEF p
    <3>3. tip'[c] = p
      BY <2>1 DEF p
    <3> DEFINE new == Activated(job[c], i)
    <3>4. /\ \A k \in Ids : new[k].status = "future" => FutureSource(new[k].src)
          /\ \A k \in Ids : new[k].status \in {"active", "past"} => For(new[k].src, p)
      BY <2>2, <2>3, <3>2, ActivatedBelongs
    <3>5. job'[c] = new
      BY <2>1
    <3> HIDE DEF new
    <3> QED BY <3>3, <3>4, <3>5
  <2>5. FutureJobsWait' /\ JobsBelongToTip'
    BY <1>1, <2>1, <2>4 DEF JobsInv, FutureJobsWait, JobsBelongToTip
  <2>6. ASSUME NEW d \in Channels
        PROVE  /\ tip'[d] <= pos'[d]
               /\ tip'[d] # 0 => IsPrevHash(tip'[d])
               /\ life'[d] = "fed" => \A q \in Places : q > tip'[d] /\ q <= pos'[d] => ~IsPrevHash(q)
    <3>1. CASE d = c
      BY <1>1, <1>2, <2>1, <3>1 DEF Places
    <3>2. CASE d # c
      BY <1>1, <1>5, <2>1, <3>2 DEF JobsInv, TipIsLast
    <3> QED BY <3>1, <3>2
  <2>7. TipIsLast'
    BY <2>6 DEF TipIsLast
  <2> QED BY <1>1, <1>3, <2>5, <2>7 DEF Belongs, JobsInv, AstrayIsCustom
<1> QED BY <1>4, <1>5 DEF OnSetNewPrevHash

LEMMA BelongsCustom ==
  ASSUME JobsInv, NEW c \in Channels, OnSetCustomMiningJob(c)
  PROVE  Belongs'
<1>1. /\ nextId[c] \in Ids /\ custom' = custom + 1 /\ c \notin Followers
      /\ UNCHANGED <<pos, life, tip, held>>
  BY ChannelAssumption DEF OnSetCustomMiningJob
<1>2. PICK on \in {p \in Places : IsPrevHash(p)} : Hand(c, nextId[c], Source(custom', on), FALSE, on)
  BY DEF OnSetCustomMiningJob
<1> DEFINE src == Source(custom', on)
<1>3. src \in Sources /\ src.on # 0 /\ For(src, on)
  <2>1. custom' \in Nat /\ on \in Nat /\ on # 0
    BY <1>1 DEF JobsInv, TypeOK, Places
  <2> QED BY <2>1, SourceType DEF For, Source
<1>4. Hand(c, nextId[c], src, FALSE, on)
  BY <1>2
<1> HIDE DEF src
<1>5. /\ AddJob(c, nextId[c], src, FALSE) /\ \A d \in Channels : astray[d] \subseteq astray'[d]
      /\ src \notin astray'[c] => on = tip[c]
      /\ astray'[c] \subseteq astray[c] \cup {src} /\ \A d \in Channels \ {c} : astray'[d] = astray[d]
  BY <1>1, <1>3, <1>4, TypeHand DEF JobsInv
<1>6. FutureJobsWait' /\ JobsBelongToTip'
  BY <1>1, <1>3, <1>5, AddJobBelongs
<1>7. AstrayIsCustom'
  BY <1>3, <1>5 DEF JobsInv, AstrayIsCustom
<1> QED BY <1>1, <1>6, <1>7 DEF Belongs, JobsInv, TipIsLast, HeldBelongs

\* A group job belongs to the tip it was taken at: the follower is there, or the
\* job is astray.
LEMMA BelongsGroupJob ==
  ASSUME JobsInv, NEW c \in Channels, OnGroupChannelJob(c)
  PROVE  Belongs'
<1>1. /\ held.job.id \in Ids /\ c \in Followers /\ UNCHANGED <<pos, tip, held>>
      /\ held.job.src \in Sources /\ held.job.future \in BOOLEAN
  BY DEF OnGroupChannelJob, JobsInv, TypeOK
<1>2. CASE Hand(c, held.job.id, held.job.src, held.job.future, held.tip) /\ UNCHANGED life
  <2>1. /\ AddJob(c, held.job.id, held.job.src, held.job.future)
        /\ \A d \in Channels : astray[d] \subseteq astray'[d]
        /\ held.job.src \notin astray'[c] => held.tip = tip[c]
        /\ \A d \in Channels \ {c} : astray'[d] = astray[d]
    BY <1>1, <1>2, TypeHand DEF JobsInv
  <2>2. /\ held.job.future => FutureSource(held.job.src)
        /\ ~held.job.future /\ held.job.src \notin astray'[c] => For(held.job.src, tip[c])
    BY <1>1, <2>1 DEF JobsInv, HeldBelongs
  <2>3. FutureJobsWait' /\ JobsBelongToTip'
    BY <1>1, <2>1, <2>2, AddJobBelongs
  <2> QED BY <1>1, <1>2, <2>1, <2>3 DEF Belongs, JobsInv, TipIsLast, AstrayIsCustom, HeldBelongs
<1>3. CASE Leave(c) /\ UNCHANGED <<job, made, astray>>
  <2>1. \A d \in Channels : life'[d] = "fed" => life[d] = "fed"
    BY <1>3 DEF Leave, JobsInv, TypeOK
  <2> QED BY <1>1, <1>3, <2>1
        DEF Belongs, JobsInv, TipIsLast, FutureJobsWait, AstrayIsCustom, HeldBelongs, JobsBelongToTip
<1> QED BY <1>2, <1>3 DEF OnGroupChannelJob

LEMMA BelongsGetJob ==
  ASSUME JobsInv, NEW c \in Channels, GetJob(c)
  PROVE  Belongs'
<1>1. PICK m \in Jobs(c, job[c]) :
        held' = [job |-> m, tip |-> IF m.src.on = 0 THEN tip[c] ELSE m.src.on]
  BY DEF GetJob
<1>2. UNCHANGED <<pos, life, tip, job, astray>> /\ c \notin Followers
  BY ChannelAssumption DEF GetJob
<1>3. job[c] \in [Ids -> [src: Sources, status: Statuses]]
  BY DEF JobsInv, TypeOK
<1>4. /\ m.id \in Ids /\ m.src = job[c][m.id].src
      /\ m.future => job[c][m.id].status = "future"
      /\ ~m.future => job[c][m.id].status \in {"active", "past"}
  BY <1>3, JobsType
<1>5. held'.job = m /\ held'.tip = IF m.src.on = 0 THEN tip[c] ELSE m.src.on
  BY <1>1
<1>6. IF m.future THEN FutureSource(m.src) ELSE For(m.src, held'.tip)
  <2>1. CASE m.future
    BY <1>4, <2>1 DEF JobsInv, FutureJobsWait
  <2>2. CASE ~m.future /\ m.src.on = 0
    <3>1. m.src \notin astray[c]
      BY <1>2, <2>2 DEF JobsInv, AstrayIsCustom
    <3> QED BY <1>4, <1>5, <2>2, <3>1 DEF JobsInv, JobsBelongToTip
  <2>3. CASE ~m.future /\ m.src.on # 0
    BY <1>5, <2>3 DEF For
  <2> QED BY <2>1, <2>2, <2>3
<1>7. HeldBelongs'
  BY <1>5, <1>6 DEF HeldBelongs
<1> QED BY <1>2, <1>7 DEF Belongs, JobsInv, TipIsLast, FutureJobsWait, AstrayIsCustom, JobsBelongToTip

LEMMA BelongsOther ==
  ASSUME JobsInv, NEW c \in Channels,
         \/ UpdateChannel(c) \/ SkipTemplate(c) \/ Panic(c)
         \/ \E s \in SharesFor(c) : ValidateShare(c, s)
  PROVE  Belongs'
<1>1. CASE UpdateChannel(c) \/ \E s \in SharesFor(c) : ValidateShare(c, s)
  <2>1. UNCHANGED <<pos, life, tip, job, held, astray>>
    BY <1>1 DEF UpdateChannel, ValidateShare
  <2> QED BY <2>1 DEF Belongs, JobsInv, TipIsLast, FutureJobsWait, AstrayIsCustom, HeldBelongs,
           JobsBelongToTip
<1>2. CASE SkipTemplate(c)
  <2>1. /\ IsTemplate(pos'[c]) /\ UNCHANGED <<life, tip, job, held, astray>>
        /\ pos'[c] = pos[c] + 1 /\ \A d \in Channels \ {c} : pos'[d] = pos[d]
    BY <1>2, RelayedType DEF SkipTemplate, JobsInv
  <2>2. \A d \in Channels : pos[d] \in Nat /\ tip[d] \in Nat
    BY FeedLength DEF JobsInv, TypeOK
  <2>3. ASSUME NEW d \in Channels, NEW q \in Places, life'[d] = "fed", q > tip'[d], q <= pos'[d]
        PROVE  ~IsPrevHash(q)
    <3>1. CASE q <= pos[d]
      BY <2>1, <2>3, <3>1 DEF JobsInv, TipIsLast
    <3>2. CASE ~(q <= pos[d])
      <4>1. d = c /\ q = pos'[c]
        BY <2>1, <2>2, <2>3, <3>2 DEF Places
      <4> QED BY <2>1, <4>1, TemplateIsNoPrevHash
    <3> QED BY <3>1, <3>2
  <2>4. \A d \in Channels : tip'[d] <= pos'[d] /\ (tip'[d] # 0 => IsPrevHash(tip'[d]))
    BY <2>1, <2>2 DEF JobsInv, TipIsLast
  <2> QED BY <2>1, <2>3, <2>4 DEF Belongs, JobsInv, TipIsLast, FutureJobsWait, AstrayIsCustom, HeldBelongs,
           JobsBelongToTip
<1>3. CASE Panic(c)
  <2>1. /\ UNCHANGED <<pos, tip, held>>
        /\ \A d \in Channels : life'[d] = "fed" => life[d] = "fed"
        /\ \A d \in Channels, i \in Ids : job'[d][i] = job[d][i] \/ job'[d][i].status = "none"
        /\ \A d \in Channels : astray'[d] = astray[d] \/ (astray'[d] = {} /\ d = c)
        /\ \A i \in Ids : job'[c][i].status = "none"
    <3>1. /\ UNCHANGED <<pos, tip, held>>
          /\ \A d \in Channels : life'[d] = "fed" => life[d] = "fed"
          /\ astray'[c] = {} /\ \A d \in Channels \ {c} : astray'[d] = astray[d]
      BY <1>3 DEF Panic, JobsInv, TypeOK
    <3>2. /\ \A d \in Channels \ {c} : job'[d] = job[d]
          /\ \A i \in Ids : job'[c][i].status = "none"
      BY <1>3 DEF Panic, NoJob, Job, JobsInv, TypeOK
    <3>3. \A d \in Channels, i \in Ids : job'[d][i] = job[d][i] \/ job'[d][i].status = "none"
      <4> TAKE d \in Channels, i \in Ids
      <4> QED BY <3>2
    <3>4. \A d \in Channels : astray'[d] = astray[d] \/ (astray'[d] = {} /\ d = c)
      <4> TAKE d \in Channels
      <4> QED BY <3>1
    <3> QED BY <3>1, <3>2, <3>3, <3>4
  <2>2. ASSUME NEW d \in Channels, NEW i \in Ids
        PROVE  /\ job'[d][i].status = "future" => FutureSource(job'[d][i].src)
               /\ job'[d][i].status \in {"active", "past"} /\ job'[d][i].src \notin astray'[d]
                 => For(job'[d][i].src, tip'[d])
    <3>1. CASE job'[d][i] = job[d][i]
      BY <2>1, <3>1 DEF JobsInv, FutureJobsWait, JobsBelongToTip
    <3>2. CASE job'[d][i].status = "none"
      BY <3>2
    <3> QED BY <2>1, <3>1, <3>2
  <2> QED BY <2>1, <2>2 DEF Belongs, JobsInv, TipIsLast, FutureJobsWait, AstrayIsCustom, HeldBelongs,
           JobsBelongToTip
<1> QED BY <1>1, <1>2, <1>3

LEMMA JobsInvInit == Init => JobsInv
<1> SUFFICES ASSUME Init PROVE JobsInv
  OBVIOUS
<1>1. TypeOK
  BY TypeInit
<1>2. \A c \in Channels, i \in Ids : job[c][i].status = "none"
  BY DEF Init, NoJob, Job
<1>3. held.job.id \notin Ids
  BY DEF Init, NoSnapshot, Ids
<1>4. TipIsLast
  BY DEF Init, TipIsLast, Places
<1>5. AstrayIsCustom
  BY DEF Init, AstrayIsCustom
<1> QED BY <1>1, <1>2, <1>3, <1>4, <1>5 DEF JobsInv, FutureJobsWait, HeldBelongs, JobsBelongToTip

\* Every call of every channel keeps the jobs with their tip.
LEMMA JobsInvStep == JobsInv /\ [Next]_vars => JobsInv'
<1> SUFFICES ASSUME JobsInv, [Next]_vars PROVE JobsInv'
  OBVIOUS
<1>1. TypeOK'
  BY TypeStep DEF JobsInv
<1>2. CASE UNCHANGED vars
  BY <1>1, <1>2 DEF vars, JobsInv, TipIsLast, FutureJobsWait, AstrayIsCustom, HeldBelongs, JobsBelongToTip
<1>3. CASE Next
  <2>1. PICK c \in Channels : Step(c)
    BY <1>3, StepCases
  <2>2. Belongs'
    BY <2>1, BelongsTemplate, BelongsPrevHash, BelongsCustom, BelongsGroupJob, BelongsGetJob,
       BelongsOther DEF Step
  <2> QED BY <1>1, <2>2 DEF JobsInv, Belongs
<1> QED BY <1>2, <1>3

\* No channel ever has a miner work on a template under the prev-hash of
\* another, however its channels lag behind each other and whichever of their
\* calls fail.  A job that is handed over late, or declared for another tip, is
\* itself at the wrong place; it brings no other job there.
THEOREM JobsBelong == Spec => []JobsBelongToTip
<1>1. Init => JobsInv
  BY JobsInvInit
<1>2. JobsInv /\ [Next]_vars => JobsInv'
  BY JobsInvStep
<1>3. JobsInv => JobsBelongToTip
  BY DEF JobsInv
<1> QED BY <1>1, <1>2, <1>3, PTL DEF Spec

-----------------------------------------------------------------------------
(* The ledger of accepted shares.                                          *)

\* Accepted work is of the channel's tip or an earlier one, and what is of its
\* tip is still known to the test for duplicates.
CreditedOnce ==
  \A c \in Channels :
    /\ tip[c] <= pos[c]
    /\ \A w \in credited[c] : w.tip <= tip[c] /\ (Locks(c) /\ w.tip = tip[c] => w \in seen[c])

LedgerInv == TypeOK /\ CreditedOnce

LEMMA CreditTip ==
  ASSUME TypeOK, NEW c \in Channels
  PROVE  /\ tip[c] \in Nat /\ pos[c] \in Nat
         /\ \A w \in credited[c] : w.tip \in Nat
  BY FeedLength DEF TypeOK, Works

\* A share that is accepted is new work on the tip of a channel in service.
LEMMA AcceptedShare ==
  ASSUME NEW c \in Channels, NEW s, Answers(c, s) \cap Accepted # {}
  PROVE  Locks(c) /\ s.tip = tip[c] /\ Work(s) \notin seen[c]
<1>1. Locks(c) /\ Verdicts(c, s) \cap Accepted # {}
  BY DEF Answers, Accepted
<1> DEFINE j == IF s.id \in Ids THEN job[c][s.id] ELSE NoJob
<1>2. j.status \notin {"stale", "none", "future"}
  BY <1>1 DEF Verdicts, Accepted
<1>3. tip[c] # 0 /\ s.form # "malformed"
  BY <1>1, <1>2 DEF Verdicts, Accepted
<1>4. s.tip = tip[c]
  BY <1>1, <1>2, <1>3 DEF Verdicts, Accepted
<1>5. Work(s) \notin seen[c]
  BY <1>1, <1>2, <1>3 DEF Verdicts, Accepted
<1> QED BY <1>1, <1>4, <1>5

LEMMA CreditShare ==
  ASSUME LedgerInv, NEW c \in Channels, NEW s \in SharesFor(c), ValidateShare(c, s)
  PROVE  CreditedOnce' /\ [Ledger!Next]_<<tip, credited, accepted>>
<1>1. /\ UNCHANGED <<pos, life, tip>>
      /\ seen' = [seen EXCEPT ![c] = @ \cup {Work(s)}]
      /\ \A d \in Channels : Locks(d)' <=> Locks(d)
  BY DEF ValidateShare, Locks
<1>2. \A d \in Channels : seen[d] \subseteq seen'[d]
  BY <1>1 DEF LedgerInv, TypeOK
<1>3. CASE UNCHANGED <<credited, accepted>>
  <2>1. CreditedOnce'
    BY <1>1, <1>2, <1>3 DEF LedgerInv, CreditedOnce
  <2> QED BY <1>1, <1>3, <2>1
<1>4. CASE /\ Answers(c, s) \cap Accepted # {}
           /\ credited' = [credited EXCEPT ![c] = @ \cup {Work(s)}]
           /\ accepted' = [accepted EXCEPT ![c] = @ + 1]
  <2>1. Locks(c) /\ s.tip = tip[c] /\ Work(s) \notin seen[c]
    BY <1>4, AcceptedShare
  <2>2. Work(s) \in Works /\ Work(s).tip = tip[c]
    BY <2>1, ShareType DEF LedgerInv
  <2>3. Work(s) \notin credited[c]
    BY <2>1, <2>2 DEF LedgerInv, CreditedOnce
  <2>4. /\ credited'[c] = credited[c] \cup {Work(s)} /\ Work(s) \in seen'[c]
        /\ \A d \in Channels \ {c} : credited'[d] = credited[d]
    BY <1>1, <1>4 DEF LedgerInv, TypeOK
  <2>5. ASSUME NEW d \in Channels, NEW w \in credited'[d]
        PROVE  w.tip <= tip'[d] /\ (Locks(d)' /\ w.tip = tip'[d] => w \in seen'[d])
    <3>1. CASE w \in credited[d]
      BY <1>1, <1>2, <3>1 DEF LedgerInv, CreditedOnce
    <3>2. CASE w \notin credited[d]
      <4>1. d = c /\ w = Work(s)
        BY <2>4, <2>5, <3>2
      <4> QED BY <1>1, <2>2, <2>4, <4>1, CreditTip DEF LedgerInv
    <3> QED BY <3>1, <3>2
  <2>6. CreditedOnce'
    BY <1>1, <2>5 DEF LedgerInv, CreditedOnce
  <2>7. Work(s) \in credited'[c] \ credited[c]
    BY <2>3, <2>4
  <2>8. Ledger!Credit(c)
    BY <1>1, <1>4, <2>2, <2>7 DEF Ledger!Credit
  <2> QED BY <2>6, <2>8 DEF Ledger!Next
<1> QED BY <1>3, <1>4 DEF ValidateShare, shares

LEMMA CreditPrevHash ==
  ASSUME LedgerInv, NEW c \in Channels, OnSetNewPrevHash(c)
  PROVE  CreditedOnce' /\ [Ledger!Next]_<<tip, credited, accepted>>
<1>1. /\ pos'[c] \in Places /\ pos'[c] = pos[c] + 1 /\ \A d \in Channels \ {c} : pos'[d] = pos[d]
  BY RelayedType DEF OnSetNewPrevHash, LedgerInv
<1>2. UNCHANGED <<credited, accepted>>
  BY DEF OnSetNewPrevHash, shares
<1>3. CASE Leave(c) /\ UNCHANGED <<tip, seen>>
  <2>1. \A d \in Channels : Locks(d)' => Locks(d)
    BY <1>3 DEF Leave, Locks, OnSetNewPrevHash, Relayed, LedgerInv, TypeOK
  <2>2. \A d \in Channels : tip'[d] <= pos'[d]
    BY <1>1, <1>3, CreditTip DEF LedgerInv, CreditedOnce
  <2>3. CreditedOnce'
    BY <1>2, <1>3, <2>1, <2>2 DEF LedgerInv, CreditedOnce
  <2> QED BY <1>2, <1>3, <2>3
<1>4. CASE /\ tip'  = [tip EXCEPT ![c] = pos'[c]]
           /\ seen' = [seen EXCEPT ![c] = {}]
           /\ UNCHANGED life
  <2>1. /\ tip'[c] = pos'[c] /\ tip'[c] > tip[c]
        /\ \A d \in Channels \ {c} : tip'[d] = tip[d] /\ seen'[d] = seen[d]
    BY <1>1, <1>4, CreditTip DEF LedgerInv, TypeOK, CreditedOnce
  <2>2. ASSUME NEW d \in Channels
        PROVE  /\ tip'[d] <= pos'[d]
               /\ \A w \in credited'[d] : w.tip <= tip'[d] /\ (Locks(d)' /\ w.tip = tip'[d] => w \in seen'[d])
    <3>1. CASE d = c
      <4>1. \A w \in credited[c] : w.tip <= tip[c] /\ w.tip < tip'[c]
        BY <2>1, <1>1, CreditTip DEF LedgerInv, CreditedOnce
      <4>2. tip'[c] <= pos'[c]
        BY <2>1, <1>1, CreditTip DEF LedgerInv
      <4>3. tip'[c] \in Nat /\ \A w \in credited[c] : w.tip \in Nat
        BY <2>1, <1>1, CreditTip DEF LedgerInv
      <4> QED BY <1>2, <3>1, <4>1, <4>2, <4>3
    <3>2. CASE d # c
      BY <1>1, <1>2, <1>4, <2>1, <3>2 DEF LedgerInv, CreditedOnce, Locks
    <3> QED BY <3>1, <3>2
  <2>3. CreditedOnce'
    BY <2>2 DEF CreditedOnce
  <2>4. tip' = [tip EXCEPT ![c] = tip'[c]]
    BY <1>4, <2>1
  <2>5. Ledger!NewTip(c)
    BY <1>2, <2>1, <2>4 DEF Ledger!NewTip
  <2> QED BY <2>3, <2>5 DEF Ledger!Next
<1> QED BY <1>3, <1>4 DEF OnSetNewPrevHash

LEMMA CreditOther ==
  ASSUME LedgerInv, NEW c \in Channels,
         \/ UpdateChannel(c) \/ OnNewTemplate(c) \/ OnSetCustomMiningJob(c) \/ OnGroupChannelJob(c)
         \/ GetJob(c) \/ SkipTemplate(c) \/ Panic(c)
  PROVE  CreditedOnce' /\ [Ledger!Next]_<<tip, credited, accepted>>
<1>1. UNCHANGED <<tip, credited, accepted>>
  BY DEF UpdateChannel, OnNewTemplate, OnSetCustomMiningJob, OnGroupChannelJob, GetJob, SkipTemplate,
     Panic, shares
<1>2. \A d \in Channels : pos'[d] \in Nat /\ pos[d] <= pos'[d]
  <2>1. CASE OnNewTemplate(c) \/ SkipTemplate(c)
    <3>1. pos'[c] = pos[c] + 1 /\ \A d \in Channels \ {c} : pos'[d] = pos[d]
      BY <2>1, RelayedType DEF OnNewTemplate, SkipTemplate, LedgerInv
    <3> QED BY <3>1, CreditTip DEF LedgerInv
  <2>2. CASE ~(OnNewTemplate(c) \/ SkipTemplate(c))
    <3>1. UNCHANGED pos
      BY <2>2 DEF UpdateChannel, OnSetCustomMiningJob, OnGroupChannelJob, GetJob, Panic
    <3> QED BY <3>1, CreditTip DEF LedgerInv
  <2> QED BY <2>1, <2>2
<1>3. \A d \in Channels : Locks(d)' => Locks(d) /\ seen'[d] = seen[d]
  <2>1. CASE Panic(c)
    BY <2>1 DEF Panic, Locks, LedgerInv, TypeOK
  <2>2. CASE OnNewTemplate(c)
    BY <2>2 DEF OnNewTemplate, Relayed, Leave, Locks, LedgerInv, TypeOK
  <2>3. CASE OnGroupChannelJob(c)
    BY <2>3 DEF OnGroupChannelJob, Leave, Locks, LedgerInv, TypeOK
  <2>4. CASE ~Panic(c) /\ ~OnNewTemplate(c) /\ ~OnGroupChannelJob(c)
    BY <2>4 DEF UpdateChannel, OnSetCustomMiningJob, GetJob, SkipTemplate, Locks
  <2> QED BY <2>1, <2>2, <2>3, <2>4
<1>4. CreditedOnce'
  <2>1. \A d \in Channels : tip'[d] <= pos'[d]
    BY <1>1, <1>2, CreditTip DEF LedgerInv, CreditedOnce
  <2> QED BY <1>1, <1>3, <2>1 DEF LedgerInv, CreditedOnce
<1> QED BY <1>1, <1>4

\* Every call of every channel is a step of the ledger or none.
LEMMA LedgerStep ==
  LedgerInv /\ [Next]_vars => LedgerInv' /\ [Ledger!Next]_<<tip, credited, accepted>>
<1> SUFFICES ASSUME LedgerInv, [Next]_vars
             PROVE  LedgerInv' /\ [Ledger!Next]_<<tip, credited, accepted>>
  OBVIOUS
<1>1. TypeOK'
  BY TypeStep DEF LedgerInv
<1>2. CASE UNCHANGED vars
  BY <1>1, <1>2 DEF vars, LedgerInv, CreditedOnce, Locks
<1>3. CASE Next
  <2>1. PICK c \in Channels : Step(c)
    BY <1>3, StepCases
  <2>2. CreditedOnce' /\ [Ledger!Next]_<<tip, credited, accepted>>
    BY <2>1, CreditShare, CreditPrevHash, CreditOther DEF Step
  <2> QED BY <1>1, <2>2 DEF LedgerInv
<1> QED BY <1>2, <1>3

LEMMA LedgerInit == Init => LedgerInv /\ Ledger!Init
  BY TypeInit DEF Init, LedgerInv, CreditedOnce, Ledger!Init

\* The channels keep the ledger: no share is accepted twice or for another tip
\* than the channel's, and no tip comes back, whatever the program feeds them,
\* whatever its clients send, and whichever calls fail or panic.
THEOREM LedgerIsKept == Spec => ImplementsLedger
<1>1. Init => LedgerInv /\ Ledger!Init
  BY LedgerInit
<1>2. LedgerInv /\ [Next]_vars => LedgerInv' /\ [Ledger!Next]_<<tip, credited, accepted>>
  BY LedgerStep
<1> QED BY <1>1, <1>2, PTL DEF Spec, ImplementsLedger, Ledger!Spec

\* A channel has answered that a share is valid once for each piece of work it
\* accepted.
SharesAreWork ==
  \A c \in Channels : IsFiniteSet(credited[c]) /\ accepted[c] = Cardinality(credited[c])

LEMMA SharesStep ==
  ASSUME TypeOK, SharesAreWork, NEW c \in Channels, Ledger!Credit(c)
  PROVE  SharesAreWork'
<1>1. PICK w \in credited'[c] \ credited[c] : credited' = [credited EXCEPT ![c] = @ \cup {w}]
  BY DEF Ledger!Credit
<1>2. accepted' = [accepted EXCEPT ![c] = @ + 1]
  BY DEF Ledger!Credit
<1>3. IsFiniteSet(credited[c] \cup {w}) /\ Cardinality(credited[c] \cup {w}) = Cardinality(credited[c]) + 1
  BY <1>1, FS_AddElement DEF SharesAreWork
<1>4. credited'[c] = credited[c] \cup {w} /\ accepted'[c] = accepted[c] + 1
  BY <1>1, <1>2 DEF TypeOK
<1>5. \A d \in Channels \ {c} : credited'[d] = credited[d] /\ accepted'[d] = accepted[d]
  BY <1>1, <1>2 DEF TypeOK
<1> QED BY <1>3, <1>4, <1>5 DEF SharesAreWork

\* A channel says that a share is valid exactly as often as it accepts a new
\* piece of work: none is paid for twice.
THEOREM CountIsWork == Spec => []SharesAreWork
<1>1. Init => SharesAreWork
  BY FS_EmptySet DEF Init, SharesAreWork
<1>2. LedgerInv /\ SharesAreWork /\ [Ledger!Next]_<<tip, credited, accepted>> => SharesAreWork'
  <2> SUFFICES ASSUME LedgerInv, SharesAreWork, [Ledger!Next]_<<tip, credited, accepted>>
               PROVE  SharesAreWork'
    OBVIOUS
  <2>1. CASE UNCHANGED <<credited, accepted>>
    BY <2>1 DEF SharesAreWork
  <2>2. ASSUME NEW c \in Channels, Ledger!Credit(c)
        PROVE  SharesAreWork'
    BY <2>2, SharesStep DEF LedgerInv
  <2> QED BY <2>1, <2>2 DEF Ledger!Next, Ledger!NewTip
<1>3. Spec => []LedgerInv /\ [][Ledger!Next]_<<tip, credited, accepted>>
  BY LedgerInit, LedgerStep, PTL DEF Spec
<1> QED BY <1>1, <1>2, <1>3, PTL DEF Spec

=============================================================================

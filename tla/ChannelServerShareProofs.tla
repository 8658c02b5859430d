----------------------- MODULE ChannelServerShareProofs -----------------------
(***************************************************************************)
(* What a channel answers to a miner that did its work: proofs that it is  *)
(* not called stale, or refused, while its tip lasts.                      *)
(*                                                                         *)
(* A miner knows a job by its id, and the channel judges a share by the    *)
(* job it finds there now.  So the first part shows that where a channel   *)
(* numbers its own jobs, ids and jobs go together; a follower is passed    *)
(* ids of another's factory, and the properties ask it of the one job of   *)
(* the share.  The second part shows that a job is stale only once its tip *)
(* is over, and the third that nothing else takes a job from the store.    *)
(***************************************************************************)
EXTENDS ChannelServerProofs

-----------------------------------------------------------------------------
(* What clients know of jobs.                                              *)

\* An entry of the record of what a client may know.
Entry(i, src) == [id |-> i, src |-> src]

\* Every job in a store was shown under its id.
Shown == \A c \in Channels, i \in Ids :
           job[c][i].status # "none" => Entry(i, job[c][i].src) \in made[c]

\* No other id of its job and no other job of its id was shown.
Alone(c, m) == \A n \in made[c] : n.id = m.id <=> n.src = m.src

\* The source of a job was there before the job.
Early(c, src) == IF src.on = 0 THEN src.n <= pos[c] ELSE src.n <= custom

\* A channel that has only its own jobs gives each an id of its own, because its
\* factory counts up and its sources are new.
Numbered == \A c \in Channels \ Followers : \A m \in made[c] :
              m.id < nextId[c] /\ Early(c, m.src) /\ Alone(c, m)

Record == Shown /\ Numbered

\* The feed and the custom jobs only go on.
Onward == custom <= custom' /\ \A d \in Channels : pos[d] <= pos'[d]

LEMMA StepIsOnward ==
  ASSUME TypeOK, NEW c \in Channels, Step(c) PROVE Onward
<1>1. \A d \in Channels : pos[d] \in Nat
  BY FeedLength DEF TypeOK
<1>2. \A d \in Channels : pos[d] <= pos'[d]
  <2>1. CASE OnNewTemplate(c) \/ SkipTemplate(c) \/ OnSetNewPrevHash(c)
    <3>1. pos'[c] = pos[c] + 1 /\ \A d \in Channels \ {c} : pos'[d] = pos[d]
      BY <2>1, RelayedType DEF OnNewTemplate, SkipTemplate, OnSetNewPrevHash
    <3> QED BY <1>1, <3>1
  <2>2. CASE ~(OnNewTemplate(c) \/ SkipTemplate(c) \/ OnSetNewPrevHash(c))
    <3>1. pos' = pos
      BY <2>2 DEF Step, UpdateChannel, OnSetCustomMiningJob, OnGroupChannelJob, ValidateShare, GetJob, Panic
    <3> QED BY <1>1, <3>1
  <2> QED BY <2>1, <2>2
<1>3. custom' = custom \/ custom' = custom + 1
  BY DEF Step, UpdateChannel, OnNewTemplate, OnSetNewPrevHash, OnSetCustomMiningJob, OnGroupChannelJob,
     ValidateShare, GetJob, SkipTemplate, Panic
<1>4. custom \in Nat
  BY DEF TypeOK
<1> QED BY <1>2, <1>3, <1>4 DEF Onward

LEMMA MadeType ==
  ASSUME TypeOK, NEW d \in Channels, NEW m \in made[d]
  PROVE  m.id \in Ids /\ m.id \in Nat /\ m.src \in Sources
<1>1. made[d] \subseteq [id: Ids, src: Sources]
  BY DEF TypeOK
<1> QED BY <1>1, BoundAssumption DEF Ids

LEMMA EarlyStays ==
  ASSUME TypeOK, TypeOK', Onward, NEW c \in Channels, NEW src \in Sources, Early(c, src)
  PROVE  Early(c, src)'
<1>1. pos[c] \in Nat /\ pos'[c] \in Nat /\ custom \in Nat /\ custom' \in Nat /\ src.n \in Nat
  BY FeedLength DEF TypeOK, Sources
<1> QED BY <1>1 DEF Early, Onward

\* Jobs change their status or go; nothing is added and nothing shown.
LEMMA QuietRecord ==
  ASSUME TypeOK, TypeOK', Onward, Record, UNCHANGED <<made, nextId>>,
         \A d \in Channels, i \in Ids : job'[d][i].status # "none" =>
           job[d][i].status # "none" /\ job'[d][i].src = job[d][i].src
  PROVE  Record'
<1>1. Shown'
  BY DEF Record, Shown
<1>2. ASSUME NEW d \in Channels \ Followers, NEW m \in made[d]
      PROVE  m.id < nextId[d] /\ Early(d, m.src)' /\ Alone(d, m)
  <2>1. m.src \in Sources
    BY MadeType
  <2> QED BY <2>1, EarlyStays DEF Record, Numbered
<1>3. Numbered'
  BY <1>2 DEF Numbered, Alone, Early
<1> QED BY <1>1, <1>3 DEF Record

\* What the getters show of a store.
LEMMA JobsShow ==
  ASSUME NEW c \in Channels, NEW js \in [Ids -> [src: Sources, status: Statuses]]
  PROVE  /\ \A m \in Jobs(c, js) : m.id \in Ids /\ js[m.id].status # "none" /\ Known(m) = Entry(m.id, js[m.id].src)
         /\ \A i \in Ids : js[i].status \in {"future", "active"} =>
              \E m \in Jobs(c, js) : Known(m) = Entry(i, js[i].src)
<1>1. ASSUME NEW m \in Jobs(c, js)
      PROVE  m.id \in Ids /\ js[m.id].status # "none" /\ Known(m) = Entry(m.id, js[m.id].src)
  <2>1. m.id \in Ids /\ m.src = js[m.id].src /\ js[m.id].status \in {"future", "active", "past"}
    BY JobsType
  <2> QED BY <2>1 DEF Known, Entry
<1>2. ASSUME NEW i \in Ids, js[i].status \in {"future", "active"}
      PROVE  \E m \in Jobs(c, js) : Known(m) = Entry(i, js[i].src)
  <2>1. ExtendedJob(js, i) \in Jobs(c, js) \/ StandardJob(js, i) \in Jobs(c, js)
    BY <1>2, ChannelAssumption DEF Jobs, ExtendedJobs, StandardJobs, GroupJobs
  <2>2. Known(ExtendedJob(js, i)) = Entry(i, js[i].src) /\ Known(StandardJob(js, i)) = Entry(i, js[i].src)
    BY DEF Known, Entry, ExtendedJob, StandardJob
  <2> QED BY <2>1, <2>2
<1> QED BY <1>1, <1>2

\* A job is added: it is shown, and nothing else is that was not.
LEMMA AddJobShows ==
  ASSUME TypeOK, Record, NEW c \in Channels, NEW i \in Ids, NEW src \in Sources,
         NEW future \in BOOLEAN, AddJob(c, i, src, future)
  PROVE  /\ made'[c] = made[c] \cup {Entry(i, src)}
         /\ \A d \in Channels \ {c} : made'[d] = made[d]
         /\ Shown'
<1>1. /\ job' \in [Channels -> [Ids -> [src: Sources, status: Statuses]]]
      /\ \A d \in Channels \ {c} : job'[d] = job[d]
      /\ job'[c] = Stored(job[c], i, src, future)
  BY AddJobType
<1> DEFINE js == job'[c]
<1>2. js \in [Ids -> [src: Sources, status: Statuses]]
  BY <1>1
<1>3. js[i].status \in {"future", "active"} /\ js[i].src = src
  BY <1>1 DEF Stored, Job
<1>4. \A k \in Ids : k # i => js[k].src = job[c][k].src /\ (js[k].status = "none" <=> job[c][k].status = "none")
  BY <1>1 DEF Stored, Job
<1>5. made'[c] = made[c] \cup {Known(m) : m \in Jobs(c, js)} /\ \A d \in Channels \ {c} : made'[d] = made[d]
  BY DEF AddJob, TypeOK
<1> HIDE DEF js
<1>6. \A m \in Jobs(c, js) : Known(m) \in made[c] \cup {Entry(i, src)}
  <2> TAKE m \in Jobs(c, js)
  <2>1. m.id \in Ids /\ js[m.id].status # "none" /\ Known(m) = Entry(m.id, js[m.id].src)
    BY <1>2, JobsShow
  <2>2. CASE m.id = i
    BY <1>3, <2>1, <2>2
  <2>3. CASE m.id # i
    BY <1>4, <2>1, <2>3 DEF Record, Shown
  <2> QED BY <2>2, <2>3
<1>7. Entry(i, src) \in {Known(m) : m \in Jobs(c, js)}
  <2>1. PICK m \in Jobs(c, js) : Known(m) = Entry(i, src)
    BY <1>2, <1>3, JobsShow
  <2> QED BY <2>1
<1>8. made'[c] = made[c] \cup {Entry(i, src)}
  BY <1>5, <1>6, <1>7
<1>9. ASSUME NEW d \in Channels, NEW k \in Ids, job'[d][k].status # "none"
      PROVE  Entry(k, job'[d][k].src) \in made'[d]
  <2>1. CASE d = c /\ k = i
    BY <1>3, <1>8, <2>1 DEF js
  <2>2. CASE d = c /\ k # i
    BY <1>4, <1>8, <1>9, <2>2 DEF js, Record, Shown
  <2>3. CASE d # c
    BY <1>1, <1>5, <1>9, <2>3 DEF Record, Shown
  <2> QED BY <2>1, <2>2, <2>3
<1> QED BY <1>5, <1>8, <1>9 DEF Shown

\* A factory's job takes an id nobody was told of, for a source nobody knew.
LEMMA FactoryRecord ==
  ASSUME TypeOK, TypeOK', Onward, Record, NEW c \in Channels, NEW src \in Sources,
         NEW future \in BOOLEAN, nextId[c] \in Ids, AddJob(c, nextId[c], src, future),
         nextId' = [nextId EXCEPT ![c] = @ + 1], ~Early(c, src), Early(c, src)'
  PROVE  Record'
<1> DEFINE e == Entry(nextId[c], src)
<1>1. /\ made'[c] = made[c] \cup {e}
      /\ \A d \in Channels \ {c} : made'[d] = made[d]
      /\ Shown'
  BY AddJobShows
<1>2. nextId[c] \in Nat /\ nextId'[c] = nextId[c] + 1 /\ \A d \in Channels \ {c} : nextId'[d] = nextId[d]
  BY BoundAssumption DEF TypeOK
<1>3. e.id = nextId[c] /\ e.src = src
  BY DEF Entry
<1> HIDE DEF e
<1>4. ASSUME NEW d \in Channels \ Followers, NEW m \in made'[d]
      PROVE  m.id < nextId'[d] /\ Early(d, m.src)' /\ Alone(d, m)'
  <2>1. CASE d # c
    <3>1. m \in made[d] /\ m.src \in Sources /\ made'[d] = made[d] /\ nextId'[d] = nextId[d]
      <4>1. m \in made[d] /\ made'[d] = made[d] /\ nextId'[d] = nextId[d]
        BY <1>1, <1>2, <1>4, <2>1
      <4> QED BY <4>1, MadeType
    <3>2. m.id < nextId[d] /\ Early(d, m.src) /\ Alone(d, m)
      BY <3>1 DEF Record, Numbered
    <3> QED BY <3>1, <3>2, EarlyStays DEF Alone
  <2>2. CASE d = c
    <3>1. \A n \in made[c] : /\ n.id \in Nat /\ n.src \in Sources /\ n.id < nextId[c]
                            /\ Early(c, n.src) /\ Alone(c, n)
      BY <2>2, MadeType DEF Record, Numbered
    <3>2. \A n \in made[c] : n.id # e.id /\ n.src # e.src
      BY <1>2, <1>3, <3>1
    <3>3. \A n \in made'[c] : n.id < nextId'[c]
      BY <1>1, <1>2, <1>3, <3>1
    <3>4. Early(c, m.src)'
      <4>1. CASE m \in made[c]
        BY <3>1, <4>1, EarlyStays
      <4>2. CASE m = e
        BY <1>3, <4>2 DEF Early
      <4> QED BY <1>1, <2>2, <4>1, <4>2
    <3>5. \A n \in made'[c] : n.id = m.id <=> n.src = m.src
      <4> TAKE n \in made'[c]
      <4>1. CASE m \in made[c] /\ n \in made[c]
        BY <3>1, <4>1 DEF Alone
      <4>2. CASE m = e \/ n = e
        BY <1>1, <2>2, <3>2, <4>2
      <4> QED BY <1>1, <2>2, <4>1, <4>2
    <3> QED BY <2>2, <3>3, <3>4, <3>5 DEF Alone
  <2> QED BY <2>1, <2>2
<1>5. Numbered'
  BY <1>4 DEF Numbered
<1> QED BY <1>1, <1>5 DEF Record

LEMMA TemplateRecord ==
  ASSUME TypeOK, TypeOK', Onward, Record, NEW c \in Channels, OnNewTemplate(c) PROVE Record'
<1>0. Relayed(c) /\ IsTemplate(pos'[c])
  BY DEF OnNewTemplate
<1>1. PICK t \in Places : t = pos'[c] /\ IsTemplate(t) /\ t = pos[c] + 1 /\ pos[c] \in Nat
  BY <1>0, RelayedType, FeedLength DEF TypeOK
<1>2. CASE UNCHANGED <<nextId, job, made>>
  BY <1>2, QuietRecord
<1>3. CASE /\ nextId[c] \in Ids
           /\ AddJob(c, nextId[c], TemplateOf(t), Feed[t].future)
           /\ nextId' = [nextId EXCEPT ![c] = @ + 1]
  <2>1. PICK x \in Sources : x = TemplateOf(t)
    BY SourceType DEF Places
  <2>2. PICK future \in BOOLEAN : future = Feed[t].future
    <3>1. Feed[t].future \in BOOLEAN
      BY <1>1, FeedAssumption DEF IsTemplate, Places
    <3> QED BY <3>1
  <2>3. x.on = 0 /\ x.n = t
    BY <2>1 DEF TemplateOf, Source
  <2>4. ~Early(c, x) /\ Early(c, x)'
    BY <1>1, <2>3 DEF Early
  <2>5. AddJob(c, nextId[c], x, future)
    BY <1>3, <2>1, <2>2
  <2> QED BY <1>3, <2>4, <2>5, FactoryRecord
<1> QED BY <1>1, <1>2, <1>3 DEF OnNewTemplate

LEMMA PrevHashRecord ==
  ASSUME TypeOK, TypeOK', Onward, Record, NEW c \in Channels, OnSetNewPrevHash(c) PROVE Record'
<1>1. UNCHANGED <<nextId, made>>
  BY DEF OnSetNewPrevHash
<1>2. CASE UNCHANGED job
  BY <1>1, <1>2, QuietRecord
<1>3. ASSUME NEW i, job' = [job EXCEPT ![c] = Activated(@, i)] PROVE Record'
  <2>1. job'[c] = Activated(job[c], i) /\ \A d \in Channels \ {c} : job'[d] = job[d]
    BY <1>3 DEF TypeOK
  <2>2. \A k \in Ids : job'[c][k].status # "none" =>
          job[c][k].status # "none" /\ job'[c][k].src = job[c][k].src
    BY <2>1 DEF Activated, Job, NoJob
  <2>3. \A d \in Channels, k \in Ids : job'[d][k].status # "none" =>
          job[d][k].status # "none" /\ job'[d][k].src = job[d][k].src
    BY <2>1, <2>2
  <2> QED BY <1>1, <2>3, QuietRecord
<1> QED BY <1>2, <1>3 DEF OnSetNewPrevHash

LEMMA CustomRecord ==
  ASSUME TypeOK, TypeOK', Onward, Record, NEW c \in Channels, OnSetCustomMiningJob(c) PROVE Record'
<1>1. PICK on \in {p \in Places : IsPrevHash(p)} :
        AddJob(c, nextId[c], Source(custom', on), FALSE)
  BY DEF OnSetCustomMiningJob, Hand
<1>2. /\ nextId[c] \in Ids /\ custom' = custom + 1 /\ custom \in Nat /\ on # 0 /\ on \in Nat
      /\ nextId' = [nextId EXCEPT ![c] = @ + 1]
  BY DEF OnSetCustomMiningJob, TypeOK, Places
<1> DEFINE n   == custom + 1
           src == Source(n, on)
<1>3. src \in Sources /\ src.on = on /\ src.n = n
  BY <1>2, SourceType DEF Source
<1>4. AddJob(c, nextId[c], src, FALSE)
  BY <1>1, <1>2
<1>5. n = custom + 1 /\ n = custom' /\ n \in Nat
  BY <1>2
<1> HIDE DEF n, src
<1>6. PICK x \in Sources : x = src
  BY <1>3
<1>7. ~Early(c, x) /\ Early(c, x)'
  BY <1>2, <1>3, <1>5, <1>6 DEF Early
<1>8. AddJob(c, nextId[c], x, FALSE)
  BY <1>4, <1>6
<1> QED BY <1>2, <1>7, <1>8, FactoryRecord

\* A follower gets a job under the id of another's factory.
LEMMA GroupJobRecord ==
  ASSUME TypeOK, TypeOK', Onward, Record, NEW c \in Channels, OnGroupChannelJob(c) PROVE Record'
<1>1. c \in Followers /\ held.job.id \in Ids /\ held.job.src \in Sources /\ held.job.future \in BOOLEAN
  BY DEF OnGroupChannelJob, TypeOK
<1>2. UNCHANGED nextId
  BY DEF OnGroupChannelJob
<1>3. CASE UNCHANGED <<job, made>>
  BY <1>2, <1>3, QuietRecord
<1>4. CASE AddJob(c, held.job.id, held.job.src, held.job.future)
  <2>1. Shown' /\ \A d \in Channels \ {c} : made'[d] = made[d]
    BY <1>1, <1>4, AddJobShows
  <2>2. ASSUME NEW d \in Channels \ Followers, NEW m \in made'[d]
        PROVE  m.id < nextId'[d] /\ Early(d, m.src)' /\ Alone(d, m)'
    <3>1. made'[d] = made[d] /\ m \in made[d] /\ m.src \in Sources
      <4>1. made'[d] = made[d] /\ m \in made[d]
        BY <1>1, <2>1, <2>2
      <4> QED BY <4>1, MadeType
    <3>2. m.id < nextId[d] /\ Early(d, m.src) /\ Alone(d, m)
      BY <3>1 DEF Record, Numbered
    <3> QED BY <1>2, <3>1, <3>2, EarlyStays DEF Alone
  <2>3. Numbered'
    BY <2>2 DEF Numbered
  <2> QED BY <2>1, <2>3 DEF Record
<1> QED BY <1>3, <1>4 DEF OnGroupChannelJob, Hand

LEMMA PanicRecord ==
  ASSUME TypeOK, TypeOK', Onward, Record, NEW c \in Channels, Panic(c) PROVE Record'
<1>1. /\ made'[c] = {} /\ \A d \in Channels \ {c} : made'[d] = made[d]
      /\ \A d \in Channels \ {c} : nextId'[d] = nextId[d]
      /\ \A d \in Channels \ {c} : job'[d] = job[d]
  BY DEF Panic, TypeOK
<1>2. \A i \in Ids : job'[c][i].status = "none"
  BY DEF Panic, TypeOK, NoJob, Job
<1>3. Shown'
  BY <1>1, <1>2 DEF Record, Shown
<1>4. ASSUME NEW d \in Channels \ Followers, NEW m \in made'[d]
      PROVE  m.id < nextId'[d] /\ Early(d, m.src)' /\ Alone(d, m)'
  <2>0. d # c /\ made'[d] = made[d] /\ m \in made[d]
    BY <1>1, <1>4
  <2>1. d # c /\ made'[d] = made[d] /\ m \in made[d] /\ m.src \in Sources /\ nextId'[d] = nextId[d]
    BY <1>1, <2>0, MadeType
  <2>2. m.id < nextId[d] /\ Early(d, m.src) /\ Alone(d, m)
    BY <2>1 DEF Record, Numbered
  <2> QED BY <2>1, <2>2, EarlyStays DEF Alone
<1>5. Numbered'
  BY <1>4 DEF Numbered
<1> QED BY <1>3, <1>5 DEF Record

LEMMA RecordStep == TypeOK /\ Record /\ [Next]_vars => Record'
<1> SUFFICES ASSUME TypeOK, Record, [Next]_vars PROVE Record'
  OBVIOUS
<1>0. TypeOK'
  BY TypeStep
<1>1. ASSUME Onward, UNCHANGED <<job, made, nextId>> PROVE Record'
  BY <1>0, <1>1, QuietRecord
<1>2. CASE UNCHANGED vars
  BY <1>2 DEF vars, Record, Shown, Numbered, Alone, Early
<1>3. CASE Next
  <2>1. PICK c \in Channels : Step(c)
    BY <1>3, StepCases
  <2>2. Onward
    BY <2>1, StepIsOnward
  <2>3. CASE UpdateChannel(c) \/ SkipTemplate(c) \/ GetJob(c) \/ \E s \in SharesFor(c) : ValidateShare(c, s)
    BY <1>1, <2>2, <2>3 DEF UpdateChannel, SkipTemplate, GetJob, ValidateShare
  <2> QED
    BY <1>0, <2>1, <2>2, <2>3, TemplateRecord, PrevHashRecord, CustomRecord, GroupJobRecord,
       PanicRecord DEF Step
<1> QED BY <1>2, <1>3

LEMMA RecordInit == Init => Record
  BY DEF Init, NoJob, Job, Record, Shown, Numbered

\* A job in the store under an id that stands for one job is that job.
LEMMA AloneInStore ==
  ASSUME Record, NEW c \in Channels, NEW m, m.id \in Ids, Alone(c, m), job[c][m.id].status # "none"
  PROVE  job[c][m.id].src = m.src
<1>1. Entry(m.id, job[c][m.id].src) \in made[c]
  BY DEF Record, Shown
<1> QED BY <1>1 DEF Alone, Entry

-----------------------------------------------------------------------------
(* Jobs that are over, and jobs to come.                                   *)

\* Work for src was for a tip before p.
Over(src, p) == \A q \in Nat : For(src, q) => q < p

\* Work for src is for a tip after p, and no other tip came since.
Awaited(src, p) ==
  /\ \A q \in Nat : For(src, q) => p < q
  /\ \A q \in Places : IsPrevHash(q) /\ q < src.n => q <= p

InPlace(c, i) == job[c][i].src \notin astray[c]
StaleIsOver   == \A c \in Channels, i \in Ids :
                   job[c][i].status = "stale" /\ InPlace(c, i) => Over(job[c][i].src, tip[c])
FutureAwaits  == \A c \in Channels, i \in Ids :
                   job[c][i].status = "future" /\ InPlace(c, i) => Awaited(job[c][i].src, tip[c])
HeldAwaits    == held.job.id \in Ids /\ held.job.future => Awaited(held.job.src, held.tip)

\* Where each job, and the snapshot in the program's hand, stands in time.
JobsTimed == StaleIsOver /\ FutureAwaits /\ HeldAwaits

\* A job is made for one tip.
LEMMA ForOneTip ==
  ASSUME NEW src \in Sources, NEW p \in Nat, NEW q \in Nat, For(src, p), For(src, q)
  PROVE  p = q
<1>1. CASE src.on # 0
  BY <1>1 DEF For
<1>2. CASE src.on = 0
  <2>1. BuildsOn(src.n, p) /\ BuildsOn(src.n, q) /\ src.n \in Nat
    BY <1>2 DEF For, Sources
  <2>2. IsPrevHash(p) /\ IsPrevHash(q) /\ p \in Places /\ q \in Places
    BY <2>1 DEF BuildsOn, IsPrevHash
  <2>3. CASE Feed[src.n].future
    <3>1. Feed[p].template = src.n /\ Feed[q].template = src.n
      BY <2>1, <2>3 DEF BuildsOn
    <3> QED BY <2>2, <3>1, FeedAssumption
  <2>4. CASE ~Feed[src.n].future
    <3>1. /\ p < src.n /\ \A r \in p + 1 .. src.n : ~IsPrevHash(r)
          /\ q < src.n /\ \A r \in q + 1 .. src.n : ~IsPrevHash(r)
      BY <2>1, <2>4 DEF BuildsOn
    <3>2. ~(p < q)
      BY <2>1, <2>2, <3>1
    <3>3. ~(q < p)
      BY <2>1, <2>2, <3>1
    <3> QED BY <3>2, <3>3
  <2> QED BY <2>3, <2>4
<1> QED BY <1>1, <1>2

\* What a tip that has come makes of the jobs of the one before.
LEMMA OverLater ==
  ASSUME NEW src \in Sources, NEW p \in Nat, NEW r \in Nat, p < r, For(src, p) \/ Over(src, p)
  PROVE  Over(src, r)
<1>1. ASSUME NEW q \in Nat, For(src, q) PROVE q < r
  <2>1. CASE For(src, p)
    BY <1>1, <2>1, ForOneTip
  <2>2. CASE Over(src, p)
    BY <1>1, <2>2 DEF Over
  <2> QED BY <2>1, <2>2
<1> QED BY <1>1 DEF Over

LEMMA TimelyAdded ==
  ASSUME JobsInv, JobsTimed, NEW c \in Channels, NEW i \in Ids, NEW src \in Sources,
         NEW future \in BOOLEAN, AddJob(c, i, src, future), UNCHANGED <<tip, held>>,
         \A d \in Channels : astray[d] \subseteq astray'[d],
         future /\ src \notin astray'[c] => Awaited(src, tip[c])
  PROVE  JobsTimed'
<1>1. /\ job'[c] = Stored(job[c], i, src, future)
      /\ \A d \in Channels \ {c} : job'[d] = job[d]
  BY AddJobType DEF JobsInv
<1>2. job'[c][i].src = src /\ job'[c][i].status = IF future THEN "future" ELSE "active"
  BY <1>1 DEF Stored, Job
<1>3. \A k \in Ids : k # i =>
        job'[c][k] = job[c][k] \/ job'[c][k].status = "past"
  BY <1>1 DEF Stored, Job
<1>4. ASSUME NEW d \in Channels, NEW k \in Ids
      PROVE  /\ job'[d][k].status = "stale" /\ InPlace(d, k)' => Over(job'[d][k].src, tip[d])
             /\ job'[d][k].status = "future" /\ InPlace(d, k)' => Awaited(job'[d][k].src, tip[d])
  <2>1. CASE d = c /\ k = i
    BY <1>2, <2>1 DEF InPlace
  <2>2. CASE ~(d = c /\ k = i)
    <3>1. job'[d][k] = job[d][k] \/ job'[d][k].status = "past"
      BY <1>1, <1>3, <2>2
    <3> QED BY <3>1 DEF JobsTimed, StaleIsOver, FutureAwaits, InPlace
  <2> QED BY <2>1, <2>2
<1>5. StaleIsOver' /\ FutureAwaits'
  BY <1>4 DEF StaleIsOver, FutureAwaits
<1>6. HeldAwaits'
  BY DEF JobsTimed, HeldAwaits
<1> QED BY <1>5, <1>6 DEF JobsTimed

\* A step that adds no job and moves no tip; jobs may go.
LEMMA TimelyQuiet ==
  ASSUME JobsTimed, UNCHANGED <<tip, held>>,
         \A d \in Channels, i \in Ids :
           \/ job'[d][i] = job[d][i] /\ astray[d] \subseteq astray'[d]
           \/ job'[d][i].status = "none"
  PROVE  JobsTimed'
<1>1. ASSUME NEW d \in Channels, NEW k \in Ids
      PROVE  /\ job'[d][k].status = "stale" /\ InPlace(d, k)' => Over(job'[d][k].src, tip[d])
             /\ job'[d][k].status = "future" /\ InPlace(d, k)' => Awaited(job'[d][k].src, tip[d])
  BY DEF JobsTimed, StaleIsOver, FutureAwaits, InPlace
<1>2. StaleIsOver' /\ FutureAwaits'
  BY <1>1 DEF StaleIsOver, FutureAwaits
<1> QED BY <1>2 DEF JobsTimed, HeldAwaits

LEMMA TimelyTemplate ==
  ASSUME JobsInv, JobsTimed, NEW c \in Channels, OnNewTemplate(c) PROVE JobsTimed'
<1> DEFINE t == pos'[c]
<1>1. /\ Relayed(c) /\ IsTemplate(t) /\ t \in Places /\ t = pos[c] + 1 /\ UNCHANGED <<tip, held, astray>>
      /\ pos[c] \in Nat /\ tip[c] \in Nat /\ life[c] = "fed"
  <2>1. Relayed(c) /\ IsTemplate(t) /\ UNCHANGED <<tip, held, astray>> /\ life[c] = "fed"
    BY DEF OnNewTemplate, Relayed
  <2>2. t \in Places /\ t = pos[c] + 1
    BY <2>1, RelayedType DEF JobsInv
  <2> QED BY <2>1, <2>2, FeedLength DEF JobsInv, TypeOK
<1>2. CASE job' = job
  BY <1>1, <1>2, TimelyQuiet
<1>3. CASE /\ nextId[c] \in Ids
           /\ AddJob(c, nextId[c], TemplateOf(t), Feed[t].future)
  <2>1. TemplateOf(t) \in Sources /\ Feed[t].future \in BOOLEAN
    BY <1>1, SourceType, FeedAssumption DEF Places, IsTemplate
  <2>2. TemplateOf(t).n = t /\ TemplateOf(t).on = 0
    BY DEF TemplateOf, Source
  <2>3. ASSUME Feed[t].future, NEW q \in Nat, For(TemplateOf(t), q) PROVE tip[c] < q
    <3>1. IsPrevHash(q) /\ q \in Places /\ Feed[q].template = t
      BY <2>2, <2>3 DEF For, BuildsOn, IsPrevHash
    <3>2. t < q
      BY <3>1, FeedAssumption
    <3> QED BY <1>1, <3>2 DEF JobsInv, TipIsLast
  <2>4. ASSUME NEW q \in Places, IsPrevHash(q), q < t PROVE q <= tip[c]
    <3>1. q <= pos[c]
      BY <1>1, <2>4 DEF Places
    <3> QED BY <1>1, <2>4, <3>1 DEF JobsInv, TipIsLast, Places
  <2>5. Feed[t].future => Awaited(TemplateOf(t), tip[c])
    BY <2>2, <2>3, <2>4 DEF Awaited
  <2> QED BY <1>1, <1>3, <2>1, <2>5, TimelyAdded
<1> QED BY <1>2, <1>3 DEF OnNewTemplate

\* A job of the store after a prev-hash: the awaited one is active, the others
\* that were work are over, and no future job is left.
LEMMA ActivatedCases ==
  ASSUME NEW js \in [Ids -> [src: Sources, status: Statuses]], NEW i, NEW k \in Ids
  PROVE  \/ js[k].status \in {"active", "past", "stale"} /\ Activated(js, i)[k] = Job(js[k].src, "stale")
         \/ js[k].status = "future" /\ k = i /\ Activated(js, i)[k] = Job(js[k].src, "active")
         \/ js[k].status = "future" /\ k # i /\ Activated(js, i)[k] = NoJob
         \/ js[k].status = "none" /\ Activated(js, i)[k] = js[k]
<1>1. js[k].status \in Statuses /\ js[k].src \in Sources /\ js[k] = [src |-> js[k].src, status |-> js[k].status]
  OBVIOUS
<1> QED BY <1>1 DEF Activated, Statuses, Job

LEMMA TimelyPrevHash ==
  ASSUME JobsInv, JobsTimed, NEW c \in Channels, OnSetNewPrevHash(c) PROVE JobsTimed'
<1> DEFINE p == pos'[c]
<1>1. /\ p \in Places /\ p = pos[c] + 1 /\ held' = held /\ astray' = astray
      /\ pos[c] \in Nat /\ tip[c] \in Nat /\ tip[c] <= pos[c]
  BY RelayedType, FeedLength DEF OnSetNewPrevHash, JobsInv, TypeOK, TipIsLast
<1>2. CASE UNCHANGED <<tip, job>>
  BY <1>1, <1>2, TimelyQuiet
<1>3. ASSUME NEW i, tip' = [tip EXCEPT ![c] = p], job' = [job EXCEPT ![c] = Activated(@, i)]
      PROVE  JobsTimed'
  <2>1. /\ tip'[c] = p /\ job'[c] = Activated(job[c], i)
        /\ \A d \in Channels \ {c} : tip'[d] = tip[d] /\ job'[d] = job[d]
        /\ job[c] \in [Ids -> [src: Sources, status: Statuses]]
    BY <1>3 DEF JobsInv, TypeOK
  <2>2. tip[c] < p /\ p \in Nat
    BY <1>1
  <2> HIDE DEF p
  <2>3. ASSUME NEW k \in Ids
        PROVE  /\ job'[c][k].status = "stale" /\ InPlace(c, k)' => Over(job'[c][k].src, p)
               /\ job'[c][k].status # "future"
    <3>1. job[c][k].src \in Sources
      BY <2>1
    <3>2. InPlace(c, k) =>
            /\ job[c][k].status \in {"active", "past"} => For(job[c][k].src, tip[c])
            /\ job[c][k].status = "stale" => Over(job[c][k].src, tip[c])
      BY DEF JobsInv, JobsBelongToTip, JobsTimed, StaleIsOver, InPlace
    <3>3. InPlace(c, k) /\ job[c][k].status \in {"active", "past", "stale"} => Over(job[c][k].src, p)
      BY <1>1, <2>2, <3>1, <3>2, OverLater
    <3>4. \/ job[c][k].status \in {"active", "past", "stale"} /\ job'[c][k] = Job(job[c][k].src, "stale")
          \/ job'[c][k] = Job(job[c][k].src, "active")
          \/ job'[c][k].status = "none"
      <4>1. \/ /\ job[c][k].status \in {"active", "past", "stale"}
               /\ Activated(job[c], i)[k] = Job(job[c][k].src, "stale")
            \/ Activated(job[c], i)[k] = Job(job[c][k].src, "active")
            \/ Activated(job[c], i)[k] = NoJob
            \/ job[c][k].status = "none" /\ Activated(job[c], i)[k] = job[c][k]
        BY <2>1, ActivatedCases
      <4> QED BY <2>1, <4>1 DEF NoJob, Job
    <3> QED BY <1>1, <3>3, <3>4 DEF Job, InPlace
  <2>4. StaleIsOver' /\ FutureAwaits'
    BY <1>1, <2>1, <2>3 DEF JobsTimed, StaleIsOver, FutureAwaits, InPlace
  <2>5. HeldAwaits'
    BY <1>1 DEF JobsTimed, HeldAwaits
  <2> QED BY <2>4, <2>5 DEF JobsTimed
<1> QED BY <1>2, <1>3 DEF OnSetNewPrevHash

LEMMA TimelyGetJob ==
  ASSUME JobsInv, JobsTimed, NEW c \in Channels, GetJob(c) PROVE JobsTimed'
<1>1. PICK m \in Jobs(c, job[c]) :
        held' = [job |-> m, tip |-> IF m.src.on = 0 THEN tip[c] ELSE m.src.on]
  BY DEF GetJob
<1>2. UNCHANGED <<tip, job, astray>> /\ c \notin Followers
  BY ChannelAssumption DEF GetJob
<1>3. /\ m.id \in Ids /\ m.src = job[c][m.id].src
      /\ m.future => job[c][m.id].status = "future"
  <2>1. job[c] \in [Ids -> [src: Sources, status: Statuses]]
    BY DEF JobsInv, TypeOK
  <2> QED BY <2>1, JobsType
<1>4. ASSUME m.future PROVE m.src.on = 0 /\ Awaited(m.src, tip[c])
  <2>1. m.src.on = 0
    BY <1>3, <1>4 DEF JobsInv, FutureJobsWait, FutureSource
  <2>2. InPlace(c, m.id)
    BY <1>2, <1>3, <2>1 DEF JobsInv, AstrayIsCustom, InPlace
  <2> QED BY <1>3, <1>4, <2>1, <2>2 DEF JobsTimed, FutureAwaits
<1>5. held'.job = m /\ held'.tip = IF m.src.on = 0 THEN tip[c] ELSE m.src.on
  BY <1>1
<1>6. HeldAwaits'
  BY <1>4, <1>5 DEF HeldAwaits
<1> QED BY <1>2, <1>6 DEF JobsTimed, StaleIsOver, FutureAwaits, InPlace

LEMMA TimelyCustom ==
  ASSUME JobsInv, JobsTimed, NEW c \in Channels, OnSetCustomMiningJob(c) PROVE JobsTimed'
<1>1. PICK on \in {p \in Places : IsPrevHash(p)} : Hand(c, nextId[c], Source(custom', on), FALSE, on)
  BY DEF OnSetCustomMiningJob
<1>2. nextId[c] \in Ids /\ custom' \in Nat /\ on \in Nat /\ UNCHANGED <<tip, held>>
  BY DEF OnSetCustomMiningJob, JobsInv, TypeOK, Places
<1>3. PICK src \in Sources : src = Source(custom', on)
  BY <1>2, SourceType
<1>4. Hand(c, nextId[c], src, FALSE, on)
  BY <1>1, <1>3
<1>5. /\ AddJob(c, nextId[c], src, FALSE) /\ astray[c] \subseteq astray'[c]
      /\ \A d \in Channels \ {c} : astray'[d] = astray[d]
  BY <1>2, <1>4, TypeHand DEF JobsInv
<1> QED BY <1>2, <1>5, TimelyAdded

LEMMA TimelyGroupJob ==
  ASSUME JobsInv, JobsTimed, NEW c \in Channels, OnGroupChannelJob(c) PROVE JobsTimed'
<1>1. /\ held.job.id \in Ids /\ held.job.src \in Sources /\ held.job.future \in BOOLEAN
      /\ UNCHANGED <<tip, held>>
  BY DEF OnGroupChannelJob, JobsInv, TypeOK
<1>2. CASE UNCHANGED <<job, astray>>
  BY <1>1, <1>2, TimelyQuiet
<1>3. CASE Hand(c, held.job.id, held.job.src, held.job.future, held.tip)
  <2>1. /\ AddJob(c, held.job.id, held.job.src, held.job.future) /\ astray[c] \subseteq astray'[c]
        /\ held.job.src \notin astray'[c] => held.tip = tip[c]
        /\ \A d \in Channels \ {c} : astray'[d] = astray[d]
    BY <1>1, <1>3, TypeHand DEF JobsInv
  <2>2. held.job.future /\ held.job.src \notin astray'[c] => Awaited(held.job.src, tip[c])
    BY <1>1, <2>1 DEF JobsTimed, HeldAwaits
  <2> QED BY <1>1, <2>1, <2>2, TimelyAdded
<1> QED BY <1>2, <1>3 DEF OnGroupChannelJob

LEMMA TimelyStep ==
  ASSUME JobsInv, JobsTimed, [Next]_vars PROVE JobsTimed'
<1>1. CASE UNCHANGED vars
  BY <1>1, TimelyQuiet DEF vars
<1>2. CASE Next
  <2>1. PICK c \in Channels : Step(c)
    BY <1>2, StepCases
  <2>2. CASE UpdateChannel(c) \/ SkipTemplate(c) \/ \E s \in SharesFor(c) : ValidateShare(c, s)
    <3>1. UNCHANGED <<tip, held, job, astray>>
      BY <2>2 DEF UpdateChannel, SkipTemplate, ValidateShare
    <3> QED BY <3>1, TimelyQuiet
  <2>3. CASE Panic(c)
    <3>1. UNCHANGED <<tip, held>> /\ \A d \in Channels \ {c} : job'[d] = job[d] /\ astray'[d] = astray[d]
      BY <2>3 DEF Panic, JobsInv, TypeOK
    <3>2. \A i \in Ids : job'[c][i].status = "none"
      BY <2>3 DEF Panic, NoJob, Job, JobsInv, TypeOK
    <3>3. ASSUME NEW d \in Channels, NEW i \in Ids
          PROVE  (job'[d][i] = job[d][i] /\ astray[d] \subseteq astray'[d]) \/ job'[d][i].status = "none"
      BY <3>1, <3>2
    <3> QED BY <3>1, <3>3, TimelyQuiet
  <2> QED
    BY <2>1, <2>2, <2>3, TimelyTemplate, TimelyPrevHash, TimelyGetJob, TimelyCustom, TimelyGroupJob DEF Step
<1> QED BY <1>1, <1>2

LEMMA TimelyInit == Init => JobsTimed
  BY DEF Init, JobsTimed, StaleIsOver, FutureAwaits, HeldAwaits, NoJob, Job, NoSnapshot, Ids

\* A share whose work is clear is on a job no other was shown for.
LEMMA ClearIsAlone ==
  ASSUME Record, NEW c \in Channels, NEW s \in SharesFor(c), Clear(c, s)
  PROVE  \E m \in made[c] : s.id = m.id /\ s.src = m.src /\ Alone(c, m) /\ m.src \notin astray[c]
<1>1. PICK m \in made[c] : s.id = m.id /\ s.src = m.src
  BY DEF SharesFor, Share
<1>2. CASE c \in Followers
  BY <1>1, <1>2 DEF Clear, Sole, Alone
<1>3. CASE c \notin Followers
  BY <1>1, <1>3 DEF Clear, Record, Numbered
<1> QED BY <1>1, <1>2, <1>3

\* "Stale" is said only of work for a tip the channel has left, for every feed:
\* also after refused prev-hashes, replaced jobs and panics, and whatever jobs
\* were handed to the channel at the wrong time.
THEOREM StaleWorkIsOver == Spec => []StaleIsStale
<1>1. Init => JobsInv /\ Record /\ JobsTimed
  BY JobsInvInit, RecordInit, TimelyInit
<1>2. JobsInv /\ Record /\ JobsTimed /\ [Next]_vars => (JobsInv /\ Record /\ JobsTimed)'
  BY JobsInvStep, RecordStep, TimelyStep DEF JobsInv
<1>3. JobsInv /\ Record /\ JobsTimed => StaleIsStale
  <2> SUFFICES ASSUME JobsInv, Record, JobsTimed, NEW c \in Channels, NEW s \in SharesFor(c),
                      "Stale" \in Answers(c, s), Clear(c, s)
               PROVE  ~For(s.src, tip[c])
    BY DEF StaleIsStale
  <2>1. PICK m \in made[c] : s.id = m.id /\ s.src = m.src /\ Alone(c, m) /\ m.src \notin astray[c]
    BY ClearIsAlone
  <2>2. m.id \in Ids /\ tip[c] \in Nat
    BY MadeType, FeedLength DEF JobsInv, TypeOK
  <2>3. job[c][m.id].status = "stale"
    <3>1. "Stale" \in Verdicts(c, s)
      BY DEF Answers
    <3> QED BY <2>1, <2>2, <3>1 DEF Verdicts, Accepted
  <2>4. job[c][m.id].src = m.src
    BY <2>1, <2>2, <2>3, AloneInStore
  <2>5. Over(s.src, tip[c])
    BY <2>1, <2>2, <2>3, <2>4 DEF JobsTimed, StaleIsOver, InPlace
  <2> QED BY <2>2, <2>5 DEF Over
<1> QED BY <1>1, <1>2, <1>3, PTL DEF Spec

-----------------------------------------------------------------------------
(* Honest work.                                                            *)

\* The provider sends no prev-hash between a future template and its own.
OrderlyFeed ==
  \A p, q \in Places : IsPrevHash(p) /\ IsPrevHash(q) /\ p < q => p < Feed[q].template

\* Work on a job that has left the store is over, unless the job was handed over
\* at another tip or shares its id or its source.
DroppedIsOver ==
  \A c \in Channels : \A m \in made[c] :
    m.src \notin astray[c] /\ Alone(c, m) /\ job[c][m.id].status = "none" => Over(m.src, tip[c])

\* Nothing leaves a store but with all that was shown of it.
LEMMA DroppedQuiet ==
  ASSUME TypeOK, DroppedIsOver, UNCHANGED <<tip, job, made, astray>> PROVE DroppedIsOver'
  BY DEF DroppedIsOver, Alone

LEMMA DroppedAdded ==
  ASSUME TypeOK, Record, DroppedIsOver, NEW c \in Channels, NEW i \in Ids, NEW src \in Sources,
         NEW future \in BOOLEAN, AddJob(c, i, src, future), UNCHANGED tip,
         \A d \in Channels : astray[d] \subseteq astray'[d]
  PROVE  DroppedIsOver'
<1>1. /\ job'[c] = Stored(job[c], i, src, future)
      /\ \A d \in Channels \ {c} : job'[d] = job[d]
      /\ \A k \in Ids : k # i => (job'[c][k].status = "none" <=> job[c][k].status = "none")
  BY AddJobType
<1>2. job'[c][i].status # "none"
  BY <1>1 DEF Stored, Job
<1>3. /\ made'[c] = made[c] \cup {Entry(i, src)} /\ Entry(i, src).id = i
      /\ \A d \in Channels \ {c} : made'[d] = made[d]
  BY AddJobShows DEF Entry
<1>4. ASSUME NEW d \in Channels, NEW m \in made'[d], job'[d][m.id].status = "none",
             m.src \notin astray'[d], Alone(d, m)'
      PROVE  Over(m.src, tip[d])
  <2>1. m \in made[d] /\ job[d][m.id].status = "none"
    <3>1. CASE d = c
      <4>1. m.id # i
        BY <1>2, <1>4, <3>1
      <4>2. m \in made[c]
        BY <1>3, <1>4, <3>1, <4>1
      <4>3. m.id \in Ids
        BY <4>2, MadeType
      <4> QED BY <1>1, <1>4, <3>1, <4>1, <4>2, <4>3
    <3>2. CASE d # c
      BY <1>1, <1>3, <1>4, <3>2
    <3> QED BY <3>1, <3>2
  <2>2. made[d] \subseteq made'[d]
    BY <1>3
  <2>3. Alone(d, m) /\ m.src \notin astray[d]
    BY <1>4, <2>2 DEF Alone
  <2> QED BY <2>1, <2>3 DEF DroppedIsOver
<1> QED BY <1>4 DEF DroppedIsOver

\* A future job that another template's prev-hash drops will never be activated.
LEMMA PassedOver ==
  ASSUME OrderlyFeed, NEW p \in Places, IsPrevHash(p), NEW r \in Nat, r < p,
         NEW src \in Sources, FutureSource(src), src # TemplateOf(Feed[p].template),
         Awaited(src, r)
  PROVE  Over(src, p)
<1>1. src.on = 0 /\ IsTemplate(src.n) /\ Feed[src.n].future /\ src.n \in Places
  BY DEF FutureSource, IsTemplate
<1>2. src.n < p
  <2>1. src.n # p
    BY <1>1, TemplateIsNoPrevHash
  <2>2. ~(p < src.n)
    BY DEF Awaited, Places
  <2> QED BY <1>1, <2>1, <2>2 DEF Places
<1>3. ASSUME NEW q \in Nat, For(src, q) PROVE q < p
  <2>1. IsPrevHash(q) /\ q \in Places /\ Feed[q].template = src.n
    BY <1>1, <1>3 DEF For, BuildsOn, IsPrevHash
  <2>2. q # p
    BY <1>1, <2>1 DEF TemplateOf, Source, Sources
  <2>3. ~(p < q)
    BY <1>1, <1>2, <2>1 DEF OrderlyFeed, Places
  <2> QED BY <2>2, <2>3 DEF Places
<1> QED BY <1>3 DEF Over

LEMMA DroppedPrevHash ==
  ASSUME OrderlyFeed, JobsInv, Record, JobsTimed, DroppedIsOver,
         NEW c \in Channels, OnSetNewPrevHash(c)
  PROVE  DroppedIsOver'
<1> DEFINE p == pos'[c]
           t == Feed[p].template
<1>1. p \in Places /\ p = pos[c] + 1 /\ IsPrevHash(p)
  BY RelayedType DEF OnSetNewPrevHash, JobsInv
<1>2. pos[c] \in Nat /\ tip[c] \in Nat /\ tip[c] <= pos[c] /\ UNCHANGED <<made, astray>>
  BY FeedLength DEF OnSetNewPrevHash, JobsInv, TypeOK, TipIsLast
<1>3. CASE UNCHANGED <<tip, job>>
  BY <1>2, <1>3, DroppedQuiet DEF JobsInv
<1>4. ASSUME NEW i \in Chosen(c, t), tip' = [tip EXCEPT ![c] = p], job' = [job EXCEPT ![c] = Activated(@, i)]
      PROVE  DroppedIsOver'
  <2>1. /\ tip'[c] = p /\ job'[c] = Activated(job[c], i)
        /\ \A d \in Channels \ {c} : tip'[d] = tip[d] /\ job'[d] = job[d]
        /\ job[c] \in [Ids -> [src: Sources, status: Statuses]]
    BY <1>4 DEF JobsInv, TypeOK
  <2>2. tip[c] < p /\ p \in Nat
    BY <1>1, <1>2
  <2>3. \A k \in Ids : job[c][k].status = "future" =>
          i \in Ids /\ job[c][i].status = "future" /\ job[c][i].src = TemplateOf(t)
    BY DEF Chosen, FutureIds
  <2> HIDE DEF p, t
  <2>4. ASSUME NEW m \in made[c], job'[c][m.id].status = "none", m.src \notin astray[c], Alone(c, m)
        PROVE  Over(m.src, p)
    <3>1. m.id \in Ids /\ m.src \in Sources
      BY MadeType DEF JobsInv
    <3>2. CASE job[c][m.id].status = "none"
      <4>1. Over(m.src, tip[c])
        BY <2>4, <3>2 DEF DroppedIsOver
      <4> QED BY <1>2, <2>2, <3>1, <4>1, OverLater
    <3>3. CASE job[c][m.id].status # "none"
      <4>1. job[c][m.id].src = m.src
        BY <2>4, <3>1, <3>3, AloneInStore
      <4>2. job[c][m.id].status = "future" /\ m.id # i
        <5> PICK k \in Ids : k = m.id
          BY <3>1
        <5>1. \/ Activated(job[c], i)[k] = Job(job[c][k].src, "stale")
              \/ Activated(job[c], i)[k] = Job(job[c][k].src, "active")
              \/ job[c][k].status = "future" /\ k # i
              \/ job[c][k].status = "none"
          BY <2>1, ActivatedCases
        <5>2. Activated(job[c], i)[k].status = "none"
          BY <2>1, <2>4
        <5> QED BY <3>3, <5>1, <5>2 DEF Job
      <4>3. m.src # TemplateOf(t)
        <5>1. i \in Ids /\ job[c][i].status = "future" /\ job[c][i].src = TemplateOf(t)
          BY <2>3, <3>1, <4>2
        <5>2. Entry(i, TemplateOf(t)) \in made[c]
          BY <5>1 DEF Record, Shown
        <5> QED BY <2>4, <4>2, <5>2 DEF Alone, Entry
      <4>4. FutureSource(m.src) /\ Awaited(m.src, tip[c])
        BY <2>4, <3>1, <4>1, <4>2 DEF JobsInv, FutureJobsWait, JobsTimed, FutureAwaits, InPlace
      <4> QED BY <1>1, <1>2, <2>2, <3>1, <4>3, <4>4, PassedOver DEF t
    <3> QED BY <3>2, <3>3
  <2>5. \A d \in Channels : \A m : Alone(d, m)' <=> Alone(d, m)
    BY <1>2 DEF Alone
  <2> QED BY <1>2, <2>1, <2>4, <2>5 DEF DroppedIsOver
<1> QED BY <1>3, <1>4 DEF OnSetNewPrevHash

LEMMA DroppedTemplate ==
  ASSUME JobsInv, Record, DroppedIsOver, NEW c \in Channels, OnNewTemplate(c) PROVE DroppedIsOver'
<1>1. UNCHANGED <<tip, astray>> /\ IsTemplate(pos'[c]) /\ pos'[c] \in Places
  BY RelayedType DEF OnNewTemplate, JobsInv
<1>2. TemplateOf(pos'[c]) \in Sources /\ Feed[pos'[c]].future \in BOOLEAN
  BY <1>1, SourceType, FeedAssumption DEF Places, IsTemplate
<1>3. \/ UNCHANGED <<job, made>>
      \/ nextId[c] \in Ids /\ AddJob(c, nextId[c], TemplateOf(pos'[c]), Feed[pos'[c]].future)
  BY DEF OnNewTemplate
<1> QED BY <1>1, <1>2, <1>3, DroppedQuiet, DroppedAdded DEF JobsInv

LEMMA DroppedCustom ==
  ASSUME JobsInv, Record, DroppedIsOver, NEW c \in Channels, OnSetCustomMiningJob(c) PROVE DroppedIsOver'
<1>1. PICK on \in {p \in Places : IsPrevHash(p)} : Hand(c, nextId[c], Source(custom', on), FALSE, on)
  BY DEF OnSetCustomMiningJob
<1>2. nextId[c] \in Ids /\ custom' \in Nat /\ on \in Nat /\ UNCHANGED tip
  BY DEF OnSetCustomMiningJob, JobsInv, TypeOK, Places
<1>3. PICK src \in Sources : src = Source(custom', on)
  BY <1>2, SourceType
<1>4. Hand(c, nextId[c], src, FALSE, on)
  BY <1>1, <1>3
<1>5. /\ AddJob(c, nextId[c], src, FALSE) /\ astray[c] \subseteq astray'[c]
      /\ \A d \in Channels \ {c} : astray'[d] = astray[d]
  BY <1>2, <1>4, TypeHand DEF JobsInv
<1> QED BY <1>2, <1>5, DroppedAdded DEF JobsInv

LEMMA DroppedGroupJob ==
  ASSUME JobsInv, Record, DroppedIsOver, NEW c \in Channels, OnGroupChannelJob(c) PROVE DroppedIsOver'
<1>1. /\ held.job.id \in Ids /\ held.job.src \in Sources /\ held.job.future \in BOOLEAN
      /\ UNCHANGED tip
  BY DEF OnGroupChannelJob, JobsInv, TypeOK
<1>2. CASE UNCHANGED <<job, made, astray>>
  BY <1>1, <1>2, DroppedQuiet DEF JobsInv
<1>3. CASE Hand(c, held.job.id, held.job.src, held.job.future, held.tip)
  <2>1. /\ AddJob(c, held.job.id, held.job.src, held.job.future) /\ astray[c] \subseteq astray'[c]
        /\ \A d \in Channels \ {c} : astray'[d] = astray[d]
    BY <1>1, <1>3, TypeHand DEF JobsInv
  <2> QED BY <1>1, <2>1, DroppedAdded DEF JobsInv
<1> QED BY <1>2, <1>3 DEF OnGroupChannelJob

LEMMA DroppedStep ==
  ASSUME OrderlyFeed, JobsInv, Record, JobsTimed, DroppedIsOver, [Next]_vars
  PROVE  DroppedIsOver'
<1>1. CASE UNCHANGED vars
  BY <1>1, DroppedQuiet DEF vars, JobsInv
<1>2. CASE Next
  <2>1. PICK c \in Channels : Step(c)
    BY <1>2, StepCases
  <2>2. CASE UpdateChannel(c) \/ SkipTemplate(c) \/ GetJob(c) \/ \E s \in SharesFor(c) : ValidateShare(c, s)
    <3>1. UNCHANGED <<tip, made, job, astray>>
      BY <2>2 DEF UpdateChannel, SkipTemplate, GetJob, ValidateShare
    <3> QED BY <3>1, DroppedQuiet DEF JobsInv
  <2>3. CASE Panic(c)
    <3>1. /\ UNCHANGED tip /\ made'[c] = {}
          /\ \A d \in Channels \ {c} : made'[d] = made[d] /\ job'[d] = job[d] /\ astray'[d] = astray[d]
      BY <2>3 DEF Panic, JobsInv, TypeOK
    <3> QED BY <3>1 DEF DroppedIsOver, Alone
  <2> QED
    BY <2>1, <2>2, <2>3, DroppedTemplate, DroppedPrevHash, DroppedCustom, DroppedGroupJob DEF Step
<1> QED BY <1>1, <1>2

\* A job a client knows, for the tip of its channel, can be worked on.
LEMMA KnownIsActive ==
  ASSUME JobsInv, Record, JobsTimed, DroppedIsOver,
         NEW c \in Channels, NEW m \in made[c], For(m.src, tip[c]), Alone(c, m), m.src \notin astray[c]
  PROVE  /\ job[c][m.id].status \in {"active", "past"} /\ job[c][m.id].src = m.src
         /\ m.id \in Ids /\ tip[c] # 0
<1>1. m.id \in Ids /\ m.src \in Sources /\ tip[c] \in Nat
  BY MadeType, FeedLength DEF JobsInv, TypeOK
<1>2. job[c][m.id].status # "none"
  BY <1>1 DEF DroppedIsOver, Over
<1>3. job[c][m.id].src = m.src
  BY <1>1, <1>2, AloneInStore
<1>4. job[c][m.id].status # "stale"
  BY <1>1, <1>3 DEF JobsTimed, StaleIsOver, Over, InPlace
<1>5. job[c][m.id].status # "future"
  BY <1>1, <1>3 DEF JobsTimed, FutureAwaits, Awaited, InPlace
<1>6. job[c][m.id].status \in Statuses
  BY <1>1 DEF JobsInv, TypeOK
<1>7. tip[c] # 0
  BY <1>1 DEF For, BuildsOn, IsPrevHash, Places
<1> QED BY <1>1, <1>2, <1>3, <1>4, <1>5, <1>6, <1>7 DEF Statuses

\* When the provider completes a future template before it sends another
\* prev-hash, work a client did on a job it was told of is not refused while its
\* tip lasts.
THEOREM HonestWorkIsAccepted ==
  ASSUME OrderlyFeed
  PROVE  Spec => []HonestWorkCounts
<1> DEFINE I == JobsInv /\ Record /\ JobsTimed /\ DroppedIsOver
<1>1. Init => I
  <2>1. Init => DroppedIsOver
    BY DEF Init, DroppedIsOver
  <2> QED BY <2>1, JobsInvInit, RecordInit, TimelyInit
<1>2. I /\ [Next]_vars => I'
  BY JobsInvStep, RecordStep, TimelyStep, DroppedStep DEF JobsInv
<1>3. I => HonestWorkCounts
  <2> SUFFICES ASSUME I, NEW c \in Channels, NEW s \in SharesFor(c), Honest(c, s), Clear(c, s)
               PROVE  Answers(c, s) \subseteq Accepted \cup {"BlockFound"}
    BY DEF HonestWorkCounts
  <2>1. PICK m \in made[c] : s.id = m.id /\ s.src = m.src /\ Alone(c, m) /\ m.src \notin astray[c]
    BY ClearIsAlone
  <2>2. /\ job[c][s.id].status \in {"active", "past"} /\ job[c][s.id].src = s.src
        /\ s.id \in Ids /\ tip[c] # 0
    BY <2>1, KnownIsActive DEF Honest
  <2>3. Answers(c, s) = Verdicts(c, s)
    BY DEF Honest, Answers
  <2>4. Verdicts(c, s) = IF s.nonce = "block" THEN {"BlockFound"} ELSE Accepted
    BY <2>2 DEF Honest, Verdicts
  <2> QED BY <2>3, <2>4
<1> HIDE DEF I
<1> QED BY <1>1, <1>2, <1>3, PTL DEF Spec

=============================================================================

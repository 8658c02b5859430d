---------------------------- MODULE ChannelServer ----------------------------
(***************************************************************************)
(* The mining channels of a server after their bootstrap, and the programs *)
(* that feed them: channels/server/extended.rs, standard.rs, group.rs and  *)
(* the job snapshots of jobs/.  Every method holds the one mutex of its    *)
(* object from its first line to its last, so a call is one step;          *)
(* on_group_channel_job takes the mutex of the job inside that of the      *)
(* channel, and no method that holds a job's mutex asks for another.       *)
(*                                                                         *)
(* A template is its place in the provider's feed, a chain tip the place   *)
(* of its prev-hash.  What a job and a share hash to is told apart by the  *)
(* job's source, the tip and a nonce.                                      *)
(***************************************************************************)
EXTENDS Naturals, Sequences, FiniteSets

CONSTANTS
  Channels,     \* the channels of the server
  Deployments,  \* what a server may have open, and the bounds: the jobs a client
                \* learns of, the shares it gets counted, the custom jobs
  Kind,         \* which object each is: "extended", "standard" or "group"
  Feed,         \* the messages of the template provider, in their order
  Nonces,       \* nonces of shares: "easy", "hard" and "block" by their hash
  MaxJobs,      \* bound: job ids of a channel
  Leader,       \* the extended channel whose jobs go to the followers
  Followers     \* standard channels the program passes them to

VARIABLES
  server,    \* the deployment
  pos,       \* how many messages of the feed each channel was handed
  life,      \* "fed", "left" after an exception, "poisoned" after a panic, or "none"
  tip,       \* the channel's chain tip, 0 before the first
  nextId,    \* the job id its factory gives out next
  job,       \* its job store: jobs by id
  target,    \* its target
  seen,      \* the work it has accepted since the last tip
  held,      \* the job snapshot the program holds
  made,      \* history: the jobs a client may have been told of
  astray,    \* history: sources of jobs handed to it at another tip than theirs
  custom,    \* custom jobs declared so far
  credited,  \* history: the work it has accepted
  accepted   \* history: how often it answered that a share is valid

vars == <<server, pos, life, tip, nextId, job, target, seen, held, made, astray, custom, credited, accepted>>

Places   == 1 .. Len(Feed)
Ids      == 1 .. MaxJobs
Statuses == {"none", "future", "active", "past", "stale"}

-----------------------------------------------------------------------------
(* Sources of jobs, and the chain tip each was made for.                   *)

IsTemplate(n) == n \in Places /\ Feed[n].type = "template"
IsPrevHash(n) == n \in Places /\ Feed[n].type = "prev_hash"

\* The tip a template builds on: its own prev-hash if it is a future template,
\* otherwise the last prev-hash the provider sent before it.
BuildsOn(t, p) ==
  /\ IsPrevHash(p)
  /\ IF Feed[t].future
       THEN Feed[p].template = t
       ELSE p < t /\ \A q \in p + 1 .. t : ~IsPrevHash(q)

ASSUME ChannelAssumption ==
  /\ Deployments \subseteq [open: SUBSET Channels, jobs: [Channels -> Nat],
                            shares: [Channels -> Nat], custom: Nat]
  /\ Kind \in [Channels -> {"extended", "standard", "group"}]
  /\ Leader \in Channels => Kind[Leader] = "extended"
  /\ Followers \subseteq {c \in Channels : Kind[c] = "standard"}

\* The provider sends a future template before its prev-hash, and one prev-hash
\* for one future template.
ASSUME FeedAssumption ==
  /\ Feed \in Seq([type: {"template"}, future: BOOLEAN] \cup [type: {"prev_hash"}, template: Nat])
  /\ \A p \in Places : IsPrevHash(p) =>
       /\ IsTemplate(Feed[p].template) /\ Feed[Feed[p].template].future
       /\ Feed[p].template < p
       /\ \A q \in Places : IsPrevHash(q) /\ Feed[q].template = Feed[p].template => q = p

ASSUME BoundAssumption ==
  MaxJobs \in Nat /\ Nonces \subseteq {"easy", "hard", "block"}

\* A job: a template's, or custom work whose prev-hash is that of tip "on".
Source(n, on)  == [n |-> n, on |-> on]
TemplateOf(t)  == Source(t, 0)
Sources        == [n: Nat, on: Nat]
For(src, p)    == IF src.on = 0 THEN BuildsOn(src.n, p) ELSE src.on = p

Job(src, status) == [src |-> src, status |-> status]
NoJob            == Job(Source(0, 0), "none")
NoSnapshot       == [job |-> [id |-> 0, src |-> Source(0, 0), future |-> FALSE], tip |-> 0]

Init ==
  /\ server \in Deployments
  /\ pos      = [c \in Channels |-> 0]
  /\ life     = [c \in Channels |-> IF c \in server.open THEN "fed" ELSE "none"]
  /\ tip      = [c \in Channels |-> 0]
  /\ nextId   = [c \in Channels |-> 1]
  /\ job      = [c \in Channels |-> [i \in Ids |-> NoJob]]
  /\ target   = [c \in Channels |-> "easy"]
  /\ seen     = [c \in Channels |-> {}]
  /\ held     = NoSnapshot
  /\ made     = [c \in Channels |-> {}]
  /\ astray   = [c \in Channels |-> {}]
  /\ custom   = 0
  /\ credited = [c \in Channels |-> {}]
  /\ accepted = [c \in Channels |-> 0]

shares == <<credited, accepted>>

-----------------------------------------------------------------------------
(* The job store of the library.                                           *)

\* A job made under an id, in the place of one that had it: a future one waits,
\* any other becomes the active job and the one it replaces is kept for late
\* shares.
Stored(js, i, src, future) ==
  [k \in Ids |->
     IF k = i THEN Job(src, IF future THEN "future" ELSE "active")
     ELSE IF ~future /\ js[k].status = "active" THEN Job(js[k].src, "past")
     ELSE js[k]]

\* The future jobs a prev-hash may activate: one of its template.  Without future
\* jobs (0) it only sets the tip; with none of its template it is refused.
FutureIds(c) == {i \in Ids : job[c][i].status = "future"}
Chosen(c, t) == IF FutureIds(c) = {} THEN {0} ELSE {i \in FutureIds(c) : job[c][i].src = TemplateOf(t)}

\* A prev-hash: future job i is active, the jobs of the last tip are stale, and
\* other future jobs go.
Activated(js, i) ==
  [k \in Ids |->
     IF js[k].status = "future" THEN IF k = i THEN Job(js[k].src, "active") ELSE NoJob
     ELSE IF js[k].status \in {"active", "past"} THEN Job(js[k].src, "stale")
     ELSE js[k]]

-----------------------------------------------------------------------------
(* Snapshots: clones that no later call of the channel changes.            *)

\* Mutant: the conversion forgets that a job has no min_ntime yet.
ExtendedJobNow(js, i) == [id |-> i, src |-> js[i].src, future |-> FALSE]

ExtendedJob(js, i) == [id |-> i, src |-> js[i].src, future |-> js[i].status = "future"]
StandardJob(js, i) == [id |-> i, src |-> js[i].src, future |-> js[i].status = "future"]

\* get_future_jobs, get_active_job and get_past_jobs.  A group channel has no
\* getter for past jobs.
ExtendedJobs(js) == {ExtendedJob(js, i) : i \in {k \in Ids : js[k].status \in {"future", "active", "past"}}}
StandardJobs(js) == {StandardJob(js, i) : i \in {k \in Ids : js[k].status \in {"future", "active", "past"}}}
GroupJobs(js)    == {ExtendedJob(js, i) : i \in {k \in Ids : js[k].status \in {"future", "active"}}}

Jobs(c, js) ==
  CASE Kind[c] = "extended" -> ExtendedJobs(js)
    [] Kind[c] = "standard" -> StandardJobs(js)
    [] Kind[c] = "group"    -> GroupJobs(js)

-----------------------------------------------------------------------------
(* Templates and prev-hashes.                                              *)

\* Every method begins with the lock of its channel.
Locks(c) == life[c] \in {"fed", "left"}

\* The program hands a channel the next message of the feed.
Relayed(c) ==
  /\ life[c] = "fed"
  /\ pos[c] < Len(Feed)
  /\ pos' = [pos EXCEPT ![c] = @ + 1]

\* A call raised an exception: the program gives the channel no more work.
Leave(c) == life' = [life EXCEPT ![c] = "left"]

\* A client learns of a job what the getters show of it.
Known(m) == [id |-> m.id, src |-> m.src]

\* Mutant: late shares for a job are not served.
AddJobStaling(c, i, src, future) ==
  /\ Cardinality(made[c]) < server.jobs[c]
  /\ job'  = [job EXCEPT ![c] =
       [k \in Ids |-> IF ~future /\ k # i /\ @[k].status = "active" THEN Job(@[k].src, "stale")
                      ELSE Stored(@, i, src, future)[k]]]
  /\ made' = [made EXCEPT ![c] = @ \cup {Known(m) : m \in Jobs(c, job'[c])}]

AddJob(c, i, src, future) ==
  /\ Cardinality(made[c]) < server.jobs[c]
  /\ job'  = [job EXCEPT ![c] = Stored(job[c], i, src, future)]
  /\ made' = [made EXCEPT ![c] = @ \cup {Known(m) : m \in Jobs(c, job'[c])}]

\* on_new_template: the conversion or the library may refuse the template.
OnNewTemplate(c) ==
  /\ Relayed(c) /\ IsTemplate(pos'[c])
  /\ \/ /\ nextId[c] \in Ids
        /\ Feed[pos'[c]].future \/ tip[c] # 0
        /\ AddJob(c, nextId[c], TemplateOf(pos'[c]), Feed[pos'[c]].future)
        /\ nextId' = [nextId EXCEPT ![c] = @ + 1]
        /\ UNCHANGED life
     \/ Leave(c) /\ UNCHANGED <<nextId, job, made>>
  /\ UNCHANGED <<tip, target, seen, held, astray, custom, shares>>

\* The program leaves a template to the leader.
SkipTemplate(c) ==
  /\ Relayed(c) /\ IsTemplate(pos'[c]) /\ c \in Followers
  /\ UNCHANGED <<life, tip, nextId, job, target, seen, held, made, astray, custom, shares>>

\* on_set_new_prev_hash: work accepted for the last tip is forgotten.
OnSetNewPrevHash(c) ==
  /\ Relayed(c) /\ IsPrevHash(pos'[c])
  /\ LET chosen == Chosen(c, Feed[pos'[c]].template) IN
     \/ /\ \E i \in chosen : job' = [job EXCEPT ![c] = Activated(@, i)]
        /\ tip'  = [tip EXCEPT ![c] = pos'[c]]
        /\ seen' = [seen EXCEPT ![c] = {}]
        /\ UNCHANGED life
     \/ chosen = {} /\ Leave(c) /\ UNCHANGED <<tip, job, seen>>
  /\ UNCHANGED <<nextId, target, held, made, astray, custom, shares>>

\* A job of another's making is handed to a channel, at the tip it is for or not.
Hand(c, i, src, future, on) ==
  /\ AddJob(c, i, src, future)
  /\ astray' = [astray EXCEPT ![c] = IF on = tip[c] THEN @ ELSE @ \cup {src}]

\* Mutant: the custom job does not take up an id.
OnSetCustomMiningJobSameId(c) ==
  /\ Kind[c] = "extended" /\ Locks(c)
  /\ custom < server.custom /\ nextId[c] \in Ids
  /\ custom' = custom + 1
  /\ \E on \in {p \in Places : IsPrevHash(p)} :
       Hand(c, nextId[c], Source(custom', on), FALSE, on)
  /\ UNCHANGED <<pos, life, tip, nextId, target, seen, held, shares>>

\* on_set_custom_mining_job: the prev-hash of the message is passed on as it is.
OnSetCustomMiningJob(c) ==
  /\ Kind[c] = "extended" /\ Locks(c)
  /\ custom < server.custom /\ nextId[c] \in Ids
  /\ custom' = custom + 1
  /\ \E on \in {p \in Places : IsPrevHash(p)} :
       Hand(c, nextId[c], Source(custom', on), FALSE, on)
  /\ nextId' = [nextId EXCEPT ![c] = @ + 1]
  /\ UNCHANGED <<pos, life, tip, target, seen, held, shares>>

\* update_channel: shares are judged by the new target from now on (bound: where
\* shares are counted).
UpdateChannel(c) ==
  /\ Kind[c] # "group" /\ Locks(c) /\ server.shares[c] > 0
  /\ target' = [target EXCEPT ![c] = IF @ = "easy" THEN "hard" ELSE "easy"]
  /\ UNCHANGED <<pos, life, tip, nextId, job, seen, held, made, astray, custom, shares>>

\* The library panics inside a call: every later call of the channel answers
\* LockError, so its store is out of reach.
Panic(c) ==
  /\ Locks(c)
  /\ life'   = [life EXCEPT ![c] = "poisoned"]
  /\ job'    = [job EXCEPT ![c] = [i \in Ids |-> NoJob]]
  /\ seen'   = [seen EXCEPT ![c] = {}]
  /\ made'   = [made EXCEPT ![c] = {}]
  /\ astray' = [astray EXCEPT ![c] = {}]
  /\ nextId' = [nextId EXCEPT ![c] = 1]
  /\ target' = [target EXCEPT ![c] = "easy"]
  /\ UNCHANGED <<pos, tip, held, custom, shares>>

-----------------------------------------------------------------------------
(* Group jobs.                                                             *)

\* The program takes a job of the leader from one of its getters; it is for the
\* leader's tip, or for that of its message.
GetJob(c) ==
  /\ c = Leader /\ Locks(c) /\ \E d \in Followers : life[d] = "fed"
  /\ \E m \in Jobs(c, job[c]) :
       held' = [job |-> m, tip |-> IF m.src.on = 0 THEN tip[c] ELSE m.src.on]
  /\ UNCHANGED <<pos, life, tip, nextId, job, target, seen, made, astray, custom, shares>>

\* on_group_channel_job: the job keeps the id its own channel gave it, and is
\* taken at whatever tip this one is.  The library may refuse it.
OnGroupChannelJob(c) ==
  /\ c \in Followers /\ life[c] = "fed"
  /\ held.job.id \in Ids
  /\ \/ Hand(c, held.job.id, held.job.src, held.job.future, held.tip) /\ UNCHANGED life
     \/ Leave(c) /\ UNCHANGED <<job, made, astray>>
  /\ UNCHANGED <<pos, tip, nextId, target, seen, held, custom, shares>>

-----------------------------------------------------------------------------
(* Shares.                                                                 *)

\* A share names a job id; what was hashed is the source, tip and nonce.
Share(i, src, p, nonce, form) == [id |-> i, src |-> src, tip |-> p, nonce |-> nonce, form |-> form]
Work(s) == [src |-> s.src, tip |-> s.tip, nonce |-> s.nonce]

Meets(c, nonce) == nonce \in {"hard", "block"} \/ target[c] = "easy"

Accepted == {"Valid", "ValidWithAcknowledgement"}

\* The library's verdict on a share.  It hashes its own job and tip: other work
\* than the miner's meets the target by chance only.  Whether it looks for
\* duplicates among shares that solve a block is its own.
Verdicts(c, s) ==
  LET j == IF s.id \in Ids THEN job[c][s.id] ELSE NoJob IN
  CASE j.status = "stale"                 -> {"Stale"}
    [] j.status \in {"none", "future"}    -> {"InvalidJobId"}
    [] OTHER ->
         IF tip[c] = 0 THEN {"NoChainTip"}
         ELSE IF s.form = "malformed" THEN {"Invalid", "VersionRollingNotAllowed", "InvalidCoinbase"}
         ELSE IF j.src # s.src \/ tip[c] # s.tip \/ ~Meets(c, s.nonce) THEN {"DoesNotMeetTarget"}
         ELSE IF Work(s) \in seen[c]
                THEN {"DuplicateShare"} \cup {"BlockFound" : n \in {s.nonce} \cap {"block"}}
         ELSE IF s.nonce = "block" THEN {"BlockFound"}
         ELSE Accepted

\* validate_share: the lock, the conversion, and the library's verdict mapped
\* to the answer of the same name.
Answers(c, s) ==
  IF ~Locks(c) THEN {"LockError"}
  ELSE IF s.form = "unconvertible" THEN {"FailedToConvertMessage"}
  ELSE Verdicts(c, s)

Bounded(c, s) == Cardinality(seen[c] \cup credited[c] \cup {Work(s)}) <= server.shares[c]

\* Mutant: the share is judged by a copy of the channel, as the codec does it.
ValidateShareOnCopy(c, s) ==
  /\ Bounded(c, s)
  /\ \/ /\ Answers(c, s) \cap Accepted # {}
        /\ credited' = [credited EXCEPT ![c] = @ \cup {Work(s)}]
        /\ accepted' = [accepted EXCEPT ![c] = @ + 1]
        /\ UNCHANGED seen
     \/ /\ "BlockFound" \in Answers(c, s)
        /\ seen' = [seen EXCEPT ![c] = @ \cup {Work(s)}]
        /\ UNCHANGED shares
  /\ UNCHANGED <<pos, life, tip, nextId, job, target, held, made, astray, custom>>

\* validate_share of a share it accepts, or of one that solves a block; any
\* other answer changes nothing.
ValidateShare(c, s) ==
  /\ Bounded(c, s)
  /\ \/ /\ Answers(c, s) \cap Accepted # {}
        /\ seen'     = [seen EXCEPT ![c] = @ \cup {Work(s)}]
        /\ credited' = [credited EXCEPT ![c] = @ \cup {Work(s)}]
        /\ accepted' = [accepted EXCEPT ![c] = @ + 1]
     \/ /\ "BlockFound" \in Answers(c, s)
        /\ seen' = [seen EXCEPT ![c] = @ \cup {Work(s)}]
        /\ UNCHANGED shares
  /\ UNCHANGED <<pos, life, tip, nextId, job, target, held, made, astray, custom>>

\* What a client sends: work on a job it may have been told of, for the tip the
\* channel has or an earlier one, and shares that are no share.
SharesFor(c) ==
  {Share(m.id, m.src, p, nonce, form) :
     m \in made[c], p \in {q \in 1 .. pos[c] : IsPrevHash(q)}, nonce \in Nonces,
     form \in {"good", "malformed", "unconvertible"}}

-----------------------------------------------------------------------------
(* The objects: which calls each offers.                                   *)

ExtendedCall(c) ==
  /\ Kind[c] = "extended"
  /\ \/ UpdateChannel(c) \/ OnNewTemplate(c) \/ OnSetNewPrevHash(c) \/ OnSetCustomMiningJob(c)
     \/ \E s \in SharesFor(c) : ValidateShare(c, s)

StandardCall(c) ==
  /\ Kind[c] = "standard"
  /\ \/ UpdateChannel(c) \/ OnNewTemplate(c) \/ OnGroupChannelJob(c) \/ OnSetNewPrevHash(c)
     \/ \E s \in SharesFor(c) : ValidateShare(c, s)

GroupCall(c) ==
  /\ Kind[c] = "group"
  /\ OnNewTemplate(c) \/ OnSetNewPrevHash(c)

Next ==
  /\ \E c \in Channels :
       ExtendedCall(c) \/ StandardCall(c) \/ GroupCall(c) \/ GetJob(c) \/ SkipTemplate(c) \/ Panic(c)
  /\ UNCHANGED server

Spec == Init /\ [][Next]_vars

-----------------------------------------------------------------------------
(* Properties.                                                             *)

Works == [src: Sources, tip: Nat, nonce: Nonces]

\* No channel has a job under an id its factory is still to give out, unless it
\* was passed on from another.
TypeOK ==
  /\ server \in Deployments
  /\ pos \in [Channels -> 0 .. Len(Feed)]
  /\ life \in [Channels -> {"fed", "left", "poisoned", "none"}]
  /\ tip \in [Channels -> 0 .. Len(Feed)]
  /\ nextId \in [Channels -> 1 .. MaxJobs + 1]
  /\ job \in [Channels -> [Ids -> [src: Sources, status: Statuses]]]
  /\ target \in [Channels -> {"easy", "hard"}]
  /\ held \in [job: [id: 0 .. MaxJobs, src: Sources, future: BOOLEAN], tip: Nat]
  /\ custom \in Nat
  /\ made \in [Channels -> SUBSET [id: Ids, src: Sources]]
  /\ astray \in [Channels -> SUBSET Sources]
  /\ seen \in [Channels -> SUBSET Works]
  /\ credited \in [Channels -> SUBSET Works]
  /\ accepted \in [Channels -> Nat]
  /\ \A c \in Channels \ Followers : \A i \in Ids : i >= nextId[c] => job[c][i].status = "none"

\* No miner works on a template under the prev-hash of another: an active or
\* past job was made for the tip its channel is at, although channels lag, calls
\* fail, and jobs are passed from one channel to another.  A job handed over for
\* another tip, which nothing here prevents, spoils no job but itself.
JobsBelongToTip ==
  \A c \in Channels, i \in Ids :
    /\ job[c][i].status \in {"active", "past"}
    /\ job[c][i].src \notin astray[c]
    => For(job[c][i].src, tip[c])

\* What a share names is one job: always for a channel that numbers its jobs
\* itself, and for one that is passed jobs of another's numbers while its client
\* knows of no second job of that id or second id of that job.
Sole(c, s) == \A m \in made[c] : m.id = s.id <=> m.src = s.src
Clear(c, s) == s.src \notin astray[c] /\ (c \in Followers => Sole(c, s))

\* Work a client did on a job it was told of, for the tip of its channel, good
\* for its target and not sent before is accepted, whatever jobs came after.
Honest(c, s) ==
  /\ s.form = "good" /\ Locks(c)
  /\ s.tip = tip[c] /\ For(s.src, s.tip)
  /\ Meets(c, s.nonce) /\ Work(s) \notin seen[c]

HonestWorkCounts ==
  \A c \in Channels : Kind[c] # "group" =>
    \A s \in SharesFor(c) :
      Honest(c, s) /\ Clear(c, s) => Answers(c, s) \subseteq Accepted \cup {"BlockFound"}

\* "Stale" is said only of work for a tip the channel has left, whatever the
\* miner has meanwhile been told.
StaleIsStale ==
  \A c \in Channels : \A s \in SharesFor(c) :
    "Stale" \in Answers(c, s) /\ Clear(c, s) => ~For(s.src, tip[c])

\* Shares are accepted once each, and only for the tip of their channel.
Ledger == INSTANCE ShareLedger
ImplementsLedger == Ledger!Spec

=============================================================================

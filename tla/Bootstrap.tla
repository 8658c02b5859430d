------------------------------ MODULE Bootstrap ------------------------------
(***************************************************************************)
(* How a mining server opens channels: MiningServerContext,                *)
(* ConnectionContext and the two bootstrap functions of python/examples,   *)
(* over the extranonce prefix factories and the channels of                *)
(* src/channels/server.                                                    *)
(*                                                                         *)
(* One mining server has one prefix factory per kind of channel and caches *)
(* the last future template and the last prev-hash the template provider   *)
(* sent.  Each connection numbers its channels.  A bootstrap is a sequence *)
(* of calls on shared objects; between two of them other connections run   *)
(* and the provider's next message may be cached, unless the server is     *)
(* SingleThreaded as the examples are.                                     *)
(*                                                                         *)
(* A template is its number, counted from 1, and stands for the job made   *)
(* from it; 0 is no template.  A prev-hash is the number of the template   *)
(* it activates, and stands for each of the fields it carries.             *)
(***************************************************************************)
EXTENDS Integers

CONSTANTS
  Connections,    \* the connections of one mining server
  Flags,          \* the SetupConnection flags of each connection
  Rollable,       \* rollable_size of the factory for extended channels
  MinSizes,       \* min_extranonce_size values the clients ask for
  Capacity,       \* how many prefixes each factory can give out
  SingleThreaded, \* TRUE: one bootstrap at a time, and no message cached meanwhile
  MaxTemplate,    \* bound: number of templates the provider sends
  MaxRequests     \* bound: open requests per connection

Kinds == {"standard", "extended"}

ASSUME FlagsAssumption ==
  Flags \in [Connections -> SUBSET {"standard_jobs", "work_selection"}]
ASSUME SizesAssumption ==
  /\ Rollable \in Nat /\ MinSizes \subseteq Nat
  /\ Capacity \in [Kinds -> Nat]
ASSUME SingleThreadedAssumption == SingleThreaded \in BOOLEAN
ASSUME BoundsAssumption == MaxTemplate \in Nat \ {0} /\ MaxRequests \in Nat

VARIABLES
  cache,      \* cached_future_template and cached_set_new_prev_hash_tdp
  used,       \* how many prefixes each factory has given out
  nextId,     \* channel_id_factory of each connection
  chan,       \* group_channel, standard_channels and extended_channels, by id
  members,    \* standard channel ids of the group channel
  step,       \* where the connection's constructor or bootstrap stands
  request,    \* the request being served
  prefix,     \* extranonce_prefix of the running bootstrap
  id,         \* channel id of the running bootstrap
  job,        \* the future job message of the running bootstrap
  note,       \* the fields of SetNewPrevHashMining it has read so far
  requests,   \* requests received so far
  announced,  \* history: the channels the clients were told of
  raised      \* history: the channel ids of bootstraps an exception ended

connection == <<nextId, chan, members>>
bootstrap  == <<step, request, prefix, id, job, note>>
history    == <<announced, raised>>
vars       == <<cache, used, connection, bootstrap, requests, history>>

Ids       == 0 .. MaxRequests
Templates == 0 .. MaxTemplate
NoRequest == [kind |-> "none", min |-> 0]
NoNote    == [prev_hash |-> 0, ntime |-> 0]

NewChannel(kind, p) == [kind |-> kind, prefix |-> p, future |-> 0, active |-> 0, tip |-> 0]
NoChannel           == NewChannel("none", 0)

HasGroup(c) == Flags[c] = {}

\* The group channel takes the first id of its connection's counter.
GroupId == 0

Init ==
  /\ cache     = [template |-> 1, prevHash |-> 1]
  /\ used      = [k \in Kinds |-> 0]
  /\ nextId    = [c \in Connections |-> 0]
  /\ chan      = [c \in Connections |-> [i \in Ids |-> NoChannel]]
  /\ members   = [c \in Connections |-> {}]
  /\ step      = [c \in Connections |-> "new"]
  /\ request   = [c \in Connections |-> NoRequest]
  /\ prefix    = [c \in Connections |-> 0]
  /\ id        = [c \in Connections |-> 0]
  /\ job       = [c \in Connections |-> 0]
  /\ note      = [c \in Connections |-> NoNote]
  /\ requests  = [c \in Connections |-> 0]
  /\ announced = {}
  /\ raised    = {}

Waiting == {"new", "idle", "failed"}

\* Whoever starts something now: in a single-threaded server nothing else runs.
MayStart == SingleThreaded => \A c \in Connections : step[c] \in Waiting

Goto(c, s) == step' = [step EXCEPT ![c] = s]

-----------------------------------------------------------------------------
(* The template provider.                                                  *)

\* "continuously cached as they are sent": a future template comes first ...
NewTemplate ==
  /\ MayStart
  /\ cache.template < MaxTemplate
  /\ cache' = [cache EXCEPT !.template = @ + 1]
  /\ UNCHANGED <<used, connection, bootstrap, requests, history>>

\* ... and the prev-hash that activates it in a message of its own.
SetNewPrevHash ==
  /\ MayStart
  /\ cache.prevHash < cache.template
  /\ cache' = [cache EXCEPT !.prevHash = cache.template]
  /\ UNCHANGED <<used, connection, bootstrap, requests, history>>

-----------------------------------------------------------------------------
(* Channels: on_new_template of a future template, on_set_new_prev_hash.   *)

OnNewTemplate(ch, t) == [ch EXCEPT !.future = t]

\* Without future jobs only the chain tip is set; with one, the prev-hash must
\* be that of its template.
Accepts(ch, p) == ch.future \in {0, p}

OnSetNewPrevHash(ch, p) ==
  [ch EXCEPT !.tip = p, !.active = ch.future, !.future = 0]

-----------------------------------------------------------------------------
(* The constructor of ConnectionContext.                                   *)

Connect(c) ==
  /\ step[c] = "new" /\ MayStart
  /\ IF HasGroup(c)
       THEN /\ nextId' = [nextId EXCEPT ![c] = @ + 1]
            /\ chan'   = [chan EXCEPT ![c][nextId[c]] = NewChannel("group", 0)]
            /\ Goto(c, "g_template")
       ELSE Goto(c, "idle") /\ UNCHANGED <<nextId, chan>>
  /\ UNCHANGED <<cache, used, members, request, prefix, id, job, note, requests, history>>

\* The library may refuse the template: the exception leaves the constructor.
GroupTemplate(c) ==
  /\ step[c] = "g_template"
  /\ \/ /\ chan' = [chan EXCEPT ![c][GroupId] = OnNewTemplate(@, cache.template)]
        /\ Goto(c, "g_tip")
     \/ Goto(c, "failed") /\ UNCHANGED chan
  /\ UNCHANGED <<cache, used, nextId, members, request, prefix, id, job, note, requests, history>>

GroupTip(c) ==
  /\ step[c] = "g_tip"
  /\ IF Accepts(chan[c][GroupId], cache.prevHash)
       THEN /\ chan' = [chan EXCEPT ![c][GroupId] = OnSetNewPrevHash(@, cache.prevHash)]
            /\ Goto(c, "idle")
       ELSE Goto(c, "failed") /\ UNCHANGED chan
  /\ UNCHANGED <<cache, used, nextId, members, request, prefix, id, job, note, requests, history>>

-----------------------------------------------------------------------------
(* bootstrap_standard_channel_server and bootstrap_extended_channel_server *)

Requests == {[kind |-> "standard", min |-> 0]}
            \cup {[kind |-> "extended", min |-> m] : m \in MinSizes}

\* The function is over: it returned an error message, its messages, or an
\* exception left it.
Finish(c) ==
  /\ Goto(c, "idle")
  /\ request' = [request EXCEPT ![c] = NoRequest]
  /\ prefix'  = [prefix EXCEPT ![c] = 0]
  /\ id'      = [id EXCEPT ![c] = 0]
  /\ job'     = [job EXCEPT ![c] = 0]
  /\ note'    = [note EXCEPT ![c] = NoNote]

\* An open request; a standard channel for custom work is refused at once.
Receive(c) ==
  /\ step[c] = "idle" /\ MayStart
  /\ requests[c] < MaxRequests
  /\ requests' = [requests EXCEPT ![c] = @ + 1]
  /\ \E r \in Requests :
       IF r.kind = "standard" /\ "work_selection" \in Flags[c]
         THEN UNCHANGED bootstrap
         ELSE /\ request' = [request EXCEPT ![c] = r]
              /\ Goto(c, "prefix")
              /\ UNCHANGED <<prefix, id, job, note>>
  /\ UNCHANGED <<cache, used, connection, history>>

\* next_extranonce_prefix: the factory counts up under its mutex.
Available(r) == r.min <= Rollable /\ used[r.kind] < Capacity[r.kind]

\* Mutant: the factory hands out its counter without saving the next one.
TakePrefixUnsaved(c) ==
  /\ step[c] = "prefix"
  /\ Available(request[c])
  /\ prefix' = [prefix EXCEPT ![c] = used[request[c].kind] + 1]
  /\ Goto(c, "create")
  /\ UNCHANGED <<cache, used, connection, request, id, job, note, requests, history>>

TakePrefix(c) ==
  /\ step[c] = "prefix"
  /\ Available(request[c])
  /\ used'   = [used EXCEPT ![request[c].kind] = @ + 1]
  /\ prefix' = [prefix EXCEPT ![c] = used[request[c].kind] + 1]
  /\ Goto(c, "create")
  /\ UNCHANGED <<cache, connection, request, id, job, note, requests, history>>

\* Mutant: the request that found no prefix is counted all the same.
NoPrefixCounted(c) ==
  /\ step[c] = "prefix"
  /\ ~Available(request[c])
  /\ used' = [used EXCEPT ![request[c].kind] = @ + 1]
  /\ Finish(c)
  /\ UNCHANGED <<cache, connection, requests, history>>

\* No prefix: an error message for an extended channel, an exception for a
\* standard one, which nobody catches.
NoPrefix(c) ==
  /\ step[c] = "prefix"
  /\ ~Available(request[c])
  /\ Finish(c)
  /\ UNCHANGED <<cache, used, connection, requests, history>>

\* The constructor refuses the hash rate, the target or the size with an error
\* the function knows, and the client gets an error message: the prefix and the
\* id are spent.
CreateRefused(c) ==
  /\ step[c] = "create"
  /\ nextId' = [nextId EXCEPT ![c] = @ + 1]
  /\ Finish(c)
  /\ UNCHANGED <<cache, used, chan, members, requests, history>>

\* An exception leaves the function.
Broken(c, i) ==
  /\ Finish(c)
  /\ raised' = raised \cup {[conn |-> c, id |-> i]}

\* BadMaxTarget: no branch gives error_code a value, and building the error
\* message raises UnboundLocalError.
CreateRaises(c) ==
  /\ step[c] = "create"
  /\ nextId' = [nextId EXCEPT ![c] = @ + 1]
  /\ Broken(c, nextId[c])
  /\ UNCHANGED <<cache, used, chan, members, requests, announced>>

\* The constructor makes a channel with the next id.
Create(c) ==
  /\ step[c] = "create"
  /\ nextId' = [nextId EXCEPT ![c] = @ + 1]
  /\ id'     = [id EXCEPT ![c] = nextId[c]]
  /\ Goto(c, "register")
  /\ UNCHANGED <<cache, used, chan, members, request, prefix, job, note, requests, history>>

\* With a group channel a standard channel is listed there next; a connection
\* with work selection has extended channels only.
Listing(c) == request[c].kind = "standard" /\ "standard_jobs" \notin Flags[c]
Working(c) == IF "work_selection" \in Flags[c] THEN "custom" ELSE "template"

\* Mutant: "if requires_standard_jobs".
RegisterUnlisted(c) ==
  /\ step[c] = "register"
  /\ chan' = [chan EXCEPT ![c][id[c]] = NewChannel(request[c].kind, prefix[c])]
  /\ Goto(c, IF request[c].kind = "standard" /\ "standard_jobs" \in Flags[c] THEN "list" ELSE Working(c))
  /\ UNCHANGED <<cache, used, nextId, members, request, prefix, id, job, note, requests, history>>

\* standard_channels[id] or extended_channels[id].
Register(c) ==
  /\ step[c] = "register"
  /\ chan' = [chan EXCEPT ![c][id[c]] = NewChannel(request[c].kind, prefix[c])]
  /\ Goto(c, IF Listing(c) THEN "list" ELSE Working(c))
  /\ UNCHANGED <<cache, used, nextId, members, request, prefix, id, job, note, requests, history>>

\* add_standard_channel_id.
AddToGroup(c) ==
  /\ step[c] = "list"
  /\ members' = [members EXCEPT ![c] = @ \cup {id[c]}]
  /\ Goto(c, Working(c))
  /\ UNCHANGED <<cache, used, nextId, chan, request, prefix, id, job, note, requests, history>>

\* What the client is told: OpenStandardMiningChannelSuccess or
\* OpenExtendedMiningChannelSuccess, the future job, and SetNewPrevHashMining.
Announcement(c, j, n, bits) ==
  [conn |-> c, id |-> id[c], kind |-> request[c].kind, prefix |-> prefix[c],
   job |-> j, prev_hash |-> n.prev_hash, ntime |-> n.ntime, nbits |-> bits]

Announce(c, j, n, bits) ==
  /\ announced' = announced \cup {Announcement(c, j, n, bits)}
  /\ Finish(c)
  /\ UNCHANGED raised

\* A client with work of its own gets no job, only the chain tip is set.
CustomWork(c) ==
  /\ step[c] = "custom"
  /\ chan' = [chan EXCEPT ![c][id[c]] = OnSetNewPrevHash(@, cache.prevHash)]
  /\ Announce(c, 0, NoNote, 0)
  /\ UNCHANGED <<cache, used, nextId, members, requests>>

LoadTemplate(c) ==
  /\ step[c] = "template"
  /\ chan' = [chan EXCEPT ![c][id[c]] = OnNewTemplate(@, cache.template)]
  /\ Goto(c, "job")
  /\ UNCHANGED <<cache, used, nextId, members, request, prefix, id, job, note, requests, history>>

\* get_future_template_to_job_id()[template_id]: the template is read again.
LookUpJob(c) ==
  /\ step[c] = "job"
  /\ cache.template = chan[c][id[c]].future
  /\ job' = [job EXCEPT ![c] = cache.template]
  /\ Goto(c, "tip")
  /\ UNCHANGED <<cache, used, connection, request, prefix, id, note, requests, history>>

\* Mutant: an exception of on_set_new_prev_hash is caught and passed over.
ActivateJobCaught(c) ==
  /\ step[c] = "tip"
  /\ chan' = IF Accepts(chan[c][id[c]], cache.prevHash)
               THEN [chan EXCEPT ![c][id[c]] = OnSetNewPrevHash(@, cache.prevHash)]
               ELSE chan
  /\ Goto(c, "prev_hash")
  /\ UNCHANGED <<cache, used, nextId, members, request, prefix, id, job, note, requests, history>>

ActivateJob(c) ==
  /\ step[c] = "tip"
  /\ Accepts(chan[c][id[c]], cache.prevHash)
  /\ chan' = [chan EXCEPT ![c][id[c]] = OnSetNewPrevHash(@, cache.prevHash)]
  /\ Goto(c, "prev_hash")
  /\ UNCHANGED <<cache, used, nextId, members, request, prefix, id, job, note, requests, history>>

\* on_new_template is refused, a KeyError, or FailedToProcessNewPrevHash.
Fails(c) ==
  \/ step[c] = "template"
  \/ step[c] = "job" /\ cache.template # chan[c][id[c]].future
  \/ step[c] = "tip" /\ ~Accepts(chan[c][id[c]], cache.prevHash)

\* Mutant: the exception is caught and the client gets an error message.
RaiseAnswered(c) ==
  /\ Fails(c)
  /\ Finish(c)
  /\ UNCHANGED <<cache, used, connection, requests, history>>

\* The exception leaves the function and the channel stays registered.
Raise(c) ==
  /\ Fails(c)
  /\ Broken(c, id[c])
  /\ UNCHANGED <<cache, used, connection, requests, announced>>

\* SetNewPrevHashMining is built from the cache, not from the channel, and each
\* of its fields reads the cache for itself.
ReadPrevHash(c) ==
  /\ step[c] = "prev_hash"
  /\ note' = [note EXCEPT ![c].prev_hash = cache.prevHash]
  /\ Goto(c, "ntime")
  /\ UNCHANGED <<cache, used, connection, request, prefix, id, job, requests, history>>

ReadTime(c) ==
  /\ step[c] = "ntime"
  /\ note' = [note EXCEPT ![c].ntime = cache.prevHash]
  /\ Goto(c, "nbits")
  /\ UNCHANGED <<cache, used, connection, request, prefix, id, job, requests, history>>

\* The last field, and the messages are returned.
Tell(c) ==
  /\ step[c] = "nbits"
  /\ Announce(c, job[c], note[c], cache.prevHash)
  /\ UNCHANGED <<cache, used, connection, requests>>

-----------------------------------------------------------------------------
Start(c)  == Connect(c) \/ Receive(c)
Run(c)    == \/ GroupTemplate(c) \/ GroupTip(c)
             \/ TakePrefix(c) \/ NoPrefix(c)
             \/ CreateRefused(c) \/ CreateRaises(c) \/ Create(c)
             \/ Register(c) \/ AddToGroup(c)
             \/ CustomWork(c)
             \/ LoadTemplate(c) \/ LookUpJob(c) \/ ActivateJob(c) \/ Raise(c)
             \/ ReadPrevHash(c) \/ ReadTime(c) \/ Tell(c)
Provider  == NewTemplate \/ SetNewPrevHash

\* Every connection has made its requests or never came into being, and the
\* provider has sent everything.
Done ==
  /\ \A c \in Connections :
       \/ step[c] = "failed"
       \/ step[c] = "idle" /\ requests[c] = MaxRequests
  /\ cache.prevHash = MaxTemplate
  /\ UNCHANGED vars

Next == (\E c \in Connections : Start(c) \/ Run(c)) \/ Provider \/ Done

Spec == Init /\ [][Next]_vars

-----------------------------------------------------------------------------
(* Properties.                                                             *)

Steps     == {"new", "g_template", "g_tip", "failed", "idle", "prefix", "create",
              "register", "list", "custom", "template", "job", "tip", "prev_hash", "ntime", "nbits"}
ChannelIn == [kind : Kinds \cup {"none", "group"}, prefix : Nat,
              future : Templates, active : Templates, tip : Templates]
RequestIn == [kind : Kinds \cup {"none"}, min : Nat]
NoteIn    == [prev_hash : Templates, ntime : Templates]
ToldIn    == [conn : Connections, id : Ids, kind : Kinds, prefix : Nat,
              job : Templates, prev_hash : Templates, ntime : Templates, nbits : Templates]

\* The state is well formed: no factory gives out more than it has, and every
\* number is in its range.
TypeOK ==
  /\ cache \in [template : 1 .. MaxTemplate, prevHash : 1 .. MaxTemplate]
  /\ used \in [Kinds -> Nat] /\ \A k \in Kinds : used[k] <= Capacity[k]
  /\ nextId \in [Connections -> Nat]
  /\ chan \in [Connections -> [Ids -> ChannelIn]]
  /\ members \in [Connections -> SUBSET Ids]
  /\ step \in [Connections -> Steps]
  /\ request \in [Connections -> RequestIn]
  /\ prefix \in [Connections -> Nat]
  /\ id \in [Connections -> Ids]
  /\ job \in [Connections -> Templates]
  /\ requests \in [Connections -> 0 .. MaxRequests]
  /\ note \in [Connections -> NoteIn]
  /\ announced \subseteq ToldIn
  /\ raised \subseteq [conn : Connections, id : Ids]

Book == INSTANCE ChannelBook WITH book <- announced

\* However the bootstraps of several connections interleave, refused and broken
\* ones included, the channels the clients are told of have ids of their own on
\* their connection and extranonce prefixes of their own on the server, and what
\* was announced stays as it was.
ImplementsBook == Book!Spec

\* The group channel serves whom the client thinks it serves: it lists only
\* standard channels its connection keeps, and every standard channel the client
\* was told of.  Registering, listing and telling are three steps, and others of
\* the connection's opens are refused or break off between them.
GroupListsChannels ==
  /\ \A c \in Connections : \A i \in members[c] : HasGroup(c) /\ chan[c][i].kind = "standard"
  /\ \A a \in announced : a.kind = "standard" /\ HasGroup(a.conn) => a.id \in members[a.conn]

\* A client that was answered knows what the server keeps: when no bootstrap is
\* running, a channel it was not told of is one whose bootstrap an exception
\* ended.  No refusal leaves a channel behind.
UntoldOnlyByException ==
  \A c \in Connections :
    step[c] = "idle" =>
      \A i \in Ids : chan[c][i].kind \in Kinds =>
        \/ \E a \in announced : a.conn = c /\ a.id = i
        \/ [conn |-> c, id |-> i] \in raised

\* "so that the future job we just sent is also activated on the client side":
\* the job a client was told of is the one its channel has activated, for the
\* prev-hash it was told, which is the one the job was made for.
ToldIsActive ==
  \A a \in announced :
    LET ch == chan[a.conn][a.id] IN
      /\ ch.kind = a.kind /\ ch.prefix = a.prefix
      /\ ch.active = a.job
      /\ a.job # 0 => {a.prev_hash, a.ntime, a.nbits} = {a.job} /\ ch.tip = a.job

\* "It is expected to return: the newly created channel, if the channel was
\* successfully created, a list of messages to be sent to the client": when no
\* bootstrap is running, the channels a connection keeps are those its client
\* was told of.
RegisteredIsAnnounced ==
  \A c \in Connections :
    step[c] = "idle" =>
      \A i \in Ids : chan[c][i].kind \in Kinds =>
        \E a \in announced : a.conn = c /\ a.id = i
=============================================================================

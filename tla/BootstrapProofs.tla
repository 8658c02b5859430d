--------------------------- MODULE BootstrapProofs ---------------------------
(***************************************************************************)
(* Type correctness of Bootstrap, and the proof that whatever bootstraps   *)
(* interleave it implements ChannelBook.                                   *)
(***************************************************************************)
EXTENDS Bootstrap, TLAPS

-----------------------------------------------------------------------------
(* The inductive invariant.                                                *)

\* Steps at which a request is being served, at which its prefix is taken, at
\* which its channel has an id, and at which the channel is registered.
Kept       == {"list", "custom", "template", "job", "tip", "prev_hash", "ntime", "nbits"}
Registered == {"register"} \cup Kept
Holding    == {"create"} \cup Registered
Serving    == {"prefix"} \cup Holding
Unborn     == {"new", "g_template", "g_tip"}

\* A request being served is for a channel of some kind.
RequestKnown == \A c \in Connections : step[c] \in Serving => request[c].kind \in Kinds

\* Every request takes at most one id and the group channel one more, so the id
\* of the next channel is within bounds.
IdsSuffice ==
  \A c \in Connections :
    /\ step[c] = "new" => nextId[c] = 0
    /\ step[c] \in {"prefix", "create"} => nextId[c] <= requests[c]
    /\ nextId[c] <= requests[c] + 1

\* Ids announced or about to be were given out, and differ.
IdsFresh ==
  /\ \A a \in announced : a.id < nextId[a.conn]
  /\ \A c \in Connections : step[c] \in Registered =>
       /\ id[c] < nextId[c]
       /\ \A a \in announced : a.conn = c => a.id # id[c]

\* So were prefixes, and no two bootstraps hold the same.
PrefixesFresh ==
  /\ \A a \in announced : a.prefix <= used[a.kind]
  /\ \A c \in Connections : step[c] \in Holding =>
       /\ prefix[c] <= used[request[c].kind]
       /\ \A a \in announced : a.kind = request[c].kind => a.prefix # prefix[c]
       /\ \A d \in Connections :
            d # c /\ step[d] \in Holding /\ request[d].kind = request[c].kind
              => prefix[d] # prefix[c]

Inv == TypeOK /\ RequestKnown /\ IdsSuffice /\ IdsFresh /\ PrefixesFresh

-----------------------------------------------------------------------------
(* Types of the operators on channels.                                     *)

LEMMA KindsKnown == "standard" \in Kinds /\ "extended" \in Kinds
  BY DEF Kinds

LEMMA ChannelTypes ==
  ASSUME NEW ch \in ChannelIn, NEW t \in Templates
  PROVE  OnNewTemplate(ch, t) \in ChannelIn /\ OnSetNewPrevHash(ch, t) \in ChannelIn
<1>1. 0 \in Templates /\ ch.future \in Templates
  BY BoundsAssumption DEF ChannelIn, Templates
<1>2. [ch EXCEPT !.future = t] \in ChannelIn
  BY DEF ChannelIn
<1>3. [ch EXCEPT !.tip = t, !.active = ch.future, !.future = 0] \in ChannelIn
  BY <1>1 DEF ChannelIn
<1> QED
  BY <1>2, <1>3 DEF OnNewTemplate, OnSetNewPrevHash

LEMMA NewChannelType ==
  ASSUME NEW k \in Kinds \cup {"none", "group"}, NEW p \in Nat
  PROVE  NewChannel(k, p) \in ChannelIn
  BY BoundsAssumption DEF ChannelIn, NewChannel, Templates

LEMMA CacheType ==
  ASSUME TypeOK
  PROVE  cache.template \in Templates /\ cache.prevHash \in Templates /\ cache.template # 0
  BY BoundsAssumption DEF TypeOK, Templates

LEMMA GroupIdIsId == GroupId = 0 /\ 0 \in Ids
  BY BoundsAssumption DEF GroupId, Ids

LEMMA RequestsTyped == Requests \subseteq RequestIn /\ \A r \in Requests : r.kind \in Kinds
  BY SizesAssumption DEF Requests, RequestIn, Kinds

\* The end of a bootstrap leaves the thread's state well typed.
LEMMA FinishTyped ==
  ASSUME TypeOK, NEW c \in Connections, Finish(c)
  PROVE  /\ step' \in [Connections -> Steps]
         /\ request' \in [Connections -> RequestIn]
         /\ prefix' \in [Connections -> Nat]
         /\ id' \in [Connections -> Ids]
         /\ job' \in [Connections -> Templates]
         /\ note' \in [Connections -> NoteIn]
<1>1. NoRequest \in RequestIn /\ 0 \in Ids /\ 0 \in Templates /\ "idle" \in Steps /\ NoNote \in NoteIn
  BY BoundsAssumption DEF NoRequest, NoNote, NoteIn, RequestIn, Ids, Templates, Steps
<1> QED
  BY <1>1 DEF TypeOK, Finish, Goto

-----------------------------------------------------------------------------
LEMMA InitInv == Init => Inv
<1> SUFFICES ASSUME Init PROVE Inv
  OBVIOUS
<1>1. /\ NoChannel \in ChannelIn /\ NoRequest \in RequestIn /\ 0 \in Ids /\ 0 \in Templates
      /\ NoNote \in NoteIn
  BY NewChannelType, BoundsAssumption
  DEF NoChannel, NoRequest, NoNote, NoteIn, RequestIn, Ids, Templates
<1>2. TypeOK
  <2>1. cache \in [template : 1 .. MaxTemplate, prevHash : 1 .. MaxTemplate]
    BY BoundsAssumption DEF Init
  <2>2. used \in [Kinds -> Nat] /\ \A k \in Kinds : used[k] <= Capacity[k]
    BY SizesAssumption DEF Init
  <2> QED
    BY <1>1, <2>1, <2>2, BoundsAssumption DEF Init, TypeOK, Steps
<1>3. RequestKnown /\ IdsSuffice /\ IdsFresh /\ PrefixesFresh
  BY DEF Init, RequestKnown, IdsSuffice, IdsFresh, PrefixesFresh, Serving, Holding, Registered, Kept
<1> QED
  BY <1>2, <1>3 DEF Inv

-----------------------------------------------------------------------------
(* TypeOK is preserved, by the actions of a connection one at a time.      *)

LEMMA ConnectTyped ==
  ASSUME Inv, NEW c \in Connections, Connect(c) \/ GroupTemplate(c) \/ GroupTip(c)
  PROVE  TypeOK'
<1> USE DEF Inv
<1>1. /\ "g_template" \in Steps /\ "g_tip" \in Steps
      /\ "idle" \in Steps /\ "failed" \in Steps
  BY DEF Steps
<1>2. CASE Connect(c)
  <2>1. NewChannel("group", 0) \in ChannelIn
    BY NewChannelType
  <2>2. nextId[c] = 0 /\ 0 \in Ids
    BY <1>2, GroupIdIsId DEF Connect, IdsSuffice
  <2>3. nextId' \in [Connections -> Nat] /\ chan' \in [Connections -> [Ids -> ChannelIn]]
    <3>1. CASE HasGroup(c)
      <4>1. /\ nextId' = [nextId EXCEPT ![c] = 1]
            /\ chan' = [chan EXCEPT ![c] = [chan[c] EXCEPT ![0] = NewChannel("group", 0)]]
        BY <1>2, <2>2, <3>1 DEF Connect
      <4> QED
        BY <2>1, <2>2, <4>1 DEF TypeOK
    <3>2. CASE ~HasGroup(c)
      BY <1>2, <3>2 DEF Connect, TypeOK
    <3> QED
      BY <3>1, <3>2
  <2>4. step' \in [Connections -> Steps]
    BY <1>1, <1>2 DEF Connect, Goto, TypeOK
  <2> QED
    BY <1>2, <2>3, <2>4 DEF Connect, TypeOK, history
<1>3. CASE GroupTemplate(c)
  <2>1. GroupId \in Ids /\ chan[c][GroupId] \in ChannelIn
    BY GroupIdIsId DEF TypeOK
  <2>2. OnNewTemplate(chan[c][GroupId], cache.template) \in ChannelIn
    BY <2>1, ChannelTypes, CacheType
  <2>3. chan' \in [Connections -> [Ids -> ChannelIn]]
    <3>1. CASE chan' = [chan EXCEPT ![c][GroupId] = OnNewTemplate(chan[c][GroupId], cache.template)]
      BY <2>1, <2>2, <3>1 DEF TypeOK
    <3>2. CASE chan' = chan
      BY <3>2 DEF TypeOK
    <3> QED
      BY <1>3, <3>1, <3>2 DEF GroupTemplate
  <2>4. step' \in [Connections -> Steps]
    BY <1>1, <1>3 DEF GroupTemplate, Goto, TypeOK
  <2> QED
    BY <1>3, <2>3, <2>4 DEF GroupTemplate, TypeOK, history
<1>4. CASE GroupTip(c)
  <2>1. GroupId \in Ids /\ chan[c][GroupId] \in ChannelIn
    BY GroupIdIsId DEF TypeOK
  <2>2. OnSetNewPrevHash(chan[c][GroupId], cache.prevHash) \in ChannelIn
    BY <2>1, ChannelTypes, CacheType
  <2>3. chan' \in [Connections -> [Ids -> ChannelIn]]
    <3>1. CASE Accepts(chan[c][GroupId], cache.prevHash)
      <4>1. chan' = [chan EXCEPT ![c] = [chan[c] EXCEPT ![GroupId] =
                       OnSetNewPrevHash(chan[c][GroupId], cache.prevHash)]]
        BY <1>4, <3>1 DEF GroupTip
      <4>2. [chan[c] EXCEPT ![GroupId] =
               OnSetNewPrevHash(chan[c][GroupId], cache.prevHash)] \in [Ids -> ChannelIn]
        BY <2>1, <2>2 DEF TypeOK
      <4> QED
        BY <4>1, <4>2 DEF TypeOK
    <3>2. CASE ~Accepts(chan[c][GroupId], cache.prevHash)
      BY <1>4, <3>2 DEF GroupTip, TypeOK
    <3> QED
      BY <3>1, <3>2
  <2>4. step' \in [Connections -> Steps]
    BY <1>1, <1>4 DEF GroupTip, Goto, TypeOK
  <2> QED
    BY <1>4, <2>3, <2>4 DEF GroupTip, TypeOK, history
<1> QED
  BY <1>2, <1>3, <1>4

LEMMA OpenTyped ==
  ASSUME Inv, NEW c \in Connections,
         \/ Receive(c) \/ TakePrefix(c) \/ NoPrefix(c) \/ CreateRefused(c) \/ CreateRaises(c)
         \/ Create(c) \/ Register(c) \/ AddToGroup(c)
  PROVE  TypeOK'
<1> USE DEF Inv, history
<1>1. /\ "prefix" \in Steps /\ "create" \in Steps /\ "register" \in Steps
      /\ "list" \in Steps /\ "custom" \in Steps /\ "template" \in Steps
  BY DEF Steps
<1>2. CASE Receive(c)
  <2>1. requests' \in [Connections -> 0 .. MaxRequests]
    BY <1>2, BoundsAssumption DEF Receive, TypeOK
  <2>2. request' \in [Connections -> RequestIn] /\ step' \in [Connections -> Steps]
    BY <1>1, <1>2, RequestsTyped DEF Receive, Goto, bootstrap, TypeOK
  <2>3. UNCHANGED <<prefix, id, job, note>>
    BY <1>2 DEF Receive, bootstrap
  <2> QED
    BY <1>2, <2>1, <2>2, <2>3 DEF Receive, connection, TypeOK
<1>3. CASE TakePrefix(c)
  <2>1. request[c].kind \in Kinds /\ used[request[c].kind] < Capacity[request[c].kind]
    BY <1>3 DEF TakePrefix, RequestKnown, Serving, Available
  <2>2. used' \in [Kinds -> Nat] /\ \A k \in Kinds : used'[k] <= Capacity[k]
    <3>1. used' = [used EXCEPT ![request[c].kind] = used[request[c].kind] + 1]
      BY <1>3 DEF TakePrefix
    <3>2. used[request[c].kind] + 1 \in Nat
      BY <2>1 DEF TypeOK
    <3>3. used' \in [Kinds -> Nat]
      BY <3>1, <3>2 DEF TypeOK
    <3>4. ASSUME NEW k \in Kinds PROVE used'[k] <= Capacity[k]
      <4>1. CASE k = request[c].kind
        <5>1. used'[k] = used[k] + 1 /\ used[k] \in Nat /\ Capacity[k] \in Nat
          BY <3>1, <4>1, SizesAssumption DEF TypeOK
        <5> QED
          BY <2>1, <4>1, <5>1
      <4>2. CASE k # request[c].kind
        BY <3>1, <4>2 DEF TypeOK
      <4> QED
        BY <4>1, <4>2
    <3> QED
      BY <3>3, <3>4
  <2>3. prefix' \in [Connections -> Nat]
    BY <1>3, <2>1 DEF TakePrefix, TypeOK
  <2> QED
    BY <1>1, <1>3, <2>2, <2>3 DEF TakePrefix, Goto, connection, TypeOK
<1>4. CASE NoPrefix(c)
  BY <1>4, FinishTyped DEF NoPrefix, connection, TypeOK
<1>5. CASE CreateRefused(c)
  BY <1>5, FinishTyped DEF CreateRefused, TypeOK
<1>6. CASE CreateRaises(c)
  <2>1. nextId[c] \in Ids /\ nextId[c] \in Nat
    BY <1>6, BoundsAssumption DEF CreateRaises, IdsSuffice, TypeOK, Ids
  <2>2. raised' \subseteq [conn : Connections, id : Ids]
    BY <1>6, <2>1 DEF CreateRaises, Broken, TypeOK
  <2> QED
    BY <1>6, <2>1, <2>2, FinishTyped DEF CreateRaises, Broken, TypeOK
<1>7. CASE Create(c)
  <2>1. nextId[c] \in Ids
    BY <1>7, BoundsAssumption DEF Create, IdsSuffice, TypeOK, Ids
  <2>2. id' \in [Connections -> Ids] /\ step' \in [Connections -> Steps]
    BY <1>1, <1>7, <2>1 DEF Create, Goto, TypeOK
  <2> QED
    BY <1>7, <2>2 DEF Create, TypeOK
<1>8. CASE Register(c)
  <2>1. NewChannel(request[c].kind, prefix[c]) \in ChannelIn
    BY <1>8, NewChannelType DEF Register, RequestKnown, Serving, Holding, Registered, Kept, TypeOK
  <2>2. chan' \in [Connections -> [Ids -> ChannelIn]]
    BY <1>8, <2>1 DEF Register, TypeOK
  <2>3. step' \in [Connections -> Steps]
    BY <1>1, <1>8 DEF Register, Goto, Working, TypeOK
  <2> QED
    BY <1>8, <2>2, <2>3 DEF Register, TypeOK
<1>9. CASE AddToGroup(c)
  <2>1. members' \in [Connections -> SUBSET Ids]
    BY <1>9 DEF AddToGroup, TypeOK
  <2>2. step' \in [Connections -> Steps]
    BY <1>1, <1>9 DEF AddToGroup, Goto, Working, TypeOK
  <2> QED
    BY <1>9, <2>1, <2>2 DEF AddToGroup, TypeOK
<1> QED
  BY <1>2, <1>3, <1>4, <1>5, <1>6, <1>7, <1>8, <1>9

\* An announcement is well typed.
LEMMA AnnouncementTyped ==
  ASSUME Inv, NEW c \in Connections, step[c] \in Serving,
         NEW j \in Templates, NEW n \in NoteIn, NEW p \in Templates
  PROVE  Announcement(c, j, n, p) \in ToldIn
<1>1. id[c] \in Ids /\ request[c].kind \in Kinds /\ prefix[c] \in Nat
  BY DEF Inv, TypeOK, RequestKnown
<1> QED
  BY <1>1 DEF Announcement, NoteIn, ToldIn

LEMMA ServeTyped ==
  ASSUME Inv, NEW c \in Connections,
         \/ CustomWork(c) \/ LoadTemplate(c) \/ LookUpJob(c)
         \/ ActivateJob(c) \/ Raise(c) \/ ReadPrevHash(c) \/ ReadTime(c) \/ Tell(c)
  PROVE  TypeOK'
<1> USE DEF Inv, history
<1>1. /\ "job" \in Steps /\ "tip" \in Steps /\ "prev_hash" \in Steps /\ "ntime" \in Steps
      /\ "nbits" \in Steps /\ 0 \in Templates /\ NoNote \in NoteIn
  BY BoundsAssumption DEF Steps, Templates, NoNote, NoteIn
<1>2. id[c] \in Ids /\ chan[c] \in [Ids -> ChannelIn] /\ chan[c][id[c]] \in ChannelIn
  BY DEF TypeOK
<1>3. /\ OnNewTemplate(chan[c][id[c]], cache.template) \in ChannelIn
      /\ OnSetNewPrevHash(chan[c][id[c]], cache.prevHash) \in ChannelIn
  BY <1>2, ChannelTypes, CacheType
<1>4. ASSUME NEW ch \in ChannelIn, chan' = [chan EXCEPT ![c][id[c]] = ch]
      PROVE  chan' \in [Connections -> [Ids -> ChannelIn]]
  <2>1. [chan[c] EXCEPT ![id[c]] = ch] \in [Ids -> ChannelIn]
    BY <1>2
  <2> QED
    BY <1>4, <2>1 DEF TypeOK
<1>5. CASE CustomWork(c)
  <2>1. chan' \in [Connections -> [Ids -> ChannelIn]]
    BY <1>3, <1>4, <1>5 DEF CustomWork
  <2>2. Announcement(c, 0, NoNote, 0) \in ToldIn
    BY <1>1, <1>5, AnnouncementTyped DEF CustomWork, Serving, Holding, Registered, Kept
  <2> QED
    BY <1>5, <2>1, <2>2, FinishTyped DEF CustomWork, Announce, TypeOK
<1>6. CASE LoadTemplate(c)
  <2>1. chan' \in [Connections -> [Ids -> ChannelIn]]
    BY <1>3, <1>4, <1>6 DEF LoadTemplate
  <2> QED
    BY <1>1, <1>6, <2>1 DEF LoadTemplate, Goto, TypeOK
<1>7. CASE LookUpJob(c)
  <2>1. job' \in [Connections -> Templates]
    BY <1>7, CacheType DEF LookUpJob, TypeOK
  <2> QED
    BY <1>1, <1>7, <2>1 DEF LookUpJob, Goto, connection, TypeOK
<1>8. CASE ActivateJob(c)
  <2>1. chan' \in [Connections -> [Ids -> ChannelIn]]
    BY <1>3, <1>4, <1>8 DEF ActivateJob
  <2> QED
    BY <1>1, <1>8, <2>1 DEF ActivateJob, Goto, TypeOK
<1>9. CASE Raise(c)
  <2>1. raised' \subseteq [conn : Connections, id : Ids]
    BY <1>2, <1>9 DEF Raise, Broken, TypeOK
  <2> QED
    BY <1>9, <2>1, FinishTyped DEF Raise, Broken, connection, TypeOK
<1>10. CASE Tell(c)
  <2>1. job[c] \in Templates /\ note[c] \in NoteIn
    BY DEF TypeOK
  <2>2. Announcement(c, job[c], note[c], cache.prevHash) \in ToldIn
    BY <1>10, <2>1, CacheType, AnnouncementTyped DEF Tell, Serving, Holding, Registered, Kept
  <2> QED
    BY <1>10, <2>2, FinishTyped DEF Tell, Announce, connection, TypeOK
<1>11. CASE ReadPrevHash(c) \/ ReadTime(c)
  <2>1. note[c] \in NoteIn /\ cache.prevHash \in Templates
    BY CacheType DEF TypeOK
  <2>2. [note[c] EXCEPT !.prev_hash = cache.prevHash] \in NoteIn /\ [note[c] EXCEPT !.ntime = cache.prevHash] \in NoteIn
    BY <2>1 DEF NoteIn
  <2>3. note' \in [Connections -> NoteIn]
    BY <1>11, <2>2 DEF ReadPrevHash, ReadTime, TypeOK
  <2>4. step' \in [Connections -> Steps]
    BY <1>1, <1>11 DEF ReadPrevHash, ReadTime, Goto, TypeOK
  <2> QED
    BY <1>11, <2>3, <2>4 DEF ReadPrevHash, ReadTime, connection, TypeOK
<1> QED
  BY <1>5, <1>6, <1>7, <1>8, <1>9, <1>10, <1>11

LEMMA ProviderTyped ==
  ASSUME Inv, Provider
  PROVE  TypeOK'
<1>1. /\ cache.template \in 1 .. MaxTemplate /\ cache.prevHash \in 1 .. MaxTemplate
      /\ cache.template < MaxTemplate => cache.template + 1 \in 1 .. MaxTemplate
  BY BoundsAssumption DEF Inv, TypeOK
<1>2. cache' \in [template : 1 .. MaxTemplate, prevHash : 1 .. MaxTemplate]
  BY <1>1 DEF Inv, TypeOK, Provider, NewTemplate, SetNewPrevHash
<1> QED
  BY <1>2 DEF Inv, TypeOK, Provider, NewTemplate, SetNewPrevHash, connection, bootstrap, history

-----------------------------------------------------------------------------
(* The rest of the invariant.                                              *)

\* Where every step of a connection leaves the variables of the others.
LEMMA OthersRest ==
  ASSUME Inv, NEW c \in Connections, Start(c) \/ Run(c), NEW d \in Connections, d # c
  PROVE  /\ step'[d] = step[d] /\ request'[d] = request[d] /\ requests'[d] = requests[d]
         /\ prefix'[d] = prefix[d] /\ id'[d] = id[d] /\ nextId'[d] = nextId[d]
<1> USE DEF Inv, TypeOK, Goto, Finish, connection, bootstrap
<1>1. CASE Start(c)
  <2>1. CASE Connect(c)
    BY <2>1 DEF Connect
  <2>2. CASE Receive(c)
    BY <2>2 DEF Receive
  <2> QED
    BY <1>1, <2>1, <2>2 DEF Start
<1>2. CASE GroupTemplate(c) \/ GroupTip(c)
  BY <1>2 DEF GroupTemplate, GroupTip
<1>3. CASE TakePrefix(c) \/ NoPrefix(c)
  BY <1>3 DEF TakePrefix, NoPrefix
<1>4. CASE CreateRefused(c) \/ CreateRaises(c) \/ Create(c)
  BY <1>4 DEF CreateRefused, CreateRaises, Broken, Create
<1>5. CASE CustomWork(c) \/ Tell(c)
  BY <1>5 DEF CustomWork, Tell, Announce
<1>6. CASE LoadTemplate(c) \/ LookUpJob(c) \/ ActivateJob(c) \/ Raise(c)
  BY <1>6 DEF LoadTemplate, LookUpJob, ActivateJob, Raise, Broken
<1>7. CASE Register(c) \/ AddToGroup(c) \/ ReadPrevHash(c) \/ ReadTime(c)
  BY <1>7 DEF Register, AddToGroup, ReadPrevHash, ReadTime
<1> QED
  BY <1>1, <1>2, <1>3, <1>4, <1>5, <1>6, <1>7 DEF Run

\* What the step of a connection does to its own place in the bootstrap: either
\* it ends or stays out of one, or it enters one, or it goes on with the same.
Outside(c)  == step'[c] \notin Serving /\ step'[c] # "new"
Enters(c)   == /\ step[c] = "idle" /\ step'[c] = "prefix" /\ request'[c].kind \in Kinds
               /\ requests'[c] = requests[c] + 1 /\ nextId' = nextId
               /\ used' = used /\ announced' = announced
Takes(c)    == /\ step[c] = "prefix" /\ step'[c] = "create"
               /\ request' = request /\ requests' = requests /\ nextId' = nextId
               /\ used' = [used EXCEPT ![request[c].kind] = @ + 1]
               /\ prefix'[c] = used[request[c].kind] + 1
               /\ announced' = announced
Numbers(c)  == /\ step[c] = "create" /\ step'[c] \in Registered
               /\ nextId' = [nextId EXCEPT ![c] = @ + 1] /\ id'[c] = nextId[c]
               /\ request' = request /\ requests' = requests /\ prefix' = prefix
               /\ used' = used /\ announced' = announced
Continues(c) == /\ step[c] \in Registered /\ step'[c] \in Registered
                /\ request' = request /\ requests' = requests /\ prefix' = prefix
                /\ id' = id /\ nextId' = nextId /\ used' = used /\ announced' = announced
\* How it ends: without an announcement, or with that of a registered channel.
Drops(c)     == /\ Outside(c) /\ used' = used /\ announced' = announced
                /\ \/ nextId' = nextId /\ requests'[c] \in {requests[c], requests[c] + 1}
                   \/ /\ step[c] \in {"new", "create"}
                      /\ nextId' = [nextId EXCEPT ![c] = @ + 1] /\ requests' = requests
Publishes(c) == /\ Outside(c) /\ step[c] \in Registered
                /\ nextId' = nextId /\ requests' = requests /\ used' = used
                /\ \E j, p \in Templates, n \in NoteIn : announced' = announced \cup {Announcement(c, j, n, p)}

LEMMA Shapes ==
  ASSUME Inv, NEW c \in Connections, Start(c) \/ Run(c)
  PROVE  \/ Enters(c) \/ Takes(c) \/ Numbers(c)
         \/ Continues(c) \/ Drops(c) \/ Publishes(c)
<1> USE DEF Inv, TypeOK, Goto, Finish, connection, bootstrap, Outside, Serving, Holding, Registered, Kept, history
<1>1. CASE Connect(c)
  BY <1>1 DEF Connect, Drops
<1>2. CASE Receive(c)
  <2>1. PICK r \in Requests :
          IF r.kind = "standard" /\ "work_selection" \in Flags[c]
            THEN UNCHANGED bootstrap
            ELSE /\ request' = [request EXCEPT ![c] = r]
                 /\ Goto(c, "prefix") /\ UNCHANGED <<prefix, id, job, note>>
    BY <1>2 DEF Receive
  <2>2. r.kind \in Kinds
    BY RequestsTyped
  <2> QED
    BY <1>2, <2>1, <2>2 DEF Receive, Enters, Drops
<1>3. CASE GroupTemplate(c) \/ GroupTip(c)
  BY <1>3 DEF GroupTemplate, GroupTip, Drops
<1>4. CASE TakePrefix(c)
  BY <1>4 DEF TakePrefix, Takes
<1>5. CASE NoPrefix(c) \/ CreateRefused(c) \/ CreateRaises(c) \/ Raise(c)
  BY <1>5 DEF NoPrefix, CreateRefused, CreateRaises, Broken, Raise, Drops
<1>6. CASE Create(c)
  BY <1>6 DEF Create, Numbers
<1>7. CASE \/ Register(c) \/ AddToGroup(c) \/ LoadTemplate(c) \/ LookUpJob(c) \/ ActivateJob(c)
           \/ ReadPrevHash(c) \/ ReadTime(c)
  BY <1>7 DEF Register, AddToGroup, Working, LoadTemplate, LookUpJob, ActivateJob, ReadPrevHash,
     ReadTime, Continues
<1>8. CASE CustomWork(c)
  <2>1. 0 \in Templates /\ NoNote \in NoteIn
    BY BoundsAssumption DEF Templates, NoNote, NoteIn
  <2> QED
    BY <1>8, <2>1 DEF CustomWork, Announce, Publishes
<1>9. CASE Tell(c)
  <2>1. job[c] \in Templates /\ cache.prevHash \in Templates /\ note[c] \in NoteIn
    BY CacheType
  <2> QED
    BY <1>9, <2>1 DEF Tell, Announce, Publishes
<1> QED
  BY <1>1, <1>2, <1>3, <1>4, <1>5, <1>6, <1>7, <1>8, <1>9 DEF Start, Run

LEMMA StepKinds ==
  ASSUME Inv, TypeOK', NEW c \in Connections, Start(c) \/ Run(c)
  PROVE  RequestKnown'
<1> SUFFICES ASSUME NEW d \in Connections, step'[d] \in Serving
             PROVE  request'[d].kind \in Kinds
  BY DEF RequestKnown
<1>1. CASE d # c
  BY <1>1, OthersRest DEF Inv, RequestKnown
<1>2. CASE d = c
  BY <1>2, Shapes DEF Inv, RequestKnown, Enters, Takes, Numbers, Continues, Drops,
     Publishes, Outside, Serving, Holding, Registered, Kept
<1> QED
  BY <1>1, <1>2

LEMMA StepIdsSuffice ==
  ASSUME Inv, TypeOK', NEW c \in Connections, Start(c) \/ Run(c)
  PROVE  IdsSuffice'
<1> SUFFICES ASSUME NEW d \in Connections
             PROVE  /\ step'[d] = "new" => nextId'[d] = 0
                    /\ step'[d] \in {"prefix", "create"} => nextId'[d] <= requests'[d]
                    /\ nextId'[d] <= requests'[d] + 1
  BY DEF IdsSuffice
<1>1. CASE d # c
  BY <1>1, OthersRest DEF Inv, IdsSuffice
<1>2. CASE d = c
  <2>1. nextId[c] \in Nat /\ requests[c] \in Nat /\ nextId[c] <= requests[c] + 1
    BY BoundsAssumption DEF Inv, TypeOK, IdsSuffice
  <2>2. CASE Enters(c)
    BY <1>2, <2>1, <2>2 DEF Enters
  <2>3. CASE Takes(c)
    BY <1>2, <2>1, <2>3 DEF Takes, Inv, IdsSuffice
  <2>4. CASE Numbers(c)
    BY <1>2, <2>1, <2>4 DEF Numbers, Registered, Kept, Inv, TypeOK, IdsSuffice
  <2>5. CASE Continues(c)
    BY <1>2, <2>1, <2>5 DEF Continues, Registered, Kept
  <2>6. CASE Drops(c)
    <3>1. step'[d] \notin {"new", "prefix", "create"}
      BY <1>2, <2>6 DEF Drops, Outside, Serving, Holding
    <3>2. CASE nextId' = nextId /\ requests'[c] \in {requests[c], requests[c] + 1}
      BY <1>2, <2>1, <3>1, <3>2
    <3>3. CASE /\ step[c] \in {"new", "create"}
               /\ nextId' = [nextId EXCEPT ![c] = @ + 1] /\ requests' = requests
      <4>1. nextId[c] <= requests[c]
        BY <2>1, <3>3 DEF Inv, IdsSuffice
      <4>2. nextId'[c] = nextId[c] + 1
        BY <3>3 DEF Inv, TypeOK
      <4> QED
        BY <1>2, <2>1, <3>1, <3>3, <4>1, <4>2
    <3> QED
      BY <2>6, <3>2, <3>3 DEF Drops
  <2>7. CASE Publishes(c)
    BY <1>2, <2>1, <2>7 DEF Publishes, Outside, Serving, Holding
  <2> QED
    BY <2>2, <2>3, <2>4, <2>5, <2>6, <2>7, Shapes
<1> QED
  BY <1>1, <1>2

LEMMA StepIdsFresh ==
  ASSUME Inv, TypeOK', NEW c \in Connections, Start(c) \/ Run(c)
  PROVE  IdsFresh'
<1>1. \A d \in Connections : nextId[d] \in Nat /\ nextId'[d] \in Nat
  BY DEF Inv, TypeOK
<1>2. \A d \in Connections : nextId[d] <= nextId'[d]
  <2>1. nextId' = nextId \/ nextId' = [nextId EXCEPT ![c] = @ + 1]
    BY Shapes DEF Enters, Takes, Numbers, Continues, Drops, Publishes
  <2>2. CASE nextId' = nextId
    BY <1>1, <2>2
  <2>3. CASE nextId' = [nextId EXCEPT ![c] = @ + 1]
    <3> SUFFICES ASSUME NEW d \in Connections PROVE nextId[d] <= nextId'[d]
      OBVIOUS
    <3>1. nextId'[d] = nextId[d] \/ nextId'[d] = nextId[d] + 1
      BY <2>3 DEF Inv, TypeOK
    <3> QED
      BY <1>1, <3>1
  <2> QED
    BY <2>1, <2>2, <2>3
<1>3. \A a \in announced : a.conn \in Connections /\ a.id \in Nat /\ a.id < nextId[a.conn]
  BY BoundsAssumption DEF Inv, TypeOK, ToldIn, IdsFresh, Ids
<1>4. \A a \in announced : a.id < nextId'[a.conn]
  BY <1>1, <1>2, <1>3
<1>5. CASE Publishes(c)
  <2>1. PICK j, p \in Templates, n \in NoteIn : announced' = announced \cup {Announcement(c, j, n, p)}
    BY <1>5 DEF Publishes
  <2>2. /\ Announcement(c, j, n, p).conn = c /\ Announcement(c, j, n, p).id = id[c]
        /\ id[c] < nextId[c] /\ nextId' = nextId
    BY <1>5 DEF Announcement, Publishes, Inv, IdsFresh
  <2>3. \A a \in announced' : a.id < nextId'[a.conn]
    BY <1>4, <2>1, <2>2
  <2>4. ASSUME NEW d \in Connections, step'[d] \in Registered
        PROVE  id'[d] < nextId'[d] /\ \A a \in announced' : a.conn = d => a.id # id'[d]
    <3>1. d # c
      BY <1>5, <2>4 DEF Publishes, Outside, Serving, Holding
    <3>2. id[d] < nextId[d] /\ \A a \in announced : a.conn = d => a.id # id[d]
      BY <2>4, <3>1, OthersRest DEF Inv, IdsFresh
    <3> QED
      BY <2>1, <2>2, <3>1, <3>2, OthersRest
  <2> QED
    BY <2>3, <2>4 DEF IdsFresh
<1>6. CASE ~Publishes(c)
  <2>1. announced' = announced
    BY <1>6, Shapes DEF Enters, Takes, Numbers, Continues, Drops
  <2>2. ASSUME NEW d \in Connections, step'[d] \in Registered
        PROVE  id'[d] < nextId'[d] /\ \A a \in announced' : a.conn = d => a.id # id'[d]
    <3>1. CASE d # c
      BY <2>1, <2>2, <3>1, OthersRest DEF Inv, IdsFresh
    <3>2. CASE d = c
      <4>1. Numbers(c) \/ Continues(c)
        BY <1>6, <2>2, <3>2, Shapes
        DEF Enters, Takes, Drops, Outside, Serving, Holding, Registered, Kept
      <4>2. CASE Numbers(c)
        <5>1. id'[c] = nextId[c] /\ nextId'[c] = nextId[c] + 1
          BY <4>2 DEF Numbers, Inv, TypeOK
        <5> QED
          BY <1>1, <1>3, <2>1, <3>2, <5>1
      <4>3. CASE Continues(c)
        BY <2>1, <3>2, <4>3 DEF Continues, Inv, IdsFresh
      <4> QED
        BY <4>1, <4>2, <4>3
    <3> QED
      BY <3>1, <3>2
  <2> QED
    BY <1>4, <2>1, <2>2 DEF IdsFresh
<1> QED
  BY <1>5, <1>6

LEMMA StepPrefixesFresh ==
  ASSUME Inv, TypeOK', RequestKnown', NEW c \in Connections, Start(c) \/ Run(c)
  PROVE  PrefixesFresh'
<1>1. \A k \in Kinds : used[k] \in Nat /\ used'[k] \in Nat
  BY DEF Inv, TypeOK
<1>2. ASSUME NEW k \in Kinds PROVE used[k] <= used'[k]
  <2>1. used' = used \/ Takes(c)
    BY Shapes DEF Enters, Numbers, Continues, Drops, Publishes
  <2>2. CASE Takes(c)
    <3>1. used'[k] = used[k] \/ used'[k] = used[k] + 1
      BY <2>2 DEF Takes, Inv, TypeOK
    <3> QED
      BY <1>1, <3>1
  <2> QED
    BY <1>1, <2>1, <2>2
<1>3. \A a \in announced : a.kind \in Kinds /\ a.prefix \in Nat /\ a.prefix <= used[a.kind]
  BY DEF Inv, TypeOK, ToldIn, PrefixesFresh
<1>4. \A a \in announced : a.prefix <= used'[a.kind]
  BY <1>1, <1>2, <1>3
<1>5. \A d \in Connections : prefix[d] \in Nat /\ prefix'[d] \in Nat
  BY DEF Inv, TypeOK
<1>6. \A d \in Connections : step[d] \in Holding => request[d].kind \in Kinds
  BY DEF Inv, RequestKnown, Serving
\* A bootstrap other than c's keeps what it holds.
<1>7. ASSUME NEW d \in Connections, d # c
      PROVE  /\ step'[d] = step[d] /\ prefix'[d] = prefix[d] /\ request'[d] = request[d]
             /\ step[d] \in Holding => prefix[d] <= used'[request[d].kind]
  BY <1>1, <1>2, <1>5, <1>6, <1>7, OthersRest DEF Inv, PrefixesFresh
<1>8. CASE Takes(c)
  <2>1. /\ announced' = announced /\ request'[c] = request[c]
        /\ request[c].kind \in Kinds
        /\ prefix'[c] = used[request[c].kind] + 1
        /\ used'[request[c].kind] = used[request[c].kind] + 1
    BY <1>8 DEF Takes, Inv, TypeOK, RequestKnown, Serving
  <2>2. \A a \in announced : a.kind = request[c].kind => a.prefix # prefix'[c]
    BY <1>1, <1>3, <2>1
  <2>3. ASSUME NEW d \in Connections, d # c, step[d] \in Holding,
               request[d].kind = request[c].kind
        PROVE  prefix[d] # prefix'[c]
    <3>1. prefix[d] <= used[request[c].kind]
      BY <2>3 DEF Inv, PrefixesFresh
    <3> QED
      BY <1>1, <1>5, <2>1, <3>1
  <2>4. ASSUME NEW d \in Connections, step'[d] \in Holding
        PROVE  /\ prefix'[d] <= used'[request'[d].kind]
               /\ \A a \in announced' : a.kind = request'[d].kind => a.prefix # prefix'[d]
               /\ \A e \in Connections :
                    e # d /\ step'[e] \in Holding /\ request'[e].kind = request'[d].kind
                      => prefix'[e] # prefix'[d]
    <3>1. CASE d = c
      BY <1>1, <1>7, <2>1, <2>2, <2>3, <3>1
    <3>2. CASE d # c
      BY <1>7, <2>1, <2>3, <2>4, <3>2 DEF Inv, PrefixesFresh
    <3> QED
      BY <3>1, <3>2
  <2> QED
    BY <1>4, <2>1, <2>4 DEF PrefixesFresh
<1>9. CASE Publishes(c)
  <2>1. PICK j, p \in Templates, n \in NoteIn : announced' = announced \cup {Announcement(c, j, n, p)}
    BY <1>9 DEF Publishes
  <2>2. /\ Announcement(c, j, n, p).kind = request[c].kind
        /\ Announcement(c, j, n, p).prefix = prefix[c]
        /\ step[c] \in Holding /\ used' = used /\ step'[c] \notin Holding
    BY <1>9 DEF Announcement, Publishes, Outside, Serving, Holding
  <2>3. \A a \in announced' : a.prefix <= used'[a.kind]
    BY <1>4, <2>1, <2>2 DEF Inv, PrefixesFresh
  <2>4. ASSUME NEW d \in Connections, step'[d] \in Holding
        PROVE  /\ prefix'[d] <= used'[request'[d].kind]
               /\ \A a \in announced' : a.kind = request'[d].kind => a.prefix # prefix'[d]
               /\ \A e \in Connections :
                    e # d /\ step'[e] \in Holding /\ request'[e].kind = request'[d].kind
                      => prefix'[e] # prefix'[d]
    <3>1. d # c
      BY <2>2, <2>4
    <3>2. \A a \in announced' : a.kind = request'[d].kind => a.prefix # prefix'[d]
      BY <1>7, <2>1, <2>2, <2>4, <3>1 DEF Inv, PrefixesFresh
    <3>3. ASSUME NEW e \in Connections, e # d, step'[e] \in Holding,
                 request'[e].kind = request'[d].kind
          PROVE  prefix'[e] # prefix'[d]
      <4>1. e # c
        BY <2>2, <3>3
      <4> QED
        BY <1>7, <2>4, <3>1, <3>3, <4>1 DEF Inv, PrefixesFresh
    <3> QED
      BY <1>7, <2>4, <3>1, <3>2, <3>3
  <2> QED
    BY <2>3, <2>4 DEF PrefixesFresh
<1>10. CASE Enters(c) \/ Numbers(c) \/ Continues(c) \/ Drops(c)
  <2>1. announced' = announced /\ used' = used
    BY <1>10 DEF Enters, Numbers, Continues, Drops
  <2>2. step'[c] \in Holding =>
          step[c] \in Holding /\ prefix'[c] = prefix[c] /\ request'[c] = request[c]
    BY <1>10 DEF Enters, Numbers, Continues, Drops, Outside, Serving, Holding, Registered, Kept
  <2>3. \A d \in Connections : step'[d] \in Holding =>
          step[d] \in Holding /\ prefix'[d] = prefix[d] /\ request'[d] = request[d]
    BY <1>7, <2>2
  <2> QED
    BY <1>4, <2>1, <2>3 DEF Inv, PrefixesFresh
<1> QED
  BY <1>8, <1>9, <1>10, Shapes

-----------------------------------------------------------------------------
LEMMA StepInv == Inv /\ [Next]_vars => Inv'
<1> SUFFICES ASSUME Inv, [Next]_vars PROVE Inv'
  OBVIOUS
<1>1. CASE \E c \in Connections : Start(c) \/ Run(c)
  <2>1. PICK c \in Connections : Start(c) \/ Run(c)
    BY <1>1
  <2>2. TypeOK'
    BY <2>1, ConnectTyped, OpenTyped, ServeTyped DEF Start, Run
  <2>3. RequestKnown'
    BY <2>1, <2>2, StepKinds
  <2> QED
    BY <2>1, <2>2, <2>3, StepIdsSuffice, StepIdsFresh, StepPrefixesFresh DEF Inv
<1>2. CASE Provider
  <2>1. UNCHANGED <<used, connection, bootstrap, requests, history>>
    BY <1>2 DEF Provider, NewTemplate, SetNewPrevHash
  <2> QED
    BY <1>2, <2>1, ProviderTyped
    DEF Inv, RequestKnown, IdsSuffice, IdsFresh, PrefixesFresh, connection, bootstrap, history
<1>3. CASE UNCHANGED vars
  BY <1>3 DEF vars, history, connection, bootstrap, Inv, TypeOK, RequestKnown, IdsSuffice,
     IdsFresh, PrefixesFresh
<1> QED
  BY <1>1, <1>2, <1>3 DEF Next, Done

LEMMA InvHolds == Spec => []Inv
  BY InitInv, StepInv, PTL DEF Spec

\* Every variable of the channel bootstrap keeps its type: the ids of channels
\* stay within the requests received, the prefixes within each factory.
THEOREM BootstrapTypeCorrect == Spec => []TypeOK
<1>1. Inv => TypeOK
  BY DEF Inv
<1> QED
  BY <1>1, InvHolds, PTL

\* Each step either announces one channel with an id and a prefix nobody was
\* told before, or announces nothing.
LEMMA StepOpens == Inv /\ [Next]_vars => [Book!Open]_announced
<1> SUFFICES ASSUME Inv, Next, announced' # announced PROVE Book!Open
  BY DEF vars, history
<1>1. PICK c \in Connections : Start(c) \/ Run(c)
  BY DEF Next, Provider, NewTemplate, SetNewPrevHash, Done, vars, history
<1>2. Publishes(c)
  BY <1>1, Shapes DEF Enters, Takes, Numbers, Continues, Drops
<1>3. PICK j, p \in Templates, n \in NoteIn : announced' = announced \cup {Announcement(c, j, n, p)}
  BY <1>2 DEF Publishes
<1>4. /\ Announcement(c, j, n, p).conn = c /\ Announcement(c, j, n, p).id = id[c]
      /\ Announcement(c, j, n, p).kind = request[c].kind
      /\ Announcement(c, j, n, p).prefix = prefix[c]
  BY DEF Announcement
<1>5. Book!Fresh(Announcement(c, j, n, p))
  BY <1>2, <1>4 DEF Publishes, Inv, IdsFresh, PrefixesFresh, Holding,
     Book!Fresh, Book!SameName, Book!SameSearch
<1> QED
  BY <1>3, <1>5 DEF Book!Open

\* The bootstraps of any number of connections, interleaved in any way with each
\* other and with the template provider, keep the book: no id of a connection
\* and no prefix of the server is announced twice.
THEOREM BookIsKept == Spec => ImplementsBook
<1>1. Init => Book!Init
  BY DEF Init, Book!Init
<1> QED
  BY <1>1, InvHolds, StepOpens, PTL DEF Spec, ImplementsBook, Book!Spec

\* The channels the clients were told of are told apart by their names: by the
\* connection and the id, and by the kind and the prefix.
NamesAreUnique ==
  \A a, b \in announced :
    \/ a.conn = b.conn /\ a.id = b.id
    \/ a.kind = b.kind /\ a.prefix = b.prefix
    => a = b

\* For the miners: no two channels of a connection answer to one id, and no two
\* channels of a kind, on any connections, search the same extranonces.
THEOREM NoNameTwice == Spec => []NamesAreUnique
<1>1. Init => NamesAreUnique
  BY DEF Init, NamesAreUnique
<1>2. NamesAreUnique /\ [Book!Open]_announced => NamesAreUnique'
  <2> SUFFICES ASSUME NamesAreUnique, Book!Open PROVE NamesAreUnique'
    BY DEF NamesAreUnique
  <2>1. PICK ch \in announced' : Book!Fresh(ch) /\ announced' = announced \cup {ch}
    BY DEF Book!Open
  <2> QED BY <2>1 DEF NamesAreUnique, Book!Fresh, Book!SameName, Book!SameSearch
<1>3. Spec => [][Book!Open]_announced
  BY BookIsKept, PTL DEF ImplementsBook, Book!Spec
<1> QED BY <1>1, <1>2, <1>3, PTL DEF Spec

-----------------------------------------------------------------------------
(* The channels a connection keeps: who lists them and who is told of them. *)

\* No channel has an id its connection is still to give out, or one its
\* bootstrap is about to register.
UnbornAbsent == \A c \in Connections : \A i \in Ids : i >= nextId[c] => chan[c][i].kind = "none"
AbsentYet    == \A c \in Connections : step[c] = "register" => chan[c][id[c]].kind = "none"

\* From then on the channel is there, of the kind that was asked for.
KeptKind == \A c \in Connections : step[c] \in Kept => chan[c][id[c]].kind = request[c].kind

\* A connection with work selection opens no standard channel.
StandardServed ==
  \A c \in Connections :
    step[c] \in Serving /\ request[c].kind = "standard" => "work_selection" \notin Flags[c]

\* A standard channel of a connection with a group is listed before it is fed.
Listed ==
  \A c \in Connections :
    /\ step[c] = "list" => Listing(c)
    /\ step[c] \in Kept \ {"list"} /\ Listing(c) => id[c] \in members[c]

\* Every channel is known to the client, was left by an exception, or belongs to
\* the bootstrap that runs.
Known(c, i) == \/ \E a \in announced : a.conn = c /\ a.id = i
               \/ [conn |-> c, id |-> i] \in raised
Accounted ==
  \A c \in Connections : \A i \in Ids :
    chan[c][i].kind \in Kinds => Known(c, i) \/ (step[c] \in Kept /\ i = id[c])

KeepInv == UnbornAbsent /\ AbsentYet /\ KeptKind /\ StandardServed
BookInv == Listed /\ Accounted /\ GroupListsChannels

\* A call on a channel leaves its kind.
LEMMA CallsKeepKind ==
  ASSUME NEW ch \in ChannelIn, NEW t
  PROVE  OnNewTemplate(ch, t).kind = ch.kind /\ OnSetNewPrevHash(ch, t).kind = ch.kind
  BY DEF ChannelIn, OnNewTemplate, OnSetNewPrevHash

\* One channel is replaced by one of its own kind.
LEMMA SameKind ==
  ASSUME Inv, NEW c \in Connections, NEW i \in Ids, NEW ch,
         chan' = [chan EXCEPT ![c][i] = ch], ch.kind = chan[c][i].kind
  PROVE  \A d \in Connections : \A k \in Ids : chan'[d][k].kind = chan[d][k].kind
  BY DEF Inv, TypeOK

\* The steps that neither register a channel nor make a group channel.
LEMMA KindsStay ==
  ASSUME Inv, NEW c \in Connections, Start(c) \/ Run(c), ~Register(c), ~(Connect(c) /\ HasGroup(c))
  PROVE  \A d \in Connections : \A k \in Ids : chan'[d][k].kind = chan[d][k].kind
<1>1. CASE \/ Receive(c) \/ TakePrefix(c) \/ NoPrefix(c) \/ CreateRefused(c) \/ CreateRaises(c) \/ Create(c)
           \/ AddToGroup(c) \/ LookUpJob(c) \/ Raise(c) \/ ReadPrevHash(c) \/ ReadTime(c) \/ Tell(c)
  <2>1. chan' = chan
    BY <1>1 DEF Receive, TakePrefix, NoPrefix, CreateRefused, CreateRaises, Create, AddToGroup,
       LookUpJob, Raise, ReadPrevHash, ReadTime, Tell, connection
  <2> QED
    BY <2>1
<1>2. CASE GroupTemplate(c) \/ GroupTip(c)
  <2>1. GroupId \in Ids /\ chan[c][GroupId] \in ChannelIn
    BY GroupIdIsId DEF Inv, TypeOK
  <2>2. \/ chan' = chan
        \/ chan' = [chan EXCEPT ![c][GroupId] = OnNewTemplate(chan[c][GroupId], cache.template)]
        \/ chan' = [chan EXCEPT ![c][GroupId] = OnSetNewPrevHash(chan[c][GroupId], cache.prevHash)]
    BY <1>2, <2>1 DEF GroupTemplate, GroupTip, Inv, TypeOK
  <2> QED
    BY <2>1, <2>2, CallsKeepKind, SameKind
<1>3. CASE CustomWork(c) \/ LoadTemplate(c) \/ ActivateJob(c)
  <2>1. id[c] \in Ids /\ chan[c][id[c]] \in ChannelIn
    BY DEF Inv, TypeOK
  <2>2. \/ chan' = [chan EXCEPT ![c][id[c]] = OnNewTemplate(chan[c][id[c]], cache.template)]
        \/ chan' = [chan EXCEPT ![c][id[c]] = OnSetNewPrevHash(chan[c][id[c]], cache.prevHash)]
    BY <1>3, <2>1 DEF CustomWork, LoadTemplate, ActivateJob, Inv, TypeOK
  <2> QED
    BY <2>1, <2>2, CallsKeepKind, SameKind
<1>4. CASE Connect(c) /\ ~HasGroup(c)
  BY <1>4 DEF Connect
<1> QED
  BY <1>1, <1>2, <1>3, <1>4 DEF Start, Run

LEMMA KindsRegister ==
  ASSUME Inv, NEW c \in Connections, Register(c)
  PROVE  \A d \in Connections : \A k \in Ids :
           chan'[d][k].kind = IF d = c /\ k = id[c] THEN request[c].kind ELSE chan[d][k].kind
<1>1. NewChannel(request[c].kind, prefix[c]).kind = request[c].kind
  BY DEF NewChannel
<1>2. chan' = [chan EXCEPT ![c][id[c]] = NewChannel(request[c].kind, prefix[c])]
  BY DEF Register
<1>3. chan \in [Connections -> [Ids -> ChannelIn]] /\ id[c] \in Ids
  BY DEF Inv, TypeOK
<1> QED
  BY <1>1, <1>2, <1>3

LEMMA KindsConnect ==
  ASSUME Inv, NEW c \in Connections, Connect(c), HasGroup(c)
  PROVE  \A d \in Connections : \A k \in Ids :
           chan'[d][k].kind = IF d = c /\ k = nextId[c] THEN "group" ELSE chan[d][k].kind
<1>1. NewChannel("group", 0).kind = "group"
  BY DEF NewChannel
<1>2. chan' = [chan EXCEPT ![c][nextId[c]] = NewChannel("group", 0)]
  BY DEF Connect
<1>3. chan \in [Connections -> [Ids -> ChannelIn]]
  BY DEF Inv, TypeOK
<1>4. nextId[c] \in Ids
  BY GroupIdIsId DEF Connect, Inv, IdsSuffice
<1> QED
  BY <1>1, <1>2, <1>3, <1>4

\* Identifiers are only counted up.
LEMMA IdsGrow ==
  ASSUME Inv, NEW c \in Connections, Start(c) \/ Run(c)
  PROVE  \A d \in Connections : nextId[d] \in Nat /\ nextId'[d] \in Nat /\ nextId[d] <= nextId'[d]
<1>1. nextId' = nextId \/ nextId' = [nextId EXCEPT ![c] = @ + 1]
  BY Shapes DEF Enters, Takes, Numbers, Continues, Drops, Publishes
<1>2. nextId \in [Connections -> Nat]
  BY DEF Inv, TypeOK
<1> QED
  BY <1>1, <1>2

LEMMA StepUnbornAbsent ==
  ASSUME Inv, KeepInv, NEW c \in Connections, Start(c) \/ Run(c)
  PROVE  UnbornAbsent'
<1> SUFFICES ASSUME NEW d \in Connections, NEW i \in Ids, i >= nextId'[d]
             PROVE  chan'[d][i].kind = "none"
  BY DEF UnbornAbsent
<1>1. i >= nextId[d] /\ chan[d][i].kind = "none"
  BY IdsGrow, BoundsAssumption DEF KeepInv, UnbornAbsent, Ids
<1>2. CASE Register(c)
  <2>1. ~(d = c /\ i = id[c])
    BY <1>1, <1>2, BoundsAssumption DEF Register, Registered, Inv, TypeOK, IdsFresh, Ids
  <2> QED
    BY <1>1, <1>2, <2>1, KindsRegister
<1>3. CASE Connect(c) /\ HasGroup(c)
  <2>1. nextId'[c] = nextId[c] + 1 /\ nextId[c] \in Nat
    BY <1>3 DEF Connect, Inv, TypeOK
  <2>2. ~(d = c /\ i = nextId[c])
    BY <2>1
  <2> QED
    BY <1>1, <1>3, <2>2, KindsConnect
<1>4. CASE ~Register(c) /\ ~(Connect(c) /\ HasGroup(c))
  BY <1>1, <1>4, KindsStay
<1> QED
  BY <1>2, <1>3, <1>4

\* What the step of a connection does to its bootstrap, in more detail than
\* Shapes: how it goes from registering to the last message.
Feeds(c) ==
  /\ step[c] \in Kept \ {"list"} /\ step'[c] \in Kept \ {"list"}
  /\ UNCHANGED <<id, request, members, announced, raised>>

LEMMA KeepShapes ==
  ASSUME Inv, NEW c \in Connections, Start(c) \/ Run(c)
  PROVE  \/ Create(c) \/ Register(c) \/ AddToGroup(c) \/ Feeds(c)
         \/ step'[c] \notin Registered /\ members' = members
<1> USE DEF Inv, TypeOK, Goto, Finish, connection, bootstrap, Registered, Kept, history
<1>1. CASE Start(c) \/ GroupTemplate(c) \/ GroupTip(c) \/ TakePrefix(c) \/ NoPrefix(c) \/ CreateRefused(c)
  BY <1>1 DEF Start, Connect, Receive, GroupTemplate, GroupTip, TakePrefix, NoPrefix, CreateRefused
<1>2. CASE CreateRaises(c) \/ Raise(c) \/ CustomWork(c) \/ Tell(c)
  BY <1>2 DEF CreateRaises, Raise, Broken, CustomWork, Tell, Announce
<1>3. CASE LoadTemplate(c) \/ LookUpJob(c) \/ ActivateJob(c) \/ ReadPrevHash(c) \/ ReadTime(c)
  BY <1>3 DEF LoadTemplate, LookUpJob, ActivateJob, ReadPrevHash, ReadTime, Feeds
<1> QED
  BY <1>1, <1>2, <1>3 DEF Run

LEMMA StepAbsentYet ==
  ASSUME Inv, KeepInv, NEW c \in Connections, Start(c) \/ Run(c)
  PROVE  AbsentYet'
<1> SUFFICES ASSUME NEW d \in Connections, step'[d] = "register"
             PROVE  chan'[d][id'[d]].kind = "none"
  BY DEF AbsentYet
<1>1. CASE d # c
  <2>1. step[d] = "register" /\ id'[d] = id[d] /\ id[d] \in Ids
    BY <1>1, OthersRest DEF Inv, TypeOK
  <2>2. chan'[d][id[d]].kind = chan[d][id[d]].kind
    BY <1>1, <2>1, KindsStay, KindsRegister, KindsConnect
  <2> QED
    BY <2>1, <2>2 DEF KeepInv, AbsentYet
<1>2. CASE d = c
  <2>1. Create(c)
    BY <1>2, KeepShapes
    DEF Register, AddToGroup, Feeds, Goto, Working, Kept, Registered, Inv, TypeOK
  <2>2. id'[c] = nextId[c] /\ chan' = chan /\ nextId[c] \in Ids
    BY <2>1, BoundsAssumption DEF Create, Inv, TypeOK, IdsSuffice, Ids
  <2>3. nextId[c] >= nextId[c]
    BY <2>1 DEF Inv, TypeOK
  <2> QED
    BY <1>2, <2>2, <2>3 DEF KeepInv, UnbornAbsent
<1> QED
  BY <1>1, <1>2

LEMMA StepKeptKind ==
  ASSUME Inv, KeepInv, NEW c \in Connections, Start(c) \/ Run(c)
  PROVE  KeptKind'
<1> SUFFICES ASSUME NEW d \in Connections, step'[d] \in Kept
             PROVE  chan'[d][id'[d]].kind = request'[d].kind
  BY DEF KeptKind
<1>1. CASE d # c
  <2>1. step[d] \in Kept /\ id'[d] = id[d] /\ id[d] \in Ids /\ request'[d] = request[d]
    BY <1>1, OthersRest DEF Inv, TypeOK
  <2>2. chan'[d][id[d]].kind = chan[d][id[d]].kind
    BY <1>1, <2>1, KindsStay, KindsRegister, KindsConnect
  <2> QED
    BY <2>1, <2>2 DEF KeepInv, KeptKind
<1>2. CASE d = c /\ Register(c)
  <2>1. id' = id /\ request' = request /\ id[c] \in Ids
    BY <1>2 DEF Register, Inv, TypeOK
  <2> QED
    BY <1>2, <2>1, KindsRegister
<1>3. CASE d = c /\ ~Register(c)
  <2>1. AddToGroup(c) \/ Feeds(c)
    BY <1>3, KeepShapes DEF Create, Goto, Kept, Registered, Inv, TypeOK
  <2>2. /\ step[c] \in Kept /\ id' = id /\ request' = request /\ id[c] \in Ids
        /\ step[c] # "new"
    BY <2>1 DEF AddToGroup, Feeds, Kept, Inv, TypeOK
  <2>3. chan'[c][id[c]].kind = chan[c][id[c]].kind
    BY <1>3, <2>2, KindsStay DEF Connect
  <2> QED
    BY <1>3, <2>2, <2>3 DEF KeepInv, KeptKind
<1> QED
  BY <1>1, <1>2, <1>3

LEMMA StepStandardServed ==
  ASSUME Inv, KeepInv, NEW c \in Connections, Start(c) \/ Run(c)
  PROVE  StandardServed'
<1> SUFFICES ASSUME NEW d \in Connections, step'[d] \in Serving, request'[d].kind = "standard"
             PROVE  "work_selection" \notin Flags[d]
  BY DEF StandardServed
<1>1. CASE d # c
  BY <1>1, OthersRest DEF KeepInv, StandardServed
<1>2. CASE d = c /\ Enters(c)
  <2>1. Receive(c)
    BY <1>2 DEF Start, Run, Connect, Enters, GroupTemplate, GroupTip, TakePrefix, NoPrefix, CreateRefused,
       CreateRaises, Create, Register, AddToGroup, CustomWork, LoadTemplate, LookUpJob, ActivateJob,
       Raise, Fails, ReadPrevHash, ReadTime, Tell
  <2>2. PICK r \in Requests :
          IF r.kind = "standard" /\ "work_selection" \in Flags[c]
            THEN UNCHANGED bootstrap
            ELSE /\ request' = [request EXCEPT ![c] = r]
                 /\ Goto(c, "prefix") /\ UNCHANGED <<prefix, id, job, note>>
    BY <2>1 DEF Receive
  <2>3. request' = [request EXCEPT ![c] = r] /\ ~(r.kind = "standard" /\ "work_selection" \in Flags[c])
    BY <1>2, <2>2 DEF Enters, bootstrap
  <2> QED
    BY <1>2, <2>3 DEF Inv, TypeOK
<1>3. CASE d = c /\ ~Enters(c)
  <2>1. step[c] \in Serving /\ request' = request
    BY <1>3, Shapes DEF Takes, Numbers, Continues, Drops, Publishes, Outside, Serving, Holding, Registered, Kept
  <2> QED
    BY <1>3, <2>1 DEF KeepInv, StandardServed
<1> QED
  BY <1>1, <1>2, <1>3

\* A connection that lists channels has a group channel.
LEMMA ListingHasGroup ==
  ASSUME Inv, KeepInv, NEW c \in Connections, step[c] \in Registered, Listing(c)
  PROVE  HasGroup(c)
<1>1. "work_selection" \notin Flags[c] /\ "standard_jobs" \notin Flags[c]
  BY DEF KeepInv, StandardServed, Listing, Serving, Holding
<1>2. Flags[c] \subseteq {"standard_jobs", "work_selection"}
  BY FlagsAssumption
<1> QED
  BY <1>1, <1>2 DEF HasGroup

LEMMA StepListed ==
  ASSUME Inv, KeepInv, BookInv, NEW c \in Connections, Start(c) \/ Run(c)
  PROVE  Listed' /\ \A d \in Connections : members[d] \subseteq members'[d]
<1>1. \A d \in Connections : members[d] \subseteq members'[d]
  <2>1. members' = members \/ members' = [members EXCEPT ![c] = @ \cup {id[c]}]
    BY KeepShapes DEF Create, Register, AddToGroup, Feeds
  <2>2. members \in [Connections -> SUBSET Ids]
    BY DEF Inv, TypeOK
  <2> QED
    BY <2>1, <2>2
<1> SUFFICES ASSUME NEW d \in Connections
             PROVE  /\ step'[d] = "list" => Listing(d)'
                    /\ step'[d] \in Kept \ {"list"} /\ Listing(d)' => id'[d] \in members'[d]
  BY <1>1 DEF Listed
<1>2. CASE d # c
  BY <1>1, <1>2, OthersRest DEF BookInv, Listed, Listing
<1>3. CASE d = c /\ Register(c)
  BY <1>3 DEF Register, Goto, Listing, Working, Inv, TypeOK
<1>4. CASE d = c /\ AddToGroup(c)
  BY <1>4 DEF AddToGroup, Goto, Listing, Working, Inv, TypeOK
<1>5. CASE d = c /\ Feeds(c)
  BY <1>5 DEF Feeds, Listing, BookInv, Listed
<1>6. CASE d = c /\ (Create(c) \/ step'[c] \notin Registered)
  BY <1>6 DEF Create, Goto, Registered, Kept, Inv, TypeOK
<1> QED
  BY <1>2, <1>3, <1>4, <1>5, <1>6, KeepShapes

LEMMA StepGroupLists ==
  ASSUME Inv, KeepInv, BookInv, NEW c \in Connections, Start(c) \/ Run(c)
  PROVE  GroupListsChannels'
<1>1. ASSUME NEW d \in Connections, NEW i \in members'[d]
      PROVE  HasGroup(d) /\ chan'[d][i].kind = "standard"
  <2>1. HasGroup(d) /\ chan[d][i].kind = "standard" /\ i \in Ids
    <3>1. CASE i \in members[d]
      BY <3>1 DEF BookInv, GroupListsChannels, Inv, TypeOK
    <3>2. CASE i \notin members[d]
      <4>1. AddToGroup(c) /\ d = c /\ i = id[c]
        BY <1>1, <3>2, KeepShapes DEF Create, Register, AddToGroup, Feeds, Inv, TypeOK
      <4>2. Listing(c) /\ step[c] \in Kept
        BY <4>1 DEF AddToGroup, BookInv, Listed, Kept
      <4>3. HasGroup(c)
        BY <4>2, ListingHasGroup DEF Registered
      <4>4. chan[c][id[c]].kind = "standard" /\ id[c] \in Ids
        BY <4>2 DEF KeepInv, KeptKind, Listing, Inv, TypeOK
      <4> QED
        BY <4>1, <4>3, <4>4
    <3> QED
      BY <3>1, <3>2
  <2>2. CASE Register(c)
    <3>1. ~(d = c /\ i = id[c])
      BY <2>1, <2>2 DEF Register, KeepInv, AbsentYet
    <3> QED
      BY <2>1, <2>2, <3>1, KindsRegister
  <2>3. CASE Connect(c) /\ HasGroup(c)
    <3>1. ~(d = c /\ i = nextId[c])
      BY <2>1, <2>3, IdsGrow DEF KeepInv, UnbornAbsent
    <3> QED
      BY <2>1, <2>3, <3>1, KindsConnect
  <2>4. CASE ~Register(c) /\ ~(Connect(c) /\ HasGroup(c))
    BY <2>1, <2>4, KindsStay
  <2> QED
    BY <2>2, <2>3, <2>4
<1>2. ASSUME NEW a \in announced', a.kind = "standard", HasGroup(a.conn)
      PROVE  a.id \in members'[a.conn]
  <2>1. CASE a \in announced
    <3>1. a.conn \in Connections /\ a.id \in members[a.conn]
      BY <1>2, <2>1 DEF BookInv, GroupListsChannels, Inv, TypeOK, ToldIn
    <3> QED
      BY <3>1, StepListed
  <2>2. CASE a \notin announced
    <3>1. Publishes(c)
      BY <1>2, <2>2, Shapes DEF Enters, Takes, Numbers, Continues, Drops
    <3>2. PICK j, p \in Templates, n \in NoteIn : announced' = announced \cup {Announcement(c, j, n, p)}
      BY <3>1 DEF Publishes
    <3>3. a.conn = c /\ a.id = id[c] /\ a.kind = request[c].kind
      BY <1>2, <2>2, <3>2 DEF Announcement
    <3>4. Listing(c)
      BY <1>2, <3>3 DEF Listing, HasGroup
    <3>5. step[c] \in Kept \ {"list"}
      BY <2>2, <1>2 DEF Start, Run, Connect, Receive, GroupTemplate, GroupTip, TakePrefix, NoPrefix,
         CreateRefused, CreateRaises, Create, Register, AddToGroup, CustomWork, LoadTemplate, LookUpJob,
         ActivateJob, Raise, ReadPrevHash, ReadTime, Tell, history, Kept
    <3>6. id[c] \in members[c]
      BY <3>4, <3>5 DEF BookInv, Listed
    <3> QED
      BY <3>3, <3>6, StepListed
  <2> QED
    BY <2>1, <2>2
<1> QED
  BY <1>1, <1>2 DEF GroupListsChannels

LEMMA StepAccounted ==
  ASSUME Inv, KeepInv, BookInv, NEW c \in Connections, Start(c) \/ Run(c)
  PROVE  Accounted'
<1>1. announced \subseteq announced' /\ raised \subseteq raised'
  BY DEF Start, Run, Connect, Receive, GroupTemplate, GroupTip, TakePrefix, NoPrefix,
     CreateRefused, CreateRaises, Broken, Create, Register, AddToGroup, CustomWork, LoadTemplate,
     LookUpJob, ActivateJob, Raise, ReadPrevHash, ReadTime, Tell, Announce, history
<1>2. ASSUME NEW d \in Connections, NEW i \in Ids, Known(d, i)
      PROVE  Known(d, i)'
  BY <1>1, <1>2 DEF Known
\* The channel of a bootstrap that ends is known from then on.
<1>3. ASSUME NEW k \in Ids, step[c] \in Kept, k = id[c]
      PROVE  Known(c, k)' \/ (step'[c] \in Kept /\ k = id'[c])
  <2>1. CASE CustomWork(c) \/ Tell(c)
    <3>1. PICK j \in {0, job[c]}, n \in {NoNote, note[c]}, p \in {0, cache.prevHash} :
            announced' = announced \cup {Announcement(c, j, n, p)}
      BY <2>1 DEF CustomWork, Tell, Announce
    <3>2. Announcement(c, j, n, p).conn = c /\ Announcement(c, j, n, p).id = id[c]
      BY DEF Announcement
    <3> QED
      BY <1>3, <3>1, <3>2 DEF Known
  <2>2. CASE Raise(c)
    BY <1>3, <2>2 DEF Raise, Broken, Known
  <2>3. CASE ~CustomWork(c) /\ ~Tell(c) /\ ~Raise(c)
    BY <1>3, <2>3 DEF Start, Run, Connect, Receive, GroupTemplate, GroupTip, TakePrefix, NoPrefix,
       CreateRefused, CreateRaises, Create, Register, AddToGroup, Working, LoadTemplate, LookUpJob,
       ActivateJob, ReadPrevHash, ReadTime, Goto, Kept, Inv, TypeOK
  <2> QED
    BY <2>1, <2>2, <2>3
<1> SUFFICES ASSUME NEW d \in Connections, NEW i \in Ids, chan'[d][i].kind \in Kinds
             PROVE  Known(d, i)' \/ (step'[d] \in Kept /\ i = id'[d])
  BY DEF Accounted
<1>4. CASE Register(c) /\ d = c /\ i = id[c]
  BY <1>4 DEF Register, Goto, Working, Kept, Inv, TypeOK
<1>5. CASE ~(Register(c) /\ d = c /\ i = id[c])
  <2>1. chan[d][i].kind \in Kinds
    <3>1. CASE Register(c)
      BY <1>5, <3>1, KindsRegister
    <3>2. CASE Connect(c) /\ HasGroup(c)
      BY <3>2, KindsConnect DEF Kinds
    <3>3. CASE ~Register(c) /\ ~(Connect(c) /\ HasGroup(c))
      BY <3>3, KindsStay
    <3> QED
      BY <3>1, <3>2, <3>3
  <2>2. Known(d, i) \/ (step[d] \in Kept /\ i = id[d])
    BY <2>1 DEF BookInv, Accounted
  <2>3. CASE Known(d, i)
    BY <1>2, <2>3
  <2>4. CASE step[d] \in Kept /\ i = id[d] /\ d # c
    BY <2>4, OthersRest
  <2>5. CASE step[d] \in Kept /\ i = id[d] /\ d = c
    BY <1>3, <2>5
  <2> QED
    BY <2>2, <2>3, <2>4, <2>5
<1> QED
  BY <1>4, <1>5

\* Both facts hold of every behaviour.
LEMMA BooksHold == Spec => [](KeepInv /\ BookInv)
<1>1. ASSUME Init PROVE KeepInv /\ BookInv
  <2>1. \A c \in Connections : members[c] = {} /\ step[c] = "new" /\ \A i \in Ids : chan[c][i].kind = "none"
    BY <1>1 DEF Init, NoChannel, NewChannel
  <2>2. announced = {}
    BY <1>1 DEF Init
  <2>3. KeepInv
    BY <2>1 DEF KeepInv, UnbornAbsent, AbsentYet, KeptKind, StandardServed, Serving, Holding, Registered, Kept
  <2>4. BookInv
    BY <2>1, <2>2 DEF BookInv, Listed, Accounted, GroupListsChannels, Kept, Kinds
  <2> QED
    BY <2>3, <2>4
<1>2. ASSUME Inv, KeepInv, BookInv, [Next]_vars PROVE KeepInv' /\ BookInv'
  <2>1. CASE \E c \in Connections : Start(c) \/ Run(c)
    <3>1. PICK c \in Connections : Start(c) \/ Run(c)
      BY <2>1
    <3>2. KeepInv'
      BY <1>2, <3>1, StepUnbornAbsent, StepAbsentYet, StepKeptKind, StepStandardServed DEF KeepInv
    <3>3. BookInv'
      BY <1>2, <3>1, StepListed, StepGroupLists, StepAccounted DEF BookInv
    <3> QED
      BY <3>2, <3>3
  <2>2. CASE Provider \/ UNCHANGED vars
    <3>1. UNCHANGED <<nextId, chan, members, step, id, request, announced, raised>>
      BY <2>2 DEF Provider, NewTemplate, SetNewPrevHash, vars, connection, bootstrap, history
    <3>2. KeepInv'
      BY <1>2, <3>1 DEF KeepInv, UnbornAbsent, AbsentYet, KeptKind, StandardServed
    <3>3. BookInv'
      BY <1>2, <3>1 DEF BookInv, Listed, Listing, Accounted, Known, GroupListsChannels
    <3> QED
      BY <3>2, <3>3
  <2> QED
    BY <1>2, <2>1, <2>2 DEF Next, Done
<1> QED
  BY <1>1, <1>2, InvHolds, PTL DEF Spec

\* However opens interleave, and whichever of them are refused or break off
\* between registering, listing and telling, the group channel of a connection
\* lists standard channels of that connection only, and every one its client
\* was told of.
THEOREM GroupIsComplete == Spec => []GroupListsChannels
<1>1. BookInv => GroupListsChannels
  BY DEF BookInv
<1> QED
  BY <1>1, BooksHold, PTL

\* A connection that is not serving a request keeps no channel its client does not
\* know, except those whose bootstrap an exception ended.
THEOREM OnlyExceptionsLeaveChannels == Spec => []UntoldOnlyByException
<1>1. BookInv => UntoldOnlyByException
  BY DEF BookInv, Accounted, Known, UntoldOnlyByException, Kept
<1> QED
  BY <1>1, BooksHold, PTL

-----------------------------------------------------------------------------
(* In a single-threaded server every client is told of the job that its    *)
(* channel has active.                                                     *)

\* At most one connection is inside its constructor or a bootstrap.
OneBootstrap ==
  \A c, d \in Connections : c # d => step[c] \in Waiting \/ step[d] \in Waiting

\* The channel of a running bootstrap: it is the one registered for the request,
\* and follows the cache.
ChannelFollows ==
  \A c \in Connections :
    LET ch == chan[c][id[c]] IN
      /\ step[c] \in Kept => ch.kind = request[c].kind /\ ch.prefix = prefix[c]
      /\ step[c] \in {"list", "custom", "template"} => ch.future = 0 /\ ch.active = 0
      /\ step[c] = "job" => ch.future = cache.template
      /\ step[c] = "tip" => ch.future = cache.template /\ job[c] = cache.template
      /\ step[c] \in {"prev_hash", "ntime", "nbits"} =>
           /\ ch.active = job[c] /\ ch.tip = cache.prevHash
           /\ job[c] = cache.prevHash
      /\ step[c] \in {"ntime", "nbits"} => note[c].prev_hash = cache.prevHash
      /\ step[c] = "nbits" => note[c].ntime = cache.prevHash

\* Nothing is announced on a connection before its constructor is done.
UnbornSilent ==
  \A c \in Connections : step[c] \in Unborn => \A a \in announced : a.conn # c

SerialInv == OneBootstrap /\ ChannelFollows /\ UnbornSilent /\ ToldIsActive

LEMMA SerialInit == Init => SerialInv
  BY DEF Init, SerialInv, OneBootstrap, Waiting, ChannelFollows, Kept, UnbornSilent, ToldIsActive

\* A started or running bootstrap is alone from then on.
LEMMA StepOneBootstrap ==
  ASSUME SingleThreaded, Inv, SerialInv, NEW c \in Connections, Start(c) \/ Run(c)
  PROVE  OneBootstrap'
<1>1. \A d \in Connections : d # c => step[d] \in Waiting
  <2>1. CASE Start(c)
    BY <2>1 DEF Start, Connect, Receive, MayStart
  <2>2. CASE Run(c)
    <3>1. step[c] \notin Waiting
      BY <2>2 DEF Run, GroupTemplate, GroupTip, TakePrefix, NoPrefix, CreateRefused,
         CreateRaises, Create, Register, AddToGroup, CustomWork, LoadTemplate, LookUpJob, ActivateJob,
         Raise, Fails, ReadPrevHash, ReadTime, Tell, Waiting
    <3> QED
      BY <3>1 DEF SerialInv, OneBootstrap
  <2> QED
    BY <2>1, <2>2
<1>2. \A d \in Connections : d # c => step'[d] \in Waiting
  BY <1>1, OthersRest
<1> QED
  BY <1>2 DEF OneBootstrap

\* A step writes at most one channel, and never one that was announced.
LEMMA ChanKept ==
  ASSUME Inv, SerialInv, NEW c \in Connections, Start(c) \/ Run(c)
  PROVE  /\ \A a \in announced : chan'[a.conn][a.id] = chan[a.conn][a.id]
         /\ \A d \in Connections : d # c => chan'[d] = chan[d]
<1> USE DEF Inv, TypeOK, connection
<1>1. \A a \in announced : a.conn \in Connections /\ a.id \in Ids /\ a.id < nextId[a.conn]
  BY DEF IdsFresh, ToldIn
<1>2. ASSUME NEW i \in Ids, NEW ch \in ChannelIn, chan' = [chan EXCEPT ![c][i] = ch],
             \A a \in announced : a.conn = c => a.id # i
      PROVE  /\ \A a \in announced : chan'[a.conn][a.id] = chan[a.conn][a.id]
             /\ \A d \in Connections : d # c => chan'[d] = chan[d]
  BY <1>1, <1>2
<1>3. ASSUME UNCHANGED chan
      PROVE  /\ \A a \in announced : chan'[a.conn][a.id] = chan[a.conn][a.id]
             /\ \A d \in Connections : d # c => chan'[d] = chan[d]
  BY <1>3
<1>4. /\ OnNewTemplate(chan[c][id[c]], cache.template) \in ChannelIn
      /\ OnSetNewPrevHash(chan[c][id[c]], cache.prevHash) \in ChannelIn
      /\ GroupId \in Ids /\ id[c] \in Ids
      /\ OnNewTemplate(chan[c][GroupId], cache.template) \in ChannelIn
      /\ OnSetNewPrevHash(chan[c][GroupId], cache.prevHash) \in ChannelIn
  <2>1. GroupId \in Ids /\ id[c] \in Ids
    BY GroupIdIsId
  <2>2. chan[c][id[c]] \in ChannelIn /\ chan[c][GroupId] \in ChannelIn
    BY <2>1
  <2>3. cache.template \in Templates /\ cache.prevHash \in Templates
    BY CacheType
  <2> QED
    BY <2>1, <2>2, <2>3, ChannelTypes
<1>5. CASE Connect(c) \/ GroupTemplate(c) \/ GroupTip(c)
  <2>1. \A a \in announced : a.conn # c
    BY <1>5 DEF Connect, GroupTemplate, GroupTip, SerialInv, UnbornSilent, Unborn
  <2>2. NewChannel("group", 0) \in ChannelIn
    BY NewChannelType
  <2>3. CASE Connect(c)
    <3>1. nextId[c] \in Ids
      BY <2>3, GroupIdIsId DEF Connect, IdsSuffice
    <3> QED
      BY <1>2, <1>3, <2>1, <2>2, <2>3, <3>1 DEF Connect
  <2>4. CASE GroupTemplate(c)
    BY <1>2, <1>3, <1>4, <2>1, <2>4 DEF GroupTemplate
  <2>5. CASE GroupTip(c)
    BY <1>2, <1>3, <1>4, <2>1, <2>5 DEF GroupTip
  <2> QED
    BY <1>5, <2>3, <2>4, <2>5
<1>6. CASE Register(c)
  <2>1. NewChannel(request[c].kind, prefix[c]) \in ChannelIn
    BY <1>6, NewChannelType DEF Register, RequestKnown, Serving, Holding, Registered
  <2>2. \A a \in announced : a.conn = c => a.id # id[c]
    BY <1>6 DEF Register, IdsFresh, Registered
  <2> QED
    BY <1>2, <1>4, <1>6, <2>1, <2>2 DEF Register
<1>7. CASE CustomWork(c) \/ LoadTemplate(c) \/ ActivateJob(c)
  <2>1. \A a \in announced : a.conn = c => a.id # id[c]
    BY <1>7 DEF CustomWork, LoadTemplate, ActivateJob, IdsFresh, Registered, Kept
  <2>2. \E ch \in ChannelIn : chan' = [chan EXCEPT ![c][id[c]] = ch]
    BY <1>4, <1>7 DEF CustomWork, LoadTemplate, ActivateJob
  <2> QED
    BY <1>2, <1>4, <2>1, <2>2
<1>8. CASE \/ Receive(c) \/ TakePrefix(c) \/ NoPrefix(c) \/ CreateRefused(c) \/ CreateRaises(c)
           \/ Create(c) \/ AddToGroup(c)
  BY <1>3, <1>8 DEF Receive, TakePrefix, NoPrefix, CreateRefused, CreateRaises, Create, AddToGroup
<1>9. CASE LookUpJob(c) \/ Raise(c) \/ ReadPrevHash(c) \/ ReadTime(c) \/ Tell(c)
  BY <1>3, <1>9 DEF LookUpJob, Raise, ReadPrevHash, ReadTime, Tell
<1> QED
  BY <1>5, <1>6, <1>7, <1>8, <1>9 DEF Start, Run

LEMMA StepUnbornSilent ==
  ASSUME Inv, SerialInv, NEW c \in Connections, Start(c) \/ Run(c)
  PROVE  UnbornSilent'
<1> SUFFICES ASSUME NEW d \in Connections, step'[d] \in Unborn
             PROVE  \A a \in announced' : a.conn # d
  BY DEF UnbornSilent
<1>1. step[d] \in Unborn
  <2>1. CASE d # c
    BY <2>1, OthersRest
  <2>2. CASE d = c
    BY <2>2 DEF Start, Run, Connect, Receive, GroupTemplate, GroupTip, TakePrefix, NoPrefix,
       CreateRefused, CreateRaises, Broken, Create, Register, AddToGroup, Working, CustomWork,
       LoadTemplate, LookUpJob, ActivateJob, Raise, ReadPrevHash, ReadTime, Tell, Announce, Finish,
       Goto, bootstrap, Unborn, Inv, TypeOK
  <2> QED
    BY <2>1, <2>2
<1>2. CASE Publishes(c)
  <2>1. PICK j, p \in Templates, n \in NoteIn : announced' = announced \cup {Announcement(c, j, n, p)}
    BY <1>2 DEF Publishes
  <2>2. d # c
    BY <1>1, <1>2 DEF Publishes, Registered, Kept, Unborn
  <2> QED
    BY <1>1, <2>1, <2>2 DEF Announcement, SerialInv, UnbornSilent
<1>3. CASE ~Publishes(c)
  BY <1>1, <1>3, Shapes DEF Enters, Takes, Numbers, Continues, Drops, SerialInv, UnbornSilent
<1> QED
  BY <1>2, <1>3

\* The cache changes only while no bootstrap runs.
LEMMA ProviderSerial ==
  ASSUME SingleThreaded, Inv, SerialInv, Provider
  PROVE  SerialInv'
<1>1. /\ \A c \in Connections : step[c] \in Waiting
      /\ UNCHANGED <<chan, step, request, prefix, id, job, note, announced>>
  BY DEF Provider, NewTemplate, SetNewPrevHash, MayStart, connection, bootstrap, history
<1>2. \A c \in Connections :
        step'[c] \notin Kept
  BY <1>1 DEF Waiting, Kept
<1> QED
  BY <1>1, <1>2
  DEF SerialInv, OneBootstrap, ChannelFollows, UnbornSilent, ToldIsActive, Kept

LEMMA StepChannelFollows ==
  ASSUME SingleThreaded, Inv, SerialInv, NEW c \in Connections, Start(c) \/ Run(c)
  PROVE  ChannelFollows'
<1> USE DEF Inv, TypeOK, connection, bootstrap, Goto
<1>1. \A d \in Connections : d # c => step'[d] \in Waiting
  BY StepOneBootstrap, OthersRest DEF SerialInv, OneBootstrap, Start, Run, Connect, Receive,
     MayStart, GroupTemplate, GroupTip, TakePrefix, NoPrefix, CreateRefused, CreateRaises, Create,
     Register, AddToGroup, CustomWork, LoadTemplate, LookUpJob, ActivateJob, Raise, Fails,
     ReadPrevHash, ReadTime, Tell, Waiting
<1> DEFINE Follows(ch) ==
      /\ step'[c] \in Kept => ch.kind = request'[c].kind /\ ch.prefix = prefix'[c]
      /\ step'[c] \in {"list", "custom", "template"} => ch.future = 0 /\ ch.active = 0
      /\ step'[c] = "job" => ch.future = cache'.template
      /\ step'[c] = "tip" => ch.future = cache'.template /\ job'[c] = cache'.template
      /\ step'[c] \in {"prev_hash", "ntime", "nbits"} =>
           /\ ch.active = job'[c] /\ ch.tip = cache'.prevHash
           /\ job'[c] = cache'.prevHash
      /\ step'[c] \in {"ntime", "nbits"} => note'[c].prev_hash = cache'.prevHash
      /\ step'[c] = "nbits" => note'[c].ntime = cache'.prevHash
<1>2. SUFFICES Follows(chan'[c][id'[c]])
  <2>1. ASSUME NEW d \in Connections, d # c
        PROVE  step'[d] \notin Kept
    BY <1>1, <2>1 DEF Waiting, Kept
  <2> QED
    BY <2>1 DEF ChannelFollows, Kept
<1>3. id[c] \in Ids /\ chan[c][id[c]] \in ChannelIn
  OBVIOUS
<1>4. CASE step'[c] \notin Kept
  BY <1>4 DEF Kept
<1>5. CASE Register(c) \/ AddToGroup(c)
  <2>1. CASE Register(c)
    <3>1. chan'[c][id'[c]] = NewChannel(request[c].kind, prefix[c])
      BY <1>3, <2>1 DEF Register
    <3>2. step'[c] \in {"list", "custom", "template"} /\ request' = request /\ prefix' = prefix
      BY <2>1 DEF Register, Working
    <3> QED
      BY <3>1, <3>2 DEF NewChannel
  <2>2. CASE AddToGroup(c)
    <3>1. /\ chan' = chan /\ id' = id /\ request' = request /\ prefix' = prefix
          /\ step[c] = "list" /\ step'[c] \in {"custom", "template"}
      BY <2>2 DEF AddToGroup, Working
    <3> QED
      BY <3>1 DEF SerialInv, ChannelFollows, Kept
  <2> QED
    BY <1>5, <2>1, <2>2
<1>6. CASE LoadTemplate(c)
  <2>1. /\ chan'[c][id'[c]] = OnNewTemplate(chan[c][id[c]], cache.template)
        /\ step[c] = "template" /\ step'[c] = "job" /\ cache' = cache
        /\ request' = request /\ prefix' = prefix
    BY <1>3, <1>6 DEF LoadTemplate
  <2>2. chan[c][id[c]].kind = request[c].kind /\ chan[c][id[c]].prefix = prefix[c]
    BY <2>1 DEF SerialInv, ChannelFollows, Kept
  <2> QED
    BY <1>3, <2>1, <2>2 DEF OnNewTemplate, ChannelIn
<1>7. CASE LookUpJob(c)
  BY <1>3, <1>7 DEF LookUpJob, SerialInv, ChannelFollows, Kept
<1>8. CASE ActivateJob(c)
  <2>1. /\ chan'[c][id'[c]] = OnSetNewPrevHash(chan[c][id[c]], cache.prevHash)
        /\ step[c] = "tip" /\ step'[c] = "prev_hash" /\ cache' = cache
        /\ request' = request /\ prefix' = prefix /\ job' = job
        /\ chan[c][id[c]].future \in {0, cache.prevHash}
    BY <1>3, <1>8 DEF ActivateJob, Accepts
  <2>2. /\ chan[c][id[c]].kind = request[c].kind /\ chan[c][id[c]].prefix = prefix[c]
        /\ chan[c][id[c]].future = cache.template /\ job[c] = cache.template
    BY <2>1 DEF SerialInv, ChannelFollows, Kept
  <2>3. cache.template # 0
    BY CacheType
  <2>4. job[c] = cache.prevHash /\ chan[c][id[c]].future = job[c]
    BY <2>1, <2>2, <2>3
  <2> QED
    BY <1>3, <2>1, <2>2, <2>4 DEF OnSetNewPrevHash, ChannelIn
<1>9. CASE ReadPrevHash(c) \/ ReadTime(c)
  <2>1. /\ chan' = chan /\ id' = id /\ request' = request /\ prefix' = prefix
        /\ job' = job /\ cache' = cache
        /\ step[c] \in {"prev_hash", "ntime"} /\ step'[c] \in {"ntime", "nbits"}
        /\ step[c] = "prev_hash" <=> step'[c] = "ntime"
    BY <1>9 DEF ReadPrevHash, ReadTime
  <2>2. note[c] \in NoteIn
    OBVIOUS
  <2>3. /\ note'[c].prev_hash = IF step[c] = "prev_hash" THEN cache.prevHash ELSE note[c].prev_hash
        /\ step[c] = "ntime" => note'[c].ntime = cache.prevHash
    BY <1>9, <2>2 DEF ReadPrevHash, ReadTime, NoteIn
  <2>4. /\ chan[c][id[c]].kind = request[c].kind /\ chan[c][id[c]].prefix = prefix[c]
        /\ chan[c][id[c]].active = job[c] /\ chan[c][id[c]].tip = cache.prevHash
        /\ job[c] = cache.prevHash
        /\ step[c] = "ntime" => note[c].prev_hash = cache.prevHash
    BY <2>1 DEF SerialInv, ChannelFollows, Kept
  <2> QED
    BY <2>1, <2>3, <2>4
<1>10. step'[c] \in Kept =>
         \/ Register(c) \/ AddToGroup(c) \/ LoadTemplate(c) \/ LookUpJob(c) \/ ActivateJob(c)
         \/ ReadPrevHash(c) \/ ReadTime(c)
  BY DEF Start, Run, Connect, Receive, GroupTemplate, GroupTip, TakePrefix, NoPrefix,
     CreateRefused, CreateRaises, Broken, Create, CustomWork, Raise, Tell, Announce, Finish, Kept
<1> QED
  BY <1>4, <1>5, <1>6, <1>7, <1>8, <1>9, <1>10

LEMMA StepToldIsActive ==
  ASSUME SingleThreaded, Inv, SerialInv, NEW c \in Connections, Start(c) \/ Run(c)
  PROVE  ToldIsActive'
<1> DEFINE Told(a, ch) ==
      /\ ch.kind = a.kind /\ ch.prefix = a.prefix /\ ch.active = a.job
      /\ a.job # 0 => {a.prev_hash, a.ntime, a.nbits} = {a.job} /\ ch.tip = a.job
<1>1. \A a \in announced : Told(a, chan'[a.conn][a.id])
  BY ChanKept DEF SerialInv, ToldIsActive
<1>2. id[c] \in Ids /\ chan[c][id[c]] \in ChannelIn
  BY DEF Inv, TypeOK
<1>3. CASE CustomWork(c)
  <2> DEFINE told == Announcement(c, 0, NoNote, 0)
  <2>1. /\ announced' = announced \cup {told}
        /\ chan'[c][id[c]] = OnSetNewPrevHash(chan[c][id[c]], cache.prevHash)
    BY <1>2, <1>3 DEF CustomWork, Announce, Inv, TypeOK
  <2>2. /\ chan[c][id[c]].kind = request[c].kind /\ chan[c][id[c]].prefix = prefix[c]
        /\ chan[c][id[c]].future = 0
    BY <1>3 DEF CustomWork, SerialInv, ChannelFollows, Kept
  <2>3. Told(told, chan'[c][id[c]])
    BY <1>2, <2>1, <2>2 DEF Announcement, OnSetNewPrevHash, ChannelIn
  <2>4. told.conn = c /\ told.id = id[c]
    BY DEF Announcement
  <2> QED
    BY <1>1, <2>1, <2>3, <2>4 DEF ToldIsActive
<1>4. CASE Tell(c)
  <2> DEFINE told == Announcement(c, job[c], note[c], cache.prevHash)
  <2>1. announced' = announced \cup {told} /\ chan' = chan
    BY <1>4 DEF Tell, Announce, connection
  <2>2. /\ chan[c][id[c]].kind = request[c].kind /\ chan[c][id[c]].prefix = prefix[c]
        /\ chan[c][id[c]].active = job[c] /\ chan[c][id[c]].tip = cache.prevHash
        /\ job[c] = cache.prevHash
        /\ note[c].prev_hash = cache.prevHash /\ note[c].ntime = cache.prevHash
    BY <1>4 DEF Tell, SerialInv, ChannelFollows, Kept
  <2>3. Told(told, chan'[c][id[c]])
    BY <2>1, <2>2 DEF Announcement
  <2>4. told.conn = c /\ told.id = id[c]
    BY DEF Announcement
  <2> QED
    BY <1>1, <2>1, <2>3, <2>4 DEF ToldIsActive
<1>5. CASE ~CustomWork(c) /\ ~Tell(c)
  <2>1. announced' = announced
    BY <1>5 DEF Start, Run, Connect, Receive, GroupTemplate, GroupTip, TakePrefix, NoPrefix,
       CreateRefused, CreateRaises, Create, Register, AddToGroup, LoadTemplate, LookUpJob, ActivateJob,
       Raise, ReadPrevHash, ReadTime, history
  <2> QED
    BY <1>1, <2>1 DEF ToldIsActive
<1> QED
  BY <1>3, <1>4, <1>5

\* In a single-threaded server the job and the prev-hash a client is told of are
\* those its channel has active, and they belong together, however often the
\* provider changes its mind and whatever opens fail in between.
THEOREM SerialTellsWhatIsActive == SingleThreaded => (Spec => []ToldIsActive)
<1> SUFFICES ASSUME SingleThreaded PROVE Spec => []ToldIsActive
  OBVIOUS
<1>1. Inv /\ SerialInv /\ [Next]_vars => SerialInv'
  <2> SUFFICES ASSUME Inv, SerialInv, [Next]_vars PROVE SerialInv'
    OBVIOUS
  <2>1. CASE \E c \in Connections : Start(c) \/ Run(c)
    BY <2>1, StepOneBootstrap, StepChannelFollows, StepUnbornSilent, StepToldIsActive DEF SerialInv
  <2>2. CASE Provider
    BY <2>2, ProviderSerial
  <2>3. CASE UNCHANGED vars
    BY <2>3 DEF vars, connection, bootstrap, history, SerialInv, OneBootstrap, ChannelFollows,
       UnbornSilent, ToldIsActive
  <2> QED
    BY <2>1, <2>2, <2>3 DEF Next, Done
<1>2. SerialInv => ToldIsActive
  BY DEF SerialInv
<1> QED
  BY <1>1, <1>2, SerialInit, InvHolds, PTL DEF Spec
=============================================================================

-------------------------- MODULE MessageConversion --------------------------
(***************************************************************************)
(* The two conversions every message of the library passes through,        *)
(* messages/mod.rs: sv2_message_to_inner, called by the encoder and by the *)
(* channels, and inner_to_sv2_message, called by the decoder and by the    *)
(* getters.  A message travels from host to host: each decodes it and      *)
(* sends on what it decoded.  It starts in a program of this library, or   *)
(* comes off the wire from any other implementation.                       *)
(*                                                                         *)
(* Fields of fixed width move over unchanged and are left out.  The others *)
(* are told apart by kind: a text, a byte string, a list of byte strings,  *)
(* a list of ids, and the protocol of a SetupConnection.                   *)
(***************************************************************************)
EXTENDS Naturals, Sequences

CONSTANT MaxHops   \* how often a message is decoded

ASSUME HopsAssumption == MaxHops \in Nat \ {0}

VARIABLES
  place,    \* "host", "wire", or how the journey ended: "refused", "garbled"
  kind,     \* the variant of Sv2Message
  fields,   \* its fields, named and valued as they are at this place
  foreign,  \* it came off the wire from another implementation
  hops,     \* how often it has been decoded
  first,    \* history: the fields as the first host had them, or <<>>
  error     \* what the last conversion answered: "none" or an Sv2MessageError

vars == <<place, kind, fields, foreign, hops, first, error>>

-----------------------------------------------------------------------------
(* The records of the API: which fields are not of fixed width.            *)

Texts(S)    == [f \in S |-> "text"]
ByteVecs(S) == [f \in S |-> "bytes"]
Lists(S)    == [f \in S |-> "list"]
Ids(S)      == [f \in S |-> "ids"]
Fixed       == [f \in {} |-> ""]

\* Two tables as one.
Both(f, g) == [x \in DOMAIN f \cup DOMAIN g |-> IF x \in DOMAIN f THEN f[x] ELSE g[x]]

CommonRecords == [
  SetupConnection        |-> Both([protocol |-> "protocol"],
    Texts({"endpoint_host", "vendor", "hardware_version", "firmware", "device_id"})),
  SetupConnectionSuccess |-> Fixed,
  SetupConnectionError   |-> Texts({"error_code"}),
  ChannelEndpointChanged |-> Fixed,
  Reconnect              |-> Texts({"new_host"})]

MiningRecords == [
  OpenStandardMiningChannel        |-> Both(Texts({"user_identity"}), ByteVecs({"max_target"})),
  OpenStandardMiningChannelSuccess |-> ByteVecs({"target", "extranonce_prefix"}),
  OpenExtendedMiningChannel        |-> Both(Texts({"user_identity"}), ByteVecs({"max_target"})),
  OpenExtendedMiningChannelSuccess |-> ByteVecs({"target", "extranonce_prefix"}),
  OpenMiningChannelError           |-> Texts({"error_code"}),
  UpdateChannel                    |-> ByteVecs({"maximum_target"}),
  UpdateChannelError               |-> Texts({"error_code"}),
  CloseChannel                     |-> Texts({"reason_code"}),
  SetExtranoncePrefix              |-> ByteVecs({"extranonce_prefix"}),
  SubmitSharesStandard             |-> Fixed,
  SubmitSharesExtended             |-> ByteVecs({"extranonce"}),
  SubmitSharesSuccess              |-> Fixed,
  SubmitSharesError                |-> Texts({"error_code"}),
  NewMiningJob                     |-> ByteVecs({"merkle_root"}),
  NewExtendedMiningJob             |-> Both(Lists({"merkle_path"}),
    ByteVecs({"coinbase_tx_prefix", "coinbase_tx_suffix"})),
  SetNewPrevHashMining             |-> ByteVecs({"prev_hash"}),
  SetCustomMiningJob               |-> Both(Lists({"merkle_path"}),
    ByteVecs({"mining_job_token", "prev_hash", "coinbase_prefix", "coinbase_tx_outputs"})),
  SetCustomMiningJobSuccess        |-> Fixed,
  SetCustomMiningJobError          |-> Texts({"error_code"}),
  SetTarget                        |-> ByteVecs({"maximum_target"}),
  SetGroupChannel                  |-> Ids({"channel_ids"})]

DeclarationRecords == [
  AllocateMiningJobToken            |-> Texts({"user_identifier"}),
  AllocateMiningJobTokenSuccess     |-> ByteVecs({"mining_job_token", "coinbase_tx_outputs"}),
  DeclareMiningJob                  |-> Both(Lists({"tx_ids_list"}),
    ByteVecs({"mining_job_token", "coinbase_tx_prefix", "coinbase_tx_suffix", "excess_data"})),
  DeclareMiningJobSuccess           |-> ByteVecs({"new_mining_job_token"}),
  DeclareMiningJobError             |-> Both(Texts({"error_code"}), ByteVecs({"error_details"})),
  ProvideMissingTransactions        |-> Ids({"unknown_tx_position_list"}),
  ProvideMissingTransactionsSuccess |-> Lists({"transaction_list"}),
  PushSolution                      |-> ByteVecs({"extranonce", "prev_hash"})]

TemplateRecords == [
  CoinbaseOutputConstraints          |-> Fixed,
  NewTemplate                        |-> Both(Lists({"merkle_path"}), ByteVecs({"coinbase_prefix", "coinbase_tx_outputs"})),
  SetNewPrevHashTemplateDistribution |-> ByteVecs({"prev_hash", "target"}),
  RequestTransactionData             |-> Fixed,
  RequestTransactionDataSuccess      |-> Both(Lists({"transaction_list"}), ByteVecs({"excess_data"})),
  RequestTransactionDataError        |-> Texts({"error_code"}),
  SubmitSolution                     |-> ByteVecs({"coinbase_tx"})]

Records == Both(Both(CommonRecords, MiningRecords), Both(DeclarationRecords, TemplateRecords))
Kinds   == DOMAIN Records

-----------------------------------------------------------------------------
(* sv2_message_to_inner: the fields it converts, in the order in which the *)
(* code converts them, each with its name in the protocol library.         *)

Same(names) == [i \in 1 .. Len(names) |-> <<names[i], names[i]>>]

CommonToInner == [
  SetupConnection        |-> Same(<<"protocol", "endpoint_host", "vendor", "hardware_version", "firmware", "device_id">>),
  SetupConnectionSuccess |-> <<>>,
  SetupConnectionError   |-> Same(<<"error_code">>),
  ChannelEndpointChanged |-> <<>>,
  Reconnect              |-> Same(<<"new_host">>)]

ChannelToInner == [
  OpenStandardMiningChannel        |-> Same(<<"max_target", "user_identity">>),
  OpenStandardMiningChannelSuccess |-> Same(<<"target", "extranonce_prefix">>),
  OpenExtendedMiningChannel        |-> Same(<<"max_target", "user_identity">>),
  OpenExtendedMiningChannelSuccess |-> Same(<<"target", "extranonce_prefix">>),
  OpenMiningChannelError           |-> Same(<<"error_code">>),
  UpdateChannel                    |-> Same(<<"maximum_target">>),
  UpdateChannelError               |-> Same(<<"error_code">>),
  CloseChannel                     |-> Same(<<"reason_code">>),
  SetExtranoncePrefix              |-> Same(<<"extranonce_prefix">>)]

WorkToInner == [
  SubmitSharesStandard |-> <<>>,
  SubmitSharesExtended |-> Same(<<"extranonce">>),
  SubmitSharesSuccess  |-> <<>>,
  SubmitSharesError    |-> Same(<<"error_code">>),
  NewMiningJob         |-> Same(<<"merkle_root">>),
  NewExtendedMiningJob |-> Same(<<"merkle_path", "coinbase_tx_prefix", "coinbase_tx_suffix">>),
  SetNewPrevHashMining |-> Same(<<"prev_hash">>)]

CustomToInner == [
  SetCustomMiningJob        |-> <<<<"merkle_path", "merkle_path">>, <<"mining_job_token", "token">>>> \o
                                Same(<<"prev_hash", "coinbase_prefix", "coinbase_tx_outputs">>),
  SetCustomMiningJobSuccess |-> <<>>,
  SetCustomMiningJobError   |-> Same(<<"error_code">>),
  SetTarget                 |-> Same(<<"maximum_target">>),
  SetGroupChannel           |-> Same(<<"channel_ids">>)]

TemplateToInner == [
  CoinbaseOutputConstraints          |-> <<>>,
  NewTemplate                        |-> Same(<<"merkle_path", "coinbase_prefix", "coinbase_tx_outputs">>),
  SetNewPrevHashTemplateDistribution |-> Same(<<"prev_hash", "target">>),
  RequestTransactionData             |-> <<>>,
  RequestTransactionDataSuccess      |-> Same(<<"transaction_list", "excess_data">>),
  RequestTransactionDataError        |-> Same(<<"error_code">>),
  SubmitSolution                     |-> Same(<<"coinbase_tx">>)]

TokenToInner == [
  AllocateMiningJobToken        |-> Same(<<"user_identifier">>),
  AllocateMiningJobTokenSuccess |-> <<<<"mining_job_token", "mining_job_token">>, <<"coinbase_tx_outputs", "coinbase_outputs">>>>,
  DeclareMiningJob              |-> Same(<<"tx_ids_list", "mining_job_token", "coinbase_tx_prefix", "coinbase_tx_suffix", "excess_data">>),
  DeclareMiningJobSuccess       |-> Same(<<"new_mining_job_token">>)]

DeclarationToInner == [
  DeclareMiningJobError             |-> Same(<<"error_code", "error_details">>),
  ProvideMissingTransactions        |-> Same(<<"unknown_tx_position_list">>),
  ProvideMissingTransactionsSuccess |-> Same(<<"transaction_list">>),
  PushSolution                      |-> Same(<<"extranonce", "prev_hash">>)]

ToInner ==
  Both(Both(CommonToInner, Both(Both(ChannelToInner, WorkToInner), CustomToInner)),
       Both(Both(TokenToInner, DeclarationToInner), TemplateToInner))

\* Mutant: two texts of the record change places on the way in.
CommonFromInnerSwapped == [
  SetupConnection        |-> Same(<<"protocol", "endpoint_host", "vendor", "device_id">>) \o
                             <<<<"hardware_version", "firmware">>, <<"firmware", "hardware_version">>>>,
  SetupConnectionSuccess |-> <<>>,
  SetupConnectionError   |-> Same(<<"error_code">>),
  ChannelEndpointChanged |-> <<>>,
  Reconnect              |-> Same(<<"new_host">>)]

(* inner_to_sv2_message: the fields of the record it builds, each with the *)
(* field of the library's message it is taken from.                        *)

CommonFromInner == [
  SetupConnection        |-> Same(<<"protocol", "endpoint_host", "vendor", "hardware_version", "firmware", "device_id">>),
  SetupConnectionSuccess |-> <<>>,
  SetupConnectionError   |-> Same(<<"error_code">>),
  ChannelEndpointChanged |-> <<>>,
  Reconnect              |-> Same(<<"new_host">>)]

ChannelFromInner == [
  OpenStandardMiningChannel        |-> Same(<<"user_identity", "max_target">>),
  OpenStandardMiningChannelSuccess |-> Same(<<"target", "extranonce_prefix">>),
  OpenExtendedMiningChannel        |-> Same(<<"user_identity", "max_target">>),
  OpenExtendedMiningChannelSuccess |-> Same(<<"target", "extranonce_prefix">>),
  OpenMiningChannelError           |-> Same(<<"error_code">>),
  UpdateChannel                    |-> Same(<<"maximum_target">>),
  UpdateChannelError               |-> Same(<<"error_code">>),
  CloseChannel                     |-> Same(<<"reason_code">>),
  SetExtranoncePrefix              |-> Same(<<"extranonce_prefix">>)]

WorkFromInner == [
  SubmitSharesStandard |-> <<>>,
  SubmitSharesExtended |-> Same(<<"extranonce">>),
  SubmitSharesSuccess  |-> <<>>,
  SubmitSharesError    |-> Same(<<"error_code">>),
  NewMiningJob         |-> Same(<<"merkle_root">>),
  NewExtendedMiningJob |-> Same(<<"merkle_path", "coinbase_tx_prefix", "coinbase_tx_suffix">>),
  SetNewPrevHashMining |-> Same(<<"prev_hash">>)]

CustomFromInner == [
  SetCustomMiningJob        |-> <<<<"mining_job_token", "token">>>> \o
                                Same(<<"prev_hash", "coinbase_prefix", "coinbase_tx_outputs", "merkle_path">>),
  SetCustomMiningJobSuccess |-> <<>>,
  SetCustomMiningJobError   |-> Same(<<"error_code">>),
  SetTarget                 |-> Same(<<"maximum_target">>),
  SetGroupChannel           |-> Same(<<"channel_ids">>)]

TemplateFromInner == [
  CoinbaseOutputConstraints          |-> <<>>,
  NewTemplate                        |-> Same(<<"coinbase_prefix", "coinbase_tx_outputs", "merkle_path">>),
  SetNewPrevHashTemplateDistribution |-> Same(<<"prev_hash", "target">>),
  RequestTransactionData             |-> <<>>,
  RequestTransactionDataSuccess      |-> Same(<<"excess_data", "transaction_list">>),
  RequestTransactionDataError        |-> Same(<<"error_code">>),
  SubmitSolution                     |-> Same(<<"coinbase_tx">>)]

DeclarationFromInner == [
  AllocateMiningJobToken            |-> Same(<<"user_identifier">>),
  AllocateMiningJobTokenSuccess     |-> <<<<"mining_job_token", "mining_job_token">>, <<"coinbase_tx_outputs", "coinbase_outputs">>>>,
  DeclareMiningJob                  |-> Same(<<"mining_job_token", "coinbase_tx_prefix", "coinbase_tx_suffix", "tx_ids_list", "excess_data">>),
  DeclareMiningJobSuccess           |-> Same(<<"new_mining_job_token">>),
  DeclareMiningJobError             |-> Same(<<"error_code", "error_details">>),
  ProvideMissingTransactions        |-> Same(<<"unknown_tx_position_list">>),
  ProvideMissingTransactionsSuccess |-> Same(<<"transaction_list">>),
  PushSolution                      |-> Same(<<"extranonce", "prev_hash">>)]

FromInner ==
  Both(Both(CommonFromInner, Both(Both(ChannelFromInner, WorkFromInner), CustomFromInner)),
       Both(DeclarationFromInner, TemplateFromInner))

-----------------------------------------------------------------------------
(* Values.  "plain" and "replaced" are texts of up to 255 bytes, the latter *)
(* with a replacement character in it; on the wire a text may also be       *)
(* broken UTF-8, and its repair may outgrow 255 bytes.  Byte strings and    *)
(* ids come in two contents, to be told apart.                              *)

HostValues ==
  [protocol |-> {"known", "unknown"},
   text     |-> {"plain", "replaced", "overlong"},
   bytes    |-> {"some", "other", "wrong_length"},
   list     |-> {"some", "other", "wrong_element", "too_many"},
   ids      |-> {"some", "other", "too_many"}]

WireValues ==
  [protocol |-> {"known"},
   text     |-> {"plain", "replaced", "broken", "broken_and_grows"},
   bytes    |-> {"some", "other"},
   list     |-> {"some", "other"},
   ids      |-> {"some", "other"}]

\* The records of a kind whose fields take values of vals.
RecordsOf(m, vals) ==
  {r \in [DOMAIN Records[m] -> UNION {vals[k] : k \in DOMAIN vals}] :
     \A f \in DOMAIN r : r[f] \in vals[Records[m][f]]}

\* The same fields under the names of the library.
InnerOf(m, r) ==
  [g \in {ToInner[m][i][2] : i \in DOMAIN ToInner[m]} |->
     r[ToInner[m][CHOOSE i \in DOMAIN ToInner[m] : ToInner[m][i][2] = g][1]]]

\* Mutant: the elements of a list are taken as they come.
ConvertsUnchecked(k, v) == v \notin {"unknown", "overlong", "wrong_length"}

\* Mutant: a text with a replacement character in it is refused.
ConvertsAscii(k, v) == v \notin {"unknown", "overlong", "wrong_length", "wrong_element", "replaced"}

\* try_into of a field.  The length of a list is not looked at.
Converts(k, v) == v \notin {"unknown", "overlong", "wrong_length", "wrong_element"}

\* What each kind of field answers when it does not convert.
ErrorOf(k) ==
  CASE k = "protocol"         -> "FailedToConvertProtocol"
    [] k = "text"             -> "FailedToSerializeString"
    [] k \in {"bytes", "list"} -> "FailedToSerializeByteArray"

\* Mutant: a text is handed over as it came.
FromTextUnrepaired(v) == v

\* from_utf8_lossy of a text on the wire.
FromText(v) ==
  CASE v = "broken"           -> "replaced"
    [] v = "broken_and_grows" -> "overlong"
    [] OTHER                  -> v

-----------------------------------------------------------------------------
Init ==
  /\ kind \in Kinds
  /\ foreign \in BOOLEAN
  /\ IF foreign
       THEN /\ place = "wire" /\ first = <<>>
            /\ \E r \in RecordsOf(kind, WireValues) : fields = InnerOf(kind, r)
       ELSE /\ place = "host"
            /\ fields \in RecordsOf(kind, HostValues)
            /\ first = fields
  /\ hops = 0
  /\ error = "none"

\* The first field, in the order of the code, that does not convert.
FirstUnfit ==
  LET unfit == {i \in DOMAIN ToInner[kind] :
                  LET f == ToInner[kind][i][1] IN ~Converts(Records[kind][f], fields[f])}
  IN  {i \in unfit : \A j \in unfit : i <= j}

\* Some list of a record or a message is longer than the protocol allows.
TooMany(r) == \E f \in DOMAIN r : r[f] = "too_many"

\* The conversion answers an error; nothing is sent.
Refuse ==
  /\ place = "host" /\ hops < MaxHops
  /\ \E i \in FirstUnfit : error' = ErrorOf(Records[kind][ToInner[kind][i][1]])
  /\ place' = "refused"
  /\ UNCHANGED <<kind, fields, foreign, hops, first>>

\* The message is converted, framed and sent.
Send ==
  /\ place = "host" /\ hops < MaxHops
  /\ FirstUnfit = {}
  /\ place' = "wire"
  /\ fields' = InnerOf(kind, fields)
  /\ UNCHANGED <<kind, foreign, hops, first, error>>

\* What a field of kind k that reads v on the wire is in the record.
Read(k, v) == IF k = "text" THEN FromText(v) ELSE v

\* The frame is parsed and the record built.
Receive ==
  /\ place = "wire" /\ ~TooMany(fields)
  /\ LET source(f) == FromInner[kind][CHOOSE i \in DOMAIN FromInner[kind] : FromInner[kind][i][1] = f][2]
         record == [f \in {FromInner[kind][i][1] : i \in DOMAIN FromInner[kind]} |->
                      Read(Records[kind][f], fields[source(f)])]
     IN  /\ fields' = record
         /\ first' = IF foreign /\ hops = 0 THEN record ELSE first
  /\ hops' = hops + 1
  /\ place' = "host"
  /\ UNCHANGED <<kind, foreign, error>>

\* What becomes of a list that is too long is up to the library's framing: the
\* message is refused there, or no longer parses,
Garble ==
  /\ place = "wire" /\ TooMany(fields)
  /\ place' = "garbled"
  /\ UNCHANGED <<kind, fields, foreign, hops, first, error>>

\* or parses as another message of its kind.
Misread ==
  /\ place = "wire" /\ TooMany(fields)
  /\ \E r \in RecordsOf(kind, WireValues) :
       fields' = [f \in DOMAIN Records[kind] |-> Read(Records[kind][f], r[f])]
  /\ hops' = hops + 1
  /\ place' = "host"
  /\ UNCHANGED <<kind, foreign, first, error>>

Ended == place \in {"refused", "garbled"} \/ (place = "host" /\ hops = MaxHops)

Next == Refuse \/ Send \/ Receive \/ Garble \/ Misread \/ (Ended /\ UNCHANGED vars)

Spec == Init /\ [][Next]_vars

-----------------------------------------------------------------------------
(* Properties.                                                             *)

\* A host holds a record of the message's own type, on the wire every field
\* of the record has its place.
TypeOK ==
  /\ place \in {"host", "wire", "refused", "garbled"}
  /\ kind \in Kinds /\ foreign \in BOOLEAN /\ hops \in 0 .. MaxHops
  /\ error \in {"none", "FailedToConvertProtocol", "FailedToSerializeString", "FailedToSerializeByteArray"}
  /\ place = "host" => fields \in RecordsOf(kind, HostValues)
  /\ place = "wire" => DOMAIN fields = {ToInner[kind][i][2] : i \in DOMAIN ToInner[kind]}

\* However often a message is decoded and sent on, every host sees it as the
\* first one did: both conversions agree on the names of every field, and the
\* repair of a broken text happens once.  Only a message that was composed with
\* too long a list may be taken for another one.
EveryHostSeesTheSame == place = "host" => fields = first \/ TooMany(first)

\* Only a host that composes a message can be refused for anything but a text:
\* what was decoded can be sent on, unless the repair of a text made it grow.
DecodedCanBeSent ==
  (place = "refused" /\ (foreign \/ hops > 0)) =>
    error = "FailedToSerializeString" /\ \E f \in DOMAIN fields : fields[f] = "overlong"

\* Of all that may not fit its type in the protocol, the conversion lets only
\* the length of a list through, and it refuses nothing that fits.
Fits(f, v) == v \in WireValues[Records[kind][f]]

OnlyLengthsSlipThrough ==
  /\ place = "wire" /\ first # <<>> =>
       \A f \in DOMAIN first : Fits(f, first[f]) \/ first[f] = "too_many"
  /\ place = "refused" => \E f \in DOMAIN first : ~Fits(f, first[f])

=============================================================================

----------------------- MODULE MessageConversionProofs -----------------------
(***************************************************************************)
(* Proofs about MessageConversion: that every message of the library keeps *)
(* its meaning over any number of hosts.  First, what the two conversions  *)
(* must agree on for a message; then, from this alone, the invariants of   *)
(* its journey; then, message by message, that their tables do agree.      *)
(***************************************************************************)
EXTENDS MessageConversion, Integers, SequenceTheorems, WellFoundedInduction, TLAPS

-----------------------------------------------------------------------------
(* What the tables of a message must agree on.                             *)

FieldKinds == {"protocol", "text", "bytes", "list", "ids"}

\* r names the fields of a record, t those converted on the way in and u those
\* on the way out: every field goes in under a name of its own, and comes back
\* from under the same name.
Matched(r, t, u) ==
  /\ \A f \in DOMAIN r : r[f] \in FieldKinds
  /\ DOMAIN t \subseteq Nat
  /\ \A i \in DOMAIN t : t[i][1] \in DOMAIN r
  /\ \A f \in DOMAIN r : \E i \in DOMAIN t : t[i][1] = f
  /\ \A i, j \in DOMAIN t : t[i][1] = t[j][1] \/ t[i][2] = t[j][2] => i = j
  /\ \A i \in DOMAIN u : u[i][1] \in DOMAIN r /\ \E j \in DOMAIN t : u[i] = t[j]
  /\ \A f \in DOMAIN r : \E i \in DOMAIN u : u[i][1] = f

MatchedKind(m) == Matched(Records[m], ToInner[m], FromInner[m])

\* What a field of the library's message is called by the API, and back.
LEMMA InnerNames ==
  ASSUME NEW m, MatchedKind(m), NEW r, NEW i \in DOMAIN ToInner[m]
  PROVE  /\ ToInner[m][i][2] \in DOMAIN InnerOf(m, r)
         /\ InnerOf(m, r)[ToInner[m][i][2]] = r[ToInner[m][i][1]]
<1> DEFINE t == ToInner[m]
           g == t[i][2]
           c == CHOOSE k \in DOMAIN t : t[k][2] = g
<1>1. c \in DOMAIN t /\ t[c][2] = g
  OBVIOUS
<1>2. c = i
  BY <1>1 DEF MatchedKind, Matched
<1>3. g \in {t[k][2] : k \in DOMAIN t}
  OBVIOUS
<1>4. DOMAIN InnerOf(m, r) = {t[k][2] : k \in DOMAIN t}
  BY DEF InnerOf
<1>5. InnerOf(m, r)[g] = r[t[c][1]]
  BY <1>3 DEF InnerOf
<1> HIDE DEF c, t
<1> QED BY <1>2, <1>3, <1>4, <1>5 DEF t

\* The record that Receive builds of a message x of the library.
SourceOf(m, f) == FromInner[m][CHOOSE i \in DOMAIN FromInner[m] : FromInner[m][i][1] = f][2]
RecordOf(m, x) ==
  [f \in {FromInner[m][i][1] : i \in DOMAIN FromInner[m]} |->
     Read(Records[m][f], x[SourceOf(m, f)])]

\* What comes out is what went in, but for the repair of texts.
LEMMA RoundTrip ==
  ASSUME NEW m, MatchedKind(m), NEW r
  PROVE  RecordOf(m, InnerOf(m, r)) =
           [f \in DOMAIN Records[m] |-> Read(Records[m][f], r[f])]
<1> DEFINE u == FromInner[m]
           t == ToInner[m]
<1>1. {u[i][1] : i \in DOMAIN u} = DOMAIN Records[m]
  BY DEF MatchedKind, Matched
<1>2. ASSUME NEW f \in DOMAIN Records[m]
      PROVE  InnerOf(m, r)[SourceOf(m, f)] = r[f]
  <2> DEFINE c == CHOOSE i \in DOMAIN u : u[i][1] = f
  <2>1. \E i \in DOMAIN u : u[i][1] = f
    BY DEF MatchedKind, Matched
  <2>2. c \in DOMAIN u /\ u[c][1] = f
    BY <2>1
  <2>3. SourceOf(m, f) = u[c][2]
    BY DEF SourceOf
  <2> HIDE DEF c
  <2>4. PICK j \in DOMAIN t : u[c] = t[j]
    BY <2>2 DEF MatchedKind, Matched
  <2>5. InnerOf(m, r)[t[j][2]] = r[t[j][1]]
    BY InnerNames
  <2> QED BY <2>2, <2>3, <2>4, <2>5
<1> HIDE DEF u
<1> QED BY <1>1, <1>2 DEF RecordOf, u

\* A list that is too long is so on both sides of the conversion.
LEMMA LongOnBothSides ==
  ASSUME NEW m, MatchedKind(m), NEW r, DOMAIN r = DOMAIN Records[m]
  PROVE  TooMany(InnerOf(m, r)) <=> TooMany(r)
<1>1. ASSUME NEW f \in DOMAIN r
      PROVE  \E g \in DOMAIN InnerOf(m, r) : InnerOf(m, r)[g] = r[f]
  <2>1. PICK i \in DOMAIN ToInner[m] : ToInner[m][i][1] = f
    BY DEF MatchedKind, Matched
  <2> QED BY <2>1, InnerNames
<1>2. ASSUME NEW g \in DOMAIN InnerOf(m, r)
      PROVE  \E f \in DOMAIN r : InnerOf(m, r)[g] = r[f]
  <2>1. PICK i \in DOMAIN ToInner[m] : ToInner[m][i][2] = g
    BY DEF InnerOf
  <2>2. ToInner[m][i][1] \in DOMAIN r
    BY DEF MatchedKind, Matched
  <2> QED BY <2>1, <2>2, InnerNames
<1> QED BY <1>1, <1>2 DEF TooMany

-----------------------------------------------------------------------------
(* Records and their values.                                               *)

LEMMA RecordElim ==
  ASSUME NEW m, NEW vals, NEW r \in RecordsOf(m, vals)
  PROVE  /\ r = [f \in DOMAIN Records[m] |-> r[f]] /\ DOMAIN r = DOMAIN Records[m]
         /\ \A f \in DOMAIN Records[m] : r[f] \in vals[Records[m][f]]
  BY DEF RecordsOf

LEMMA RecordIntro ==
  ASSUME NEW m, NEW vals, NEW r, r = [f \in DOMAIN Records[m] |-> r[f]],
         \A f \in DOMAIN Records[m] : Records[m][f] \in DOMAIN vals /\ r[f] \in vals[Records[m][f]]
  PROVE  r \in RecordsOf(m, vals)
<1>1. \A f \in DOMAIN Records[m] : r[f] \in UNION {vals[k] : k \in DOMAIN vals}
  OBVIOUS
<1>2. r \in [DOMAIN Records[m] -> UNION {vals[k] : k \in DOMAIN vals}]
  BY <1>1
<1> QED BY <1>2 DEF RecordsOf

LEMMA ValueSets ==
  /\ DOMAIN HostValues = FieldKinds /\ DOMAIN WireValues = FieldKinds
  /\ \A k \in FieldKinds : \A v \in WireValues[k] :
       v \notin {"broken", "broken_and_grows"} => v \in HostValues[k]
  /\ "overlong" \in HostValues["text"]
  BY DEF HostValues, WireValues, FieldKinds

\* A host's value that converts, and is no list of too many, fits on the wire
\* and is read back as it is.
LEMMA ConvertingFits ==
  ASSUME NEW k \in FieldKinds, NEW v \in HostValues[k], Converts(k, v), v # "too_many"
  PROVE  v \in WireValues[k] /\ FromText(v) = v
  BY DEF FieldKinds, HostValues, WireValues, Converts, FromText

\* One that does not convert does not fit, and its error has a name.
LEMMA UnfitHasError ==
  ASSUME NEW k \in FieldKinds, NEW v \in HostValues[k], ~Converts(k, v)
  PROVE  /\ v \notin WireValues[k]
         /\ ErrorOf(k) \in {"FailedToConvertProtocol", "FailedToSerializeString", "FailedToSerializeByteArray"}
         /\ k = "text" => ErrorOf(k) = "FailedToSerializeString"
  BY DEF FieldKinds, HostValues, WireValues, Converts, ErrorOf

\* What a decoder makes of a value on the wire is a host's value.
LEMMA ReadValue ==
  ASSUME NEW k \in FieldKinds, NEW v \in WireValues[k],
         NEW w, w = Read(k, v)
  PROVE  /\ w \in HostValues[k]
         /\ (k = "text" /\ w = "overlong") \/ w \in WireValues[k]
         /\ v \in HostValues[k] => w = v
  BY DEF FieldKinds, HostValues, WireValues, FromText, Read

\* No list that comes off the wire is too long.
LEMMA WireIsShort ==
  ASSUME NEW k \in FieldKinds
  PROVE  "too_many" \notin WireValues[k]
  BY DEF FieldKinds, WireValues

-----------------------------------------------------------------------------
(* The first field that does not convert.                                  *)

Unfit == {i \in DOMAIN ToInner[kind] :
            ~Converts(Records[kind][ToInner[kind][i][1]], fields[ToInner[kind][i][1]])}

LEMMA FirstUnfitFacts ==
  ASSUME MatchedKind(kind)
  PROVE  /\ FirstUnfit \subseteq Unfit
         /\ FirstUnfit = {} => Unfit = {}
<1>1. FirstUnfit = {i \in Unfit : \A j \in Unfit : i <= j}
  BY DEF FirstUnfit, Unfit
<1>2. Unfit \subseteq Nat
  BY DEF Unfit, MatchedKind, Matched
<1>3. ASSUME Unfit # {}
      PROVE  \E i \in Unfit : \A j \in Unfit : i <= j
  <2> DEFINE R == OpToRel(<, Nat)
  <2>1. \E i \in Unfit : \A j \in Unfit : ~(<<j, i>> \in R)
    BY <1>2, <1>3, NatLessThanWellFounded, WFMin
  <2>2. PICK i \in Unfit : \A j \in Unfit : ~(<<j, i>> \in R)
    BY <2>1
  <2>3. \A j \in Unfit : ~(j < i)
    BY <1>2, <2>2 DEF OpToRel
  <2> QED BY <1>2, <2>3
<1> QED BY <1>1, <1>3

-----------------------------------------------------------------------------
(* The inductive invariant.                                                *)

Errors == {"FailedToConvertProtocol", "FailedToSerializeString", "FailedToSerializeByteArray"}

\* What a decoder has made of a message: every field fits, but for a text that
\* grew when it was repaired.
Decoded(r) ==
  \A f \in DOMAIN Records[kind] :
    \/ Records[kind][f] = "text" /\ r[f] = "overlong"
    \/ r[f] \in WireValues[Records[kind][f]]

\* What the conversion lets through.
Slips(r) == \A f \in DOMAIN r : Fits(f, r[f]) \/ r[f] = "too_many"

\* The record a message on the wire carries: it fits, and is the first host's
\* or one of another implementation; or the first host's has too long a list.
Carried(r) ==
  \/ /\ r \in RecordsOf(kind, WireValues)
     /\ \/ foreign /\ hops = 0 /\ first = <<>>
        \/ r \in RecordsOf(kind, HostValues) /\ (first = r \/ TooMany(first))
  \/ r \in RecordsOf(kind, HostValues) /\ first = r /\ TooMany(r)

\* A host's record is the first host's, unless that had too long a list.
Journey ==
  /\ kind \in Kinds /\ foreign \in BOOLEAN /\ hops \in 0 .. MaxHops
  /\ place \in {"host", "wire", "refused", "garbled"}
  /\ error \in Errors \cup {"none"}
  /\ first # <<>> => first \in RecordsOf(kind, HostValues)
  /\ first # <<>> /\ (place = "wire" \/ (hops > 0 /\ TooMany(first))) => Slips(first)
  /\ place \in {"host", "refused"} =>
       /\ fields = first \/ TooMany(first)
       /\ hops = 0 => fields = first
       /\ fields \in RecordsOf(kind, HostValues)
       /\ foreign \/ hops > 0 => Decoded(fields)
  /\ place = "wire" =>
       hops < MaxHops /\ \E r : fields = InnerOf(kind, r) /\ Carried(r)
  /\ place = "refused" =>
       \E f \in DOMAIN Records[kind] :
         ~Converts(Records[kind][f], fields[f]) /\ error = ErrorOf(Records[kind][f])

TablesMatch == \A m \in Kinds : MatchedKind(m)

LEMMA FieldKindOf ==
  ASSUME NEW m, MatchedKind(m), NEW f \in DOMAIN Records[m]
  PROVE  Records[m][f] \in FieldKinds
  BY DEF MatchedKind, Matched

\* A record that was decoded has no list that is too long.
LEMMA DecodedIsShort ==
  ASSUME MatchedKind(kind), NEW r \in RecordsOf(kind, HostValues), Decoded(r)
  PROVE  ~TooMany(r)
<1>1. DOMAIN r = DOMAIN Records[kind]
  BY RecordElim
<1>2. ASSUME NEW f \in DOMAIN r
      PROVE  r[f] # "too_many"
  BY <1>1, <1>2, FieldKindOf, WireIsShort DEF Decoded
<1> QED BY <1>2 DEF TooMany

LEMMA ShortOfNothing == ~TooMany(<<>>)
  BY DEF TooMany

LEMMA CarriedIsRecord ==
  ASSUME NEW r, Carried(r)
  PROVE  DOMAIN r = DOMAIN Records[kind]
<1>1. r \in RecordsOf(kind, WireValues) \/ r \in RecordsOf(kind, HostValues)
  BY DEF Carried
<1> QED BY <1>1, RecordElim

\* A record of values that come off the wire has none either.
LEMMA WireRecordIsShort ==
  ASSUME MatchedKind(kind), NEW r \in RecordsOf(kind, WireValues)
  PROVE  ~TooMany(r)
<1>1. DOMAIN r = DOMAIN Records[kind] /\ \A f \in DOMAIN Records[kind] : r[f] \in WireValues[Records[kind][f]]
  BY RecordElim
<1>2. ASSUME NEW f \in DOMAIN r
      PROVE  r[f] # "too_many"
  BY <1>1, <1>2, FieldKindOf, WireIsShort
<1> QED BY <1>2 DEF TooMany

LEMMA JourneyInit == Init => Journey
<1> SUFFICES ASSUME Init PROVE Journey
  OBVIOUS
<1>1. /\ kind \in Kinds /\ foreign \in BOOLEAN /\ hops \in 0 .. MaxHops /\ hops = 0 /\ 0 < MaxHops
      /\ error = "none"
  BY HopsAssumption DEF Init
<1>2. CASE foreign
  BY <1>1, <1>2 DEF Init, Journey, Carried
<1>3. CASE ~foreign
  BY <1>1, <1>3 DEF Init, Journey
<1> QED BY <1>2, <1>3

LEMMA JourneyRefuse ==
  ASSUME Journey, MatchedKind(kind), Refuse
  PROVE  Journey'
<1>1. PICK i \in FirstUnfit : error' = ErrorOf(Records[kind][ToInner[kind][i][1]])
  BY DEF Refuse
<1> DEFINE f == ToInner[kind][i][1]
<1>2. i \in DOMAIN ToInner[kind] /\ ~Converts(Records[kind][f], fields[f])
  BY <1>1, FirstUnfitFacts DEF Unfit
<1>3. f \in DOMAIN Records[kind]
  BY <1>2 DEF MatchedKind, Matched
<1>4. Records[kind][f] \in FieldKinds
  BY <1>3, FieldKindOf
<1>5. fields \in RecordsOf(kind, HostValues)
  BY DEF Journey, Refuse
<1>6. fields[f] \in HostValues[Records[kind][f]]
  BY <1>3, <1>5, RecordElim
<1> HIDE DEF f
<1>7. error' = ErrorOf(Records[kind][f])
  BY <1>1 DEF f
<1>8. error' \in Errors
  BY <1>2, <1>4, <1>6, <1>7, UnfitHasError DEF Errors
<1>9. place = "host" /\ place' = "refused" /\ UNCHANGED <<kind, fields, foreign, hops, first>>
  BY DEF Refuse
<1>10. (foreign \/ hops > 0 => Decoded(fields))'
  BY <1>9 DEF Journey, Decoded
<1>11. (first # <<>> /\ hops > 0 /\ TooMany(first) => Slips(first))'
  BY <1>9 DEF Journey, Slips, Fits, TooMany
<1>12. \E g \in DOMAIN Records[kind'] :
        ~Converts(Records[kind'][g], fields'[g]) /\ error' = ErrorOf(Records[kind'][g])
  BY <1>2, <1>3, <1>7, <1>9
<1> QED BY <1>8, <1>9, <1>10, <1>11, <1>12 DEF Journey

LEMMA JourneySend ==
  ASSUME Journey, MatchedKind(kind), Send
  PROVE  Journey'
<1>1. /\ fields \in RecordsOf(kind, HostValues) /\ (fields = first \/ TooMany(first))
      /\ first # <<>> => first \in RecordsOf(kind, HostValues)
      /\ foreign \/ hops > 0 => Decoded(fields)
      /\ hops \in 0 .. MaxHops /\ hops < MaxHops
  BY DEF Journey, Send
<1>2. /\ fields = [f \in DOMAIN Records[kind] |-> fields[f]] /\ DOMAIN fields = DOMAIN Records[kind]
      /\ \A f \in DOMAIN Records[kind] : fields[f] \in HostValues[Records[kind][f]]
  BY <1>1, RecordElim
<1>3. ASSUME NEW f \in DOMAIN Records[kind], fields[f] # "too_many"
      PROVE  Records[kind][f] \in DOMAIN WireValues /\ fields[f] \in WireValues[Records[kind][f]]
  <2>1. PICK i \in DOMAIN ToInner[kind] : ToInner[kind][i][1] = f
    BY DEF MatchedKind, Matched
  <2>2. i \notin Unfit
    BY FirstUnfitFacts DEF Send
  <2>3. Converts(Records[kind][f], fields[f])
    BY <2>1, <2>2 DEF Unfit
  <2>4. Records[kind][f] \in FieldKinds
    BY FieldKindOf
  <2> QED BY <1>2, <1>3, <2>3, <2>4, ConvertingFits, ValueSets
<1>4. Slips(fields)
  BY <1>2, <1>3 DEF Slips, Fits
<1>5. ASSUME first # <<>>
      PROVE  Slips(first)
  <2>1. CASE fields = first
    BY <1>4, <2>1
  <2>2. CASE fields # first
    <3>1. TooMany(first) /\ hops > 0
      BY <1>1, <2>2 DEF Journey, Send
    <3> QED BY <1>5, <3>1 DEF Journey
  <2> QED BY <2>1, <2>2
<1>6. Carried(fields)
  <2>1. CASE TooMany(fields)
    \* Only the host that composed the message holds such a list.
    <3>1. hops = 0
      BY <1>1, <2>1, DecodedIsShort
    <3>2. fields = first
      BY <3>1 DEF Journey, Send
    <3> QED BY <1>1, <2>1, <3>2 DEF Carried
  <2>2. CASE ~TooMany(fields)
    <3>1. \A f \in DOMAIN Records[kind] : fields[f] # "too_many"
      BY <1>2, <2>2 DEF TooMany
    <3>2. fields \in RecordsOf(kind, WireValues)
      BY <1>2, <1>3, <3>1, RecordIntro
    <3> QED BY <1>1, <3>2 DEF Carried
  <2> QED BY <2>1, <2>2
<1>7. /\ place' = "wire" /\ fields' = InnerOf(kind, fields)
      /\ UNCHANGED <<kind, foreign, hops, first, error>>
  BY DEF Send
<1>8. \E r : fields' = InnerOf(kind', r) /\ Carried(r)'
  <2> DEFINE q == fields
  <2>1. Carried(q)
    BY <1>6
  <2> HIDE DEF q
  <2>2. \A r : Carried(r) => Carried(r)'
    BY <1>7 DEF Carried
  <2>3. fields' = InnerOf(kind', q)
    BY <1>7 DEF q
  <2> QED BY <2>1, <2>2, <2>3
<1>9. (first # <<>> => Slips(first))'
  BY <1>5, <1>7 DEF Slips, Fits
<1> QED BY <1>1, <1>7, <1>8, <1>9 DEF Journey

\* What a decoder builds of values that come off the wire.
LEMMA ReadRecord ==
  ASSUME Journey, MatchedKind(kind), NEW r \in RecordsOf(kind, WireValues),
         NEW w, w = [f \in DOMAIN Records[kind] |-> Read(Records[kind][f], r[f])]
  PROVE  /\ w \in RecordsOf(kind, HostValues)
         /\ Decoded(w)
         /\ r \in RecordsOf(kind, HostValues) => w = r
<1>1. /\ r = [f \in DOMAIN Records[kind] |-> r[f]]
      /\ \A f \in DOMAIN Records[kind] : r[f] \in WireValues[Records[kind][f]]
  BY RecordElim
<1>2. ASSUME NEW f \in DOMAIN Records[kind]
      PROVE  /\ Records[kind][f] \in DOMAIN HostValues
             /\ w[f] \in HostValues[Records[kind][f]]
             /\ \/ Records[kind][f] = "text" /\ w[f] = "overlong"
                \/ w[f] \in WireValues[Records[kind][f]]
             /\ r[f] \in HostValues[Records[kind][f]] => w[f] = r[f]
  <2>1. w[f] = Read(Records[kind][f], r[f])
    OBVIOUS
  <2>2. Records[kind][f] \in FieldKinds
    BY FieldKindOf
  <2> QED BY <1>1, <2>1, <2>2, ReadValue, ValueSets
<1>3. w = [f \in DOMAIN Records[kind] |-> w[f]]
  OBVIOUS
<1>4. w \in RecordsOf(kind, HostValues)
  BY <1>2, <1>3, RecordIntro
<1>5. Decoded(w)
  BY <1>2 DEF Decoded
<1>6. ASSUME r \in RecordsOf(kind, HostValues)
      PROVE  w = r
  <2>1. \A f \in DOMAIN Records[kind] : r[f] \in HostValues[Records[kind][f]]
    BY <1>6, RecordElim
  <2>2. \A f \in DOMAIN Records[kind] : w[f] = r[f]
    BY <1>2, <2>1
  <2> QED BY <1>1, <1>3, <2>2
<1> QED BY <1>4, <1>5, <1>6

LEMMA JourneyReceive ==
  ASSUME Journey, MatchedKind(kind), Receive
  PROVE  Journey'
<1>1. PICK r : fields = InnerOf(kind, r) /\ Carried(r)
  BY DEF Journey, Receive
<1>2. fields' = RecordOf(kind, fields) /\ first' = IF foreign /\ hops = 0 THEN fields' ELSE first
  BY DEF Receive, RecordOf, SourceOf
<1>3. fields' = [f \in DOMAIN Records[kind] |-> Read(Records[kind][f], r[f])]
  BY <1>1, <1>2, RoundTrip
<1>4. ~TooMany(r)
  BY <1>1, CarriedIsRecord, LongOnBothSides DEF Receive
<1>5. /\ r \in RecordsOf(kind, WireValues)
      /\ \/ foreign /\ hops = 0 /\ first = <<>>
         \/ r \in RecordsOf(kind, HostValues) /\ (first = r \/ TooMany(first))
  BY <1>1, <1>4 DEF Carried
<1>6. /\ fields' \in RecordsOf(kind, HostValues)
      /\ Decoded(fields')
      /\ r \in RecordsOf(kind, HostValues) => fields' = r
  BY <1>3, <1>5, ReadRecord
<1>7. fields' = first' \/ TooMany(first')
  BY <1>2, <1>5, <1>6
<1>8. place = "wire" /\ place' = "host" /\ UNCHANGED <<kind, foreign, error>>
  BY DEF Receive
<1>9. hops' = hops + 1 /\ hops' \in 0 .. MaxHops /\ hops' # 0
  BY HopsAssumption DEF Receive, Journey
<1>10. Decoded(fields)'
  BY <1>6, <1>8 DEF Decoded
<1>11. fields' \in RecordsOf(kind', HostValues)
  BY <1>6, <1>8
<1>12. first' # <<>> => first' \in RecordsOf(kind', HostValues)
  BY <1>2, <1>8, <1>11 DEF Journey
<1>13. ASSUME first' # <<>>, TooMany(first')
       PROVE  Slips(first)'
  <2>1. first' # fields'
    <3>1. ~TooMany(fields')
      BY <1>6, DecodedIsShort
    <3> QED BY <1>13, <3>1
  <2>2. first' = first /\ Slips(first)
    BY <1>2, <1>8, <1>13, <2>1 DEF Journey
  <2> QED BY <1>8, <2>2 DEF Slips, Fits
<1>14. /\ kind' \in Kinds /\ foreign' \in BOOLEAN /\ error' \in Errors \cup {"none"}
  BY <1>8 DEF Journey
<1> QED BY <1>7, <1>8, <1>9, <1>10, <1>11, <1>12, <1>13, <1>14 DEF Journey

\* A host's list that was too long becomes something else, or nothing.
LEMMA JourneyMisread ==
  ASSUME Journey, MatchedKind(kind), Misread
  PROVE  Journey'
<1>1. PICK q : fields = InnerOf(kind, q) /\ Carried(q)
  BY DEF Journey, Misread
<1>2. TooMany(q)
  BY <1>1, CarriedIsRecord, LongOnBothSides DEF Misread
<1>3. q \in RecordsOf(kind, HostValues) /\ first = q
  BY <1>1, <1>2, WireRecordIsShort DEF Carried
<1>4. PICK r \in RecordsOf(kind, WireValues) :
        fields' = [f \in DOMAIN Records[kind] |-> Read(Records[kind][f], r[f])]
  BY DEF Misread
<1>5. fields' \in RecordsOf(kind, HostValues) /\ Decoded(fields')
  BY <1>4, ReadRecord
<1>6. place = "wire" /\ place' = "host" /\ UNCHANGED <<kind, foreign, first, error>>
  BY DEF Misread
<1>7. hops' = hops + 1 /\ hops' \in 0 .. MaxHops /\ hops' # 0
  BY HopsAssumption DEF Misread, Journey
<1>8. Decoded(fields)' /\ fields' \in RecordsOf(kind', HostValues)
  BY <1>5, <1>6 DEF Decoded
<1>9. first # <<>> => Slips(first)
  BY <1>6 DEF Journey
<1>10. (first # <<>> => Slips(first))'
  BY <1>6, <1>9 DEF Slips, Fits
<1>11. TooMany(first')
  BY <1>2, <1>3, <1>6
<1> QED BY <1>6, <1>7, <1>8, <1>10, <1>11 DEF Journey

-----------------------------------------------------------------------------
(* The shapes of the tables: how many fields, and in which order they are  *)
(* converted.                                                              *)

Typed(r) == \A f \in DOMAIN r : r[f] \in FieldKinds

LEMMA FieldTables ==
  /\ \A S : DOMAIN Texts(S) = S /\ Typed(Texts(S))
  /\ \A S : DOMAIN ByteVecs(S) = S /\ Typed(ByteVecs(S))
  /\ \A S : DOMAIN Lists(S) = S /\ Typed(Lists(S))
  /\ \A S : DOMAIN Ids(S) = S /\ Typed(Ids(S))
  /\ DOMAIN Fixed = {} /\ Typed(Fixed)
  BY DEF Texts, ByteVecs, Lists, Ids, Fixed, Typed, FieldKinds

LEMMA BothTables ==
  ASSUME NEW f, NEW g
  PROVE  /\ DOMAIN Both(f, g) = DOMAIN f \cup DOMAIN g
         /\ \A x \in DOMAIN f : Both(f, g)[x] = f[x]
         /\ \A x \in DOMAIN g : x \notin DOMAIN f => Both(f, g)[x] = g[x]
         /\ Typed(f) /\ Typed(g) => Typed(Both(f, g))
  BY DEF Both, Typed

LEMMA TextsAndBytes ==
  ASSUME NEW S, NEW U, NEW r, r = Both(Texts(S), ByteVecs(U))
  PROVE  DOMAIN r = S \cup U /\ Typed(r)
<1> DEFINE f == Texts(S)
           g == ByteVecs(U)
<1>1. DOMAIN f = S /\ Typed(f) /\ DOMAIN g = U /\ Typed(g)
  BY FieldTables
<1>2. r = Both(f, g)
  OBVIOUS
<1> HIDE DEF f, g
<1> QED BY <1>1, <1>2, BothTables

LEMMA ListsAndBytes ==
  ASSUME NEW S, NEW U, NEW r, r = Both(Lists(S), ByteVecs(U))
  PROVE  DOMAIN r = S \cup U /\ Typed(r)
<1> DEFINE f == Lists(S)
           g == ByteVecs(U)
<1>1. DOMAIN f = S /\ Typed(f) /\ DOMAIN g = U /\ Typed(g)
  BY FieldTables
<1>2. r = Both(f, g)
  OBVIOUS
<1> HIDE DEF f, g
<1> QED BY <1>1, <1>2, BothTables

LEMMA ProtocolAndTexts ==
  ASSUME NEW S, NEW r, r = Both([protocol |-> "protocol"], Texts(S))
  PROVE  DOMAIN r = {"protocol"} \cup S /\ Typed(r)
<1> DEFINE f == Texts(S)
           g == [protocol |-> "protocol"]
<1>1. DOMAIN g = {"protocol"} /\ Typed(g)
  BY DEF Typed, FieldKinds
<1>2. DOMAIN f = S /\ Typed(f)
  BY FieldTables
<1>3. r = Both(g, f)
  OBVIOUS
<1> HIDE DEF f, g
<1> QED BY <1>1, <1>2, <1>3 DEF Both, Typed

LEMMA Same1 ==
  ASSUME NEW a, NEW t, t = Same(<<a>>)
  PROVE  /\ DOMAIN t = {1}
         /\ t[1] = <<a, a>>
  BY DEF Same

LEMMA Same2 ==
  ASSUME NEW a, NEW b, NEW t, t = Same(<<a, b>>)
  PROVE  /\ DOMAIN t = {1, 2}
         /\ t[1] = <<a, a>> /\ t[2] = <<b, b>>
  BY DEF Same

LEMMA Same3 ==
  ASSUME NEW a, NEW b, NEW c, NEW t, t = Same(<<a, b, c>>)
  PROVE  /\ DOMAIN t = {1, 2, 3}
         /\ t[1] = <<a, a>> /\ t[2] = <<b, b>> /\ t[3] = <<c, c>>
  BY DEF Same

LEMMA Same5 ==
  ASSUME NEW a, NEW b, NEW c, NEW d, NEW e, NEW t, t = Same(<<a, b, c, d, e>>)
  PROVE  /\ DOMAIN t = {1, 2, 3, 4, 5}
         /\ t[1] = <<a, a>> /\ t[2] = <<b, b>> /\ t[3] = <<c, c>>
         /\ t[4] = <<d, d>> /\ t[5] = <<e, e>>
  BY DEF Same

LEMMA Same6 ==
  ASSUME NEW a, NEW b, NEW c, NEW d, NEW e, NEW f, NEW t, t = Same(<<a, b, c, d, e, f>>)
  PROVE  /\ DOMAIN t = {1, 2, 3, 4, 5, 6}
         /\ t[1] = <<a, a>> /\ t[2] = <<b, b>> /\ t[3] = <<c, c>>
         /\ t[4] = <<d, d>> /\ t[5] = <<e, e>> /\ t[6] = <<f, f>>
  BY DEF Same

LEMMA MatchedNone ==
  ASSUME NEW r, DOMAIN r = {}
  PROVE  Matched(r, <<>>, <<>>)
  BY DEF Matched

LEMMA MatchedOne ==
  ASSUME NEW r, NEW a, Typed(r),
         DOMAIN r = {a}
  PROVE  Matched(r, Same(<<a>>), Same(<<a>>))
<1>1. \A t, s : t = Same(<<a>>) /\ s = Same(<<a>>) => Matched(r, t, s)
  BY Same1 DEF Matched, Typed
<1> QED BY <1>1

LEMMA MatchedTwo ==
  ASSUME NEW r, NEW a, NEW b, Typed(r),
         DOMAIN r = {a, b},
         a # b
  PROVE  Matched(r, Same(<<a, b>>), Same(<<a, b>>))
<1>1. \A t, s : t = Same(<<a, b>>) /\ s = Same(<<a, b>>) => Matched(r, t, s)
  BY Same2 DEF Matched, Typed
<1> QED BY <1>1

LEMMA MatchedTwoTurned ==
  ASSUME NEW r, NEW a, NEW b, Typed(r),
         DOMAIN r = {a, b},
         a # b
  PROVE  Matched(r, Same(<<a, b>>), Same(<<b, a>>))
<1>1. \A t, s : t = Same(<<a, b>>) /\ s = Same(<<b, a>>) => Matched(r, t, s)
  BY Same2 DEF Matched, Typed
<1> QED BY <1>1

LEMMA MatchedThree ==
  ASSUME NEW r, NEW a, NEW b, NEW c, Typed(r),
         DOMAIN r = {a, b, c},
         a # b, a # c, b # c
  PROVE  Matched(r, Same(<<a, b, c>>), Same(<<a, b, c>>))
<1>1. \A t, s : t = Same(<<a, b, c>>) /\ s = Same(<<a, b, c>>) => Matched(r, t, s)
  BY Same3 DEF Matched, Typed
<1> QED BY <1>1

LEMMA MatchedThreeTurned ==
  ASSUME NEW r, NEW a, NEW b, NEW c, Typed(r),
         DOMAIN r = {a, b, c},
         a # b, a # c, b # c
  PROVE  Matched(r, Same(<<a, b, c>>), Same(<<b, c, a>>))
<1>1. \A t, s : t = Same(<<a, b, c>>) /\ s = Same(<<b, c, a>>) => Matched(r, t, s)
  BY Same3 DEF Matched, Typed
<1> QED BY <1>1

LEMMA MatchedFive ==
  ASSUME NEW r, NEW a, NEW b, NEW c, NEW d, NEW e, Typed(r),
         DOMAIN r = {a, b, c, d, e},
         a # b, a # c, a # d, a # e, b # c,
         b # d, b # e, c # d, c # e, d # e
  PROVE  Matched(r, Same(<<a, b, c, d, e>>), Same(<<b, c, d, a, e>>))
<1> SUFFICES ASSUME NEW t, NEW s, t = Same(<<a, b, c, d, e>>), s = Same(<<b, c, d, a, e>>)
             PROVE  Matched(r, t, s)
  OBVIOUS
<1>1. /\ DOMAIN t = {1, 2, 3, 4, 5}
      /\ t[1] = <<a, a>> /\ t[2] = <<b, b>> /\ t[3] = <<c, c>> /\ t[4] = <<d, d>> /\ t[5] = <<e, e>>
  BY Same5
<1>2. /\ DOMAIN s = {1, 2, 3, 4, 5}
      /\ s[1] = <<b, b>> /\ s[2] = <<c, c>> /\ s[3] = <<d, d>> /\ s[4] = <<a, a>> /\ s[5] = <<e, e>>
  BY Same5
<1>3. /\ DOMAIN t \subseteq Nat
      /\ \A i \in DOMAIN t : t[i][1] \in DOMAIN r
      /\ \A f \in DOMAIN r : \E i \in DOMAIN t : t[i][1] = f
  BY <1>1
<1>4. \A i, j \in DOMAIN t : t[i][1] = t[j][1] \/ t[i][2] = t[j][2] => i = j
  BY <1>1
<1>5. \A i \in DOMAIN s : s[i][1] \in DOMAIN r /\ \E j \in DOMAIN t : s[i] = t[j]
  <2>1. s[1] = t[2] /\ s[2] = t[3] /\ s[3] = t[4] /\ s[4] = t[1] /\ s[5] = t[5]
    BY <1>1, <1>2
  <2>2. \A i \in DOMAIN s : \E j \in DOMAIN t : s[i] = t[j]
    BY <1>1, <1>2, <2>1
  <2> QED BY <1>3, <2>2
<1>6. \A f \in DOMAIN r : \E i \in DOMAIN s : s[i][1] = f
  BY <1>2
<1> QED BY <1>3, <1>4, <1>5, <1>6 DEF Matched, Typed

LEMMA MatchedSix ==
  ASSUME NEW r, NEW a, NEW b, NEW c, NEW d, NEW e, NEW f, Typed(r),
         DOMAIN r = {a, b, c, d, e, f},
         a # b, a # c, a # d, a # e, a # f,
         b # c, b # d, b # e, b # f, c # d,
         c # e, c # f, d # e, d # f, e # f
  PROVE  Matched(r, Same(<<a, b, c, d, e, f>>), Same(<<a, b, c, d, e, f>>))
<1>1. \A t, s : t = Same(<<a, b, c, d, e, f>>) /\ s = Same(<<a, b, c, d, e, f>>) => Matched(r, t, s)
  BY Same6 DEF Matched, Typed
<1> QED BY <1>1

\* A field that the library calls by another name.
LEMMA MatchedToken ==
  ASSUME NEW r, NEW a, NEW b, NEW x, Typed(r), DOMAIN r = {a, b}, a # b, a # x
  PROVE  Matched(r, <<<<a, a>>, <<b, x>>>>, <<<<a, a>>, <<b, x>>>>)
<1> SUFFICES ASSUME NEW t, t = <<<<a, a>>, <<b, x>>>>
             PROVE  Matched(r, t, t)
  OBVIOUS
<1>1. DOMAIN t = {1, 2} /\ t[1] = <<a, a>> /\ t[2] = <<b, x>>
  OBVIOUS
<1> QED BY <1>1 DEF Matched, Typed

LEMMA MatchedPlaces ==
  ASSUME NEW r, NEW a, NEW b, NEW c, NEW d, NEW e, NEW x, Typed(r),
         DOMAIN r = {a, b, c, d, e},
         a # b, a # c, a # d, a # e, b # c, b # d, b # e, c # d, c # e, d # e,
         x # a, x # c, x # d, x # e,
         NEW t, DOMAIN t = {1, 2, 3, 4, 5},
         t[1] = <<a, a>>, t[2] = <<b, x>>, t[3] = <<c, c>>, t[4] = <<d, d>>, t[5] = <<e, e>>,
         NEW s, DOMAIN s = {1, 2, 3, 4, 5},
         s[1] = t[2], s[2] = t[3], s[3] = t[4], s[4] = t[5], s[5] = t[1]
  PROVE  Matched(r, t, s)
<1>1. /\ DOMAIN t \subseteq Nat
      /\ \A i \in DOMAIN t : t[i][1] \in DOMAIN r
      /\ \A f \in DOMAIN r : \E i \in DOMAIN t : t[i][1] = f
  OBVIOUS
<1>2. /\ \A i \in DOMAIN s : \E j \in DOMAIN t : s[i] = t[j]
      /\ \A j \in DOMAIN t : \E i \in DOMAIN s : s[i] = t[j]
  OBVIOUS
<1>3. \A i, j \in DOMAIN t : t[i][1] = t[j][1] \/ t[i][2] = t[j][2] => i = j
  OBVIOUS
<1>4. \A i \in DOMAIN s : s[i][1] \in DOMAIN r /\ \E j \in DOMAIN t : s[i] = t[j]
  BY <1>1, <1>2
<1>5. \A f \in DOMAIN r : \E i \in DOMAIN s : s[i][1] = f
  BY <1>1, <1>2
<1> QED BY <1>1, <1>3, <1>4, <1>5 DEF Matched, Typed

LEMMA MatchedCustomJob ==
  ASSUME NEW r, NEW a, NEW b, NEW c, NEW d, NEW e, NEW x, Typed(r),
         DOMAIN r = {a, b, c, d, e},
         a # b, a # c, a # d, a # e, b # c, b # d, b # e, c # d, c # e, d # e,
         x # a, x # c, x # d, x # e
  PROVE  Matched(r, <<<<a, a>>, <<b, x>>>> \o Same(<<c, d, e>>),
                    <<<<b, x>>>> \o Same(<<c, d, e, a>>))
<1> DEFINE P == {<<a, a>>, <<b, x>>, <<c, c>>, <<d, d>>, <<e, e>>}
           h == <<<<a, a>>, <<b, x>>>>
           k == <<<<b, x>>>>
           p == Same(<<c, d, e>>)
           q == Same(<<c, d, e, a>>)
           t == h \o p
           s == k \o q
<1>1. h \in Seq(P) /\ Len(h) = 2 /\ h[1] = <<a, a>> /\ h[2] = <<b, x>>
  OBVIOUS
<1>2. k \in Seq(P) /\ Len(k) = 1 /\ k[1] = <<b, x>>
  OBVIOUS
<1>3. p \in Seq(P) /\ Len(p) = 3 /\ p[1] = <<c, c>> /\ p[2] = <<d, d>> /\ p[3] = <<e, e>>
  BY DEF Same
<1>4. /\ q \in Seq(P) /\ Len(q) = 4
      /\ q[1] = <<c, c>> /\ q[2] = <<d, d>> /\ q[3] = <<e, e>> /\ q[4] = <<a, a>>
  BY DEF Same
<1> HIDE DEF P, h, k, p, q
<1>5. /\ t \in Seq(P) /\ Len(t) = 5
      /\ t[1] = h[1] /\ t[2] = h[2] /\ t[3] = p[1] /\ t[4] = p[2] /\ t[5] = p[3]
  <2>1. /\ t \in Seq(P) /\ Len(t) = Len(h) + Len(p)
        /\ \A i \in 1 .. Len(h) + Len(p) : t[i] = IF i <= Len(h) THEN h[i] ELSE p[i - Len(h)]
    BY <1>1, <1>3, ConcatProperties
  <2> HIDE DEF t
  <2> QED BY <1>1, <1>3, <2>1
<1>6. /\ s \in Seq(P) /\ Len(s) = 5
      /\ s[1] = k[1] /\ s[2] = q[1] /\ s[3] = q[2] /\ s[4] = q[3] /\ s[5] = q[4]
  <2>1. /\ s \in Seq(P) /\ Len(s) = Len(k) + Len(q)
        /\ \A i \in 1 .. Len(k) + Len(q) : s[i] = IF i <= Len(k) THEN k[i] ELSE q[i - Len(k)]
    BY <1>2, <1>4, ConcatProperties
  <2> HIDE DEF s
  <2> QED BY <1>2, <1>4, <2>1
<1> HIDE DEF t, s
<1>7. DOMAIN t = {1, 2, 3, 4, 5} /\ DOMAIN s = {1, 2, 3, 4, 5}
  BY <1>5, <1>6, LenProperties
<1>8. /\ t[1] = <<a, a>> /\ t[2] = <<b, x>> /\ t[3] = <<c, c>> /\ t[4] = <<d, d>> /\ t[5] = <<e, e>>
      /\ s[1] = t[2] /\ s[2] = t[3] /\ s[3] = t[4] /\ s[4] = t[5] /\ s[5] = t[1]
  BY <1>1, <1>2, <1>3, <1>4, <1>5, <1>6
<1>9. Matched(r, t, s)
  BY <1>7, <1>8, MatchedPlaces
<1> QED BY <1>9 DEF t, s, h, k, p, q

-----------------------------------------------------------------------------
(* Group by group, the tables agree on every message.                      *)

CommonKinds ==
  {"SetupConnection", "SetupConnectionSuccess", "SetupConnectionError",
   "ChannelEndpointChanged", "Reconnect"}

ChannelKinds ==
  {"OpenStandardMiningChannel", "OpenStandardMiningChannelSuccess",
   "OpenExtendedMiningChannel", "OpenExtendedMiningChannelSuccess",
   "OpenMiningChannelError", "UpdateChannel", "UpdateChannelError",
   "CloseChannel", "SetExtranoncePrefix"}

WorkKinds ==
  {"SubmitSharesStandard", "SubmitSharesExtended", "SubmitSharesSuccess",
   "SubmitSharesError", "NewMiningJob", "NewExtendedMiningJob",
   "SetNewPrevHashMining"}

CustomKinds ==
  {"SetCustomMiningJob", "SetCustomMiningJobSuccess",
   "SetCustomMiningJobError", "SetTarget", "SetGroupChannel"}

TokenKinds ==
  {"AllocateMiningJobToken", "AllocateMiningJobTokenSuccess",
   "DeclareMiningJob", "DeclareMiningJobSuccess"}

DeclarationKinds ==
  {"DeclareMiningJobError", "ProvideMissingTransactions",
   "ProvideMissingTransactionsSuccess", "PushSolution"}

TemplateKinds ==
  {"CoinbaseOutputConstraints", "NewTemplate",
   "SetNewPrevHashTemplateDistribution", "RequestTransactionData",
   "RequestTransactionDataSuccess", "RequestTransactionDataError",
   "SubmitSolution"}

LEMMA CommonTables == \A m \in CommonKinds : Matched(CommonRecords[m], CommonToInner[m], CommonFromInner[m])
<1>1. Matched(CommonRecords["SetupConnection"], CommonToInner["SetupConnection"], CommonFromInner["SetupConnection"])
  <2>1. CommonRecords["SetupConnection"] =
          Both([protocol |-> "protocol"], Texts({"endpoint_host", "vendor", "hardware_version", "firmware", "device_id"}))
    BY DEF CommonRecords
  <2>2. DOMAIN CommonRecords["SetupConnection"] =
          {"protocol"} \cup {"endpoint_host", "vendor", "hardware_version", "firmware", "device_id"}
        /\ Typed(CommonRecords["SetupConnection"])
    BY <2>1, ProtocolAndTexts
  <2> QED BY <2>2, MatchedSix DEF CommonToInner, CommonFromInner
<1>2. Matched(CommonRecords["SetupConnectionSuccess"], CommonToInner["SetupConnectionSuccess"], CommonFromInner["SetupConnectionSuccess"])
  BY MatchedNone, FieldTables DEF CommonRecords, CommonToInner, CommonFromInner
<1>3. Matched(CommonRecords["SetupConnectionError"], CommonToInner["SetupConnectionError"], CommonFromInner["SetupConnectionError"])
  BY MatchedOne, FieldTables DEF CommonRecords, CommonToInner, CommonFromInner
<1>4. Matched(CommonRecords["ChannelEndpointChanged"], CommonToInner["ChannelEndpointChanged"], CommonFromInner["ChannelEndpointChanged"])
  BY MatchedNone, FieldTables DEF CommonRecords, CommonToInner, CommonFromInner
<1>5. Matched(CommonRecords["Reconnect"], CommonToInner["Reconnect"], CommonFromInner["Reconnect"])
  BY MatchedOne, FieldTables DEF CommonRecords, CommonToInner, CommonFromInner
<1> QED BY <1>1, <1>2, <1>3, <1>4, <1>5 DEF CommonKinds

LEMMA ChannelTables == \A m \in ChannelKinds : Matched(MiningRecords[m], ChannelToInner[m], ChannelFromInner[m])
<1>1. Matched(MiningRecords["OpenStandardMiningChannel"], ChannelToInner["OpenStandardMiningChannel"], ChannelFromInner["OpenStandardMiningChannel"])
  <2>1. MiningRecords["OpenStandardMiningChannel"] =
          Both(Texts({"user_identity"}), ByteVecs({"max_target"}))
    BY DEF MiningRecords
  <2>2. DOMAIN MiningRecords["OpenStandardMiningChannel"] =
          {"user_identity"} \cup {"max_target"}
        /\ Typed(MiningRecords["OpenStandardMiningChannel"])
    BY <2>1, TextsAndBytes
  <2> QED BY <2>2, MatchedTwoTurned DEF ChannelToInner, ChannelFromInner
<1>2. Matched(MiningRecords["OpenStandardMiningChannelSuccess"], ChannelToInner["OpenStandardMiningChannelSuccess"], ChannelFromInner["OpenStandardMiningChannelSuccess"])
  BY MatchedTwo, FieldTables DEF MiningRecords, ChannelToInner, ChannelFromInner
<1>3. Matched(MiningRecords["OpenExtendedMiningChannel"], ChannelToInner["OpenExtendedMiningChannel"], ChannelFromInner["OpenExtendedMiningChannel"])
  <2>1. MiningRecords["OpenExtendedMiningChannel"] =
          Both(Texts({"user_identity"}), ByteVecs({"max_target"}))
    BY DEF MiningRecords
  <2>2. DOMAIN MiningRecords["OpenExtendedMiningChannel"] =
          {"user_identity"} \cup {"max_target"}
        /\ Typed(MiningRecords["OpenExtendedMiningChannel"])
    BY <2>1, TextsAndBytes
  <2> QED BY <2>2, MatchedTwoTurned DEF ChannelToInner, ChannelFromInner
<1>4. Matched(MiningRecords["OpenExtendedMiningChannelSuccess"], ChannelToInner["OpenExtendedMiningChannelSuccess"], ChannelFromInner["OpenExtendedMiningChannelSuccess"])
  BY MatchedTwo, FieldTables DEF MiningRecords, ChannelToInner, ChannelFromInner
<1>5. Matched(MiningRecords["OpenMiningChannelError"], ChannelToInner["OpenMiningChannelError"], ChannelFromInner["OpenMiningChannelError"])
  BY MatchedOne, FieldTables DEF MiningRecords, ChannelToInner, ChannelFromInner
<1>6. Matched(MiningRecords["UpdateChannel"], ChannelToInner["UpdateChannel"], ChannelFromInner["UpdateChannel"])
  BY MatchedOne, FieldTables DEF MiningRecords, ChannelToInner, ChannelFromInner
<1>7. Matched(MiningRecords["UpdateChannelError"], ChannelToInner["UpdateChannelError"], ChannelFromInner["UpdateChannelError"])
  BY MatchedOne, FieldTables DEF MiningRecords, ChannelToInner, ChannelFromInner
<1>8. Matched(MiningRecords["CloseChannel"], ChannelToInner["CloseChannel"], ChannelFromInner["CloseChannel"])
  BY MatchedOne, FieldTables DEF MiningRecords, ChannelToInner, ChannelFromInner
<1>9. Matched(MiningRecords["SetExtranoncePrefix"], ChannelToInner["SetExtranoncePrefix"], ChannelFromInner["SetExtranoncePrefix"])
  BY MatchedOne, FieldTables DEF MiningRecords, ChannelToInner, ChannelFromInner
<1> QED BY <1>1, <1>2, <1>3, <1>4, <1>5, <1>6, <1>7, <1>8, <1>9 DEF ChannelKinds

LEMMA WorkTables == \A m \in WorkKinds : Matched(MiningRecords[m], WorkToInner[m], WorkFromInner[m])
<1>1. Matched(MiningRecords["SubmitSharesStandard"], WorkToInner["SubmitSharesStandard"], WorkFromInner["SubmitSharesStandard"])
  BY MatchedNone, FieldTables DEF MiningRecords, WorkToInner, WorkFromInner
<1>2. Matched(MiningRecords["SubmitSharesExtended"], WorkToInner["SubmitSharesExtended"], WorkFromInner["SubmitSharesExtended"])
  BY MatchedOne, FieldTables DEF MiningRecords, WorkToInner, WorkFromInner
<1>3. Matched(MiningRecords["SubmitSharesSuccess"], WorkToInner["SubmitSharesSuccess"], WorkFromInner["SubmitSharesSuccess"])
  BY MatchedNone, FieldTables DEF MiningRecords, WorkToInner, WorkFromInner
<1>4. Matched(MiningRecords["SubmitSharesError"], WorkToInner["SubmitSharesError"], WorkFromInner["SubmitSharesError"])
  BY MatchedOne, FieldTables DEF MiningRecords, WorkToInner, WorkFromInner
<1>5. Matched(MiningRecords["NewMiningJob"], WorkToInner["NewMiningJob"], WorkFromInner["NewMiningJob"])
  BY MatchedOne, FieldTables DEF MiningRecords, WorkToInner, WorkFromInner
<1>6. Matched(MiningRecords["NewExtendedMiningJob"], WorkToInner["NewExtendedMiningJob"], WorkFromInner["NewExtendedMiningJob"])
  <2>1. MiningRecords["NewExtendedMiningJob"] =
          Both(Lists({"merkle_path"}), ByteVecs({"coinbase_tx_prefix", "coinbase_tx_suffix"}))
    BY DEF MiningRecords
  <2>2. DOMAIN MiningRecords["NewExtendedMiningJob"] =
          {"merkle_path"} \cup {"coinbase_tx_prefix", "coinbase_tx_suffix"}
        /\ Typed(MiningRecords["NewExtendedMiningJob"])
    BY <2>1, ListsAndBytes
  <2> QED BY <2>2, MatchedThree DEF WorkToInner, WorkFromInner
<1>7. Matched(MiningRecords["SetNewPrevHashMining"], WorkToInner["SetNewPrevHashMining"], WorkFromInner["SetNewPrevHashMining"])
  BY MatchedOne, FieldTables DEF MiningRecords, WorkToInner, WorkFromInner
<1> QED BY <1>1, <1>2, <1>3, <1>4, <1>5, <1>6, <1>7 DEF WorkKinds

LEMMA CustomTables == \A m \in CustomKinds : Matched(MiningRecords[m], CustomToInner[m], CustomFromInner[m])
<1>1. Matched(MiningRecords["SetCustomMiningJob"], CustomToInner["SetCustomMiningJob"], CustomFromInner["SetCustomMiningJob"])
  <2>1. MiningRecords["SetCustomMiningJob"] =
          Both(Lists({"merkle_path"}), ByteVecs({"mining_job_token", "prev_hash", "coinbase_prefix", "coinbase_tx_outputs"}))
    BY DEF MiningRecords
  <2>2. DOMAIN MiningRecords["SetCustomMiningJob"] =
          {"merkle_path"} \cup {"mining_job_token", "prev_hash", "coinbase_prefix", "coinbase_tx_outputs"}
        /\ Typed(MiningRecords["SetCustomMiningJob"])
    BY <2>1, ListsAndBytes
  <2> QED BY <2>2, MatchedCustomJob DEF CustomToInner, CustomFromInner
<1>2. Matched(MiningRecords["SetCustomMiningJobSuccess"], CustomToInner["SetCustomMiningJobSuccess"], CustomFromInner["SetCustomMiningJobSuccess"])
  BY MatchedNone, FieldTables DEF MiningRecords, CustomToInner, CustomFromInner
<1>3. Matched(MiningRecords["SetCustomMiningJobError"], CustomToInner["SetCustomMiningJobError"], CustomFromInner["SetCustomMiningJobError"])
  BY MatchedOne, FieldTables DEF MiningRecords, CustomToInner, CustomFromInner
<1>4. Matched(MiningRecords["SetTarget"], CustomToInner["SetTarget"], CustomFromInner["SetTarget"])
  BY MatchedOne, FieldTables DEF MiningRecords, CustomToInner, CustomFromInner
<1>5. Matched(MiningRecords["SetGroupChannel"], CustomToInner["SetGroupChannel"], CustomFromInner["SetGroupChannel"])
  BY MatchedOne, FieldTables DEF MiningRecords, CustomToInner, CustomFromInner
<1> QED BY <1>1, <1>2, <1>3, <1>4, <1>5 DEF CustomKinds

LEMMA TokenTables == \A m \in TokenKinds : Matched(DeclarationRecords[m], TokenToInner[m], DeclarationFromInner[m])
<1>1. Matched(DeclarationRecords["AllocateMiningJobToken"], TokenToInner["AllocateMiningJobToken"], DeclarationFromInner["AllocateMiningJobToken"])
  BY MatchedOne, FieldTables DEF DeclarationRecords, TokenToInner, DeclarationFromInner
<1>2. Matched(DeclarationRecords["AllocateMiningJobTokenSuccess"], TokenToInner["AllocateMiningJobTokenSuccess"], DeclarationFromInner["AllocateMiningJobTokenSuccess"])
  BY MatchedToken, FieldTables DEF DeclarationRecords, TokenToInner, DeclarationFromInner
<1>3. Matched(DeclarationRecords["DeclareMiningJob"], TokenToInner["DeclareMiningJob"], DeclarationFromInner["DeclareMiningJob"])
  <2>1. DeclarationRecords["DeclareMiningJob"] =
          Both(Lists({"tx_ids_list"}), ByteVecs({"mining_job_token", "coinbase_tx_prefix", "coinbase_tx_suffix", "excess_data"}))
    BY DEF DeclarationRecords
  <2>2. DOMAIN DeclarationRecords["DeclareMiningJob"] =
          {"tx_ids_list"} \cup {"mining_job_token", "coinbase_tx_prefix", "coinbase_tx_suffix", "excess_data"}
        /\ Typed(DeclarationRecords["DeclareMiningJob"])
    BY <2>1, ListsAndBytes
  <2> QED BY <2>2, MatchedFive DEF TokenToInner, DeclarationFromInner
<1>4. Matched(DeclarationRecords["DeclareMiningJobSuccess"], TokenToInner["DeclareMiningJobSuccess"], DeclarationFromInner["DeclareMiningJobSuccess"])
  BY MatchedOne, FieldTables DEF DeclarationRecords, TokenToInner, DeclarationFromInner
<1> QED BY <1>1, <1>2, <1>3, <1>4 DEF TokenKinds

LEMMA DeclarationTables == \A m \in DeclarationKinds : Matched(DeclarationRecords[m], DeclarationToInner[m], DeclarationFromInner[m])
<1>1. Matched(DeclarationRecords["DeclareMiningJobError"], DeclarationToInner["DeclareMiningJobError"], DeclarationFromInner["DeclareMiningJobError"])
  <2>1. DeclarationRecords["DeclareMiningJobError"] =
          Both(Texts({"error_code"}), ByteVecs({"error_details"}))
    BY DEF DeclarationRecords
  <2>2. DOMAIN DeclarationRecords["DeclareMiningJobError"] =
          {"error_code"} \cup {"error_details"}
        /\ Typed(DeclarationRecords["DeclareMiningJobError"])
    BY <2>1, TextsAndBytes
  <2> QED BY <2>2, MatchedTwo DEF DeclarationToInner, DeclarationFromInner
<1>2. Matched(DeclarationRecords["ProvideMissingTransactions"], DeclarationToInner["ProvideMissingTransactions"], DeclarationFromInner["ProvideMissingTransactions"])
  BY MatchedOne, FieldTables DEF DeclarationRecords, DeclarationToInner, DeclarationFromInner
<1>3. Matched(DeclarationRecords["ProvideMissingTransactionsSuccess"], DeclarationToInner["ProvideMissingTransactionsSuccess"], DeclarationFromInner["ProvideMissingTransactionsSuccess"])
  BY MatchedOne, FieldTables DEF DeclarationRecords, DeclarationToInner, DeclarationFromInner
<1>4. Matched(DeclarationRecords["PushSolution"], DeclarationToInner["PushSolution"], DeclarationFromInner["PushSolution"])
  BY MatchedTwo, FieldTables DEF DeclarationRecords, DeclarationToInner, DeclarationFromInner
<1> QED BY <1>1, <1>2, <1>3, <1>4 DEF DeclarationKinds

LEMMA TemplateTables == \A m \in TemplateKinds : Matched(TemplateRecords[m], TemplateToInner[m], TemplateFromInner[m])
<1>1. Matched(TemplateRecords["CoinbaseOutputConstraints"], TemplateToInner["CoinbaseOutputConstraints"], TemplateFromInner["CoinbaseOutputConstraints"])
  BY MatchedNone, FieldTables DEF TemplateRecords, TemplateToInner, TemplateFromInner
<1>2. Matched(TemplateRecords["NewTemplate"], TemplateToInner["NewTemplate"], TemplateFromInner["NewTemplate"])
  <2>1. TemplateRecords["NewTemplate"] =
          Both(Lists({"merkle_path"}), ByteVecs({"coinbase_prefix", "coinbase_tx_outputs"}))
    BY DEF TemplateRecords
  <2>2. DOMAIN TemplateRecords["NewTemplate"] =
          {"merkle_path"} \cup {"coinbase_prefix", "coinbase_tx_outputs"}
        /\ Typed(TemplateRecords["NewTemplate"])
    BY <2>1, ListsAndBytes
  <2> QED BY <2>2, MatchedThreeTurned DEF TemplateToInner, TemplateFromInner
<1>3. Matched(TemplateRecords["SetNewPrevHashTemplateDistribution"], TemplateToInner["SetNewPrevHashTemplateDistribution"], TemplateFromInner["SetNewPrevHashTemplateDistribution"])
  BY MatchedTwo, FieldTables DEF TemplateRecords, TemplateToInner, TemplateFromInner
<1>4. Matched(TemplateRecords["RequestTransactionData"], TemplateToInner["RequestTransactionData"], TemplateFromInner["RequestTransactionData"])
  BY MatchedNone, FieldTables DEF TemplateRecords, TemplateToInner, TemplateFromInner
<1>5. Matched(TemplateRecords["RequestTransactionDataSuccess"], TemplateToInner["RequestTransactionDataSuccess"], TemplateFromInner["RequestTransactionDataSuccess"])
  <2>1. TemplateRecords["RequestTransactionDataSuccess"] =
          Both(Lists({"transaction_list"}), ByteVecs({"excess_data"}))
    BY DEF TemplateRecords
  <2>2. DOMAIN TemplateRecords["RequestTransactionDataSuccess"] =
          {"transaction_list"} \cup {"excess_data"}
        /\ Typed(TemplateRecords["RequestTransactionDataSuccess"])
    BY <2>1, ListsAndBytes
  <2> QED BY <2>2, MatchedTwoTurned DEF TemplateToInner, TemplateFromInner
<1>6. Matched(TemplateRecords["RequestTransactionDataError"], TemplateToInner["RequestTransactionDataError"], TemplateFromInner["RequestTransactionDataError"])
  BY MatchedOne, FieldTables DEF TemplateRecords, TemplateToInner, TemplateFromInner
<1>7. Matched(TemplateRecords["SubmitSolution"], TemplateToInner["SubmitSolution"], TemplateFromInner["SubmitSolution"])
  BY MatchedOne, FieldTables DEF TemplateRecords, TemplateToInner, TemplateFromInner
<1> QED BY <1>1, <1>2, <1>3, <1>4, <1>5, <1>6, <1>7 DEF TemplateKinds

-----------------------------------------------------------------------------
(* All of them together.                                                   *)

LEMMA GroupDomains ==
  /\ DOMAIN CommonRecords = CommonKinds
  /\ DOMAIN MiningRecords = ChannelKinds \cup WorkKinds \cup CustomKinds
  /\ DOMAIN DeclarationRecords = TokenKinds \cup DeclarationKinds
  /\ DOMAIN TemplateRecords = TemplateKinds
<1>1. DOMAIN CommonRecords = CommonKinds
  BY DEF CommonRecords, CommonKinds
<1>2. DOMAIN MiningRecords = ChannelKinds \cup WorkKinds \cup CustomKinds
  BY DEF MiningRecords, ChannelKinds, WorkKinds, CustomKinds
<1>3. DOMAIN DeclarationRecords = TokenKinds \cup DeclarationKinds
  BY DEF DeclarationRecords, TokenKinds, DeclarationKinds
<1>4. DOMAIN TemplateRecords = TemplateKinds
  BY DEF TemplateRecords, TemplateKinds
<1> QED BY <1>1, <1>2, <1>3, <1>4

LEMMA ToInnerDomains ==
  /\ DOMAIN CommonToInner = CommonKinds /\ DOMAIN ChannelToInner = ChannelKinds
  /\ DOMAIN WorkToInner = WorkKinds /\ DOMAIN CustomToInner = CustomKinds
  /\ DOMAIN TokenToInner = TokenKinds /\ DOMAIN DeclarationToInner = DeclarationKinds
  /\ DOMAIN TemplateToInner = TemplateKinds
<1>1. DOMAIN CommonToInner = CommonKinds /\ DOMAIN ChannelToInner = ChannelKinds
  BY DEF CommonToInner, CommonKinds, ChannelToInner, ChannelKinds
<1>2. DOMAIN WorkToInner = WorkKinds /\ DOMAIN CustomToInner = CustomKinds
  BY DEF WorkToInner, WorkKinds, CustomToInner, CustomKinds
<1>3. DOMAIN TokenToInner = TokenKinds /\ DOMAIN DeclarationToInner = DeclarationKinds
  BY DEF TokenToInner, TokenKinds, DeclarationToInner, DeclarationKinds
<1>4. DOMAIN TemplateToInner = TemplateKinds
  BY DEF TemplateToInner, TemplateKinds
<1> QED BY <1>1, <1>2, <1>3, <1>4

LEMMA FromInnerDomains ==
  /\ DOMAIN CommonFromInner = CommonKinds /\ DOMAIN ChannelFromInner = ChannelKinds
  /\ DOMAIN WorkFromInner = WorkKinds /\ DOMAIN CustomFromInner = CustomKinds
  /\ DOMAIN DeclarationFromInner = TokenKinds \cup DeclarationKinds
  /\ DOMAIN TemplateFromInner = TemplateKinds
<1>1. DOMAIN CommonFromInner = CommonKinds /\ DOMAIN ChannelFromInner = ChannelKinds
  BY DEF CommonFromInner, CommonKinds, ChannelFromInner, ChannelKinds
<1>2. DOMAIN WorkFromInner = WorkKinds /\ DOMAIN CustomFromInner = CustomKinds
  BY DEF WorkFromInner, WorkKinds, CustomFromInner, CustomKinds
<1>3. DOMAIN DeclarationFromInner = TokenKinds \cup DeclarationKinds
  BY DEF DeclarationFromInner, TokenKinds, DeclarationKinds
<1>4. DOMAIN TemplateFromInner = TemplateKinds
  BY DEF TemplateFromInner, TemplateKinds
<1> QED BY <1>1, <1>2, <1>3, <1>4

\* No message is in two groups.
LEMMA GroupsApart ==
  /\ CommonKinds \cap (ChannelKinds \cup WorkKinds \cup CustomKinds) = {}
  /\ (CommonKinds \cup ChannelKinds \cup WorkKinds \cup CustomKinds)
       \cap (TokenKinds \cup DeclarationKinds \cup TemplateKinds) = {}
  /\ ChannelKinds \cap WorkKinds = {} /\ (ChannelKinds \cup WorkKinds) \cap CustomKinds = {}
  /\ TokenKinds \cap DeclarationKinds = {} /\ (TokenKinds \cup DeclarationKinds) \cap TemplateKinds = {}
<1>1. CommonKinds \cap (ChannelKinds \cup WorkKinds \cup CustomKinds) = {}
  BY DEF CommonKinds, ChannelKinds, WorkKinds, CustomKinds
<1>2. CommonKinds \cap (TokenKinds \cup DeclarationKinds \cup TemplateKinds) = {}
  BY DEF CommonKinds, TokenKinds, DeclarationKinds, TemplateKinds
<1>3. ChannelKinds \cap (TokenKinds \cup DeclarationKinds \cup TemplateKinds) = {}
  BY DEF ChannelKinds, TokenKinds, DeclarationKinds, TemplateKinds
<1>4. WorkKinds \cap (TokenKinds \cup DeclarationKinds \cup TemplateKinds) = {}
  BY DEF WorkKinds, TokenKinds, DeclarationKinds, TemplateKinds
<1>5. CustomKinds \cap (TokenKinds \cup DeclarationKinds \cup TemplateKinds) = {}
  BY DEF CustomKinds, TokenKinds, DeclarationKinds, TemplateKinds
<1>6. ChannelKinds \cap WorkKinds = {} /\ (ChannelKinds \cup WorkKinds) \cap CustomKinds = {}
  BY DEF ChannelKinds, WorkKinds, CustomKinds
<1>7. TokenKinds \cap DeclarationKinds = {} /\ (TokenKinds \cup DeclarationKinds) \cap TemplateKinds = {}
  BY DEF TokenKinds, DeclarationKinds, TemplateKinds
<1> QED BY <1>1, <1>2, <1>3, <1>4, <1>5, <1>6, <1>7

LEMMA RecordsOfGroups ==
  /\ Kinds = CommonKinds \cup ChannelKinds \cup WorkKinds \cup CustomKinds
               \cup TokenKinds \cup DeclarationKinds \cup TemplateKinds
  /\ \A m \in CommonKinds : Records[m] = CommonRecords[m]
  /\ \A m \in ChannelKinds \cup WorkKinds \cup CustomKinds : Records[m] = MiningRecords[m]
  /\ \A m \in TokenKinds \cup DeclarationKinds : Records[m] = DeclarationRecords[m]
  /\ \A m \in TemplateKinds : Records[m] = TemplateRecords[m]
<1> DEFINE a == Both(CommonRecords, MiningRecords)
           b == Both(DeclarationRecords, TemplateRecords)
<1>1. /\ DOMAIN a = CommonKinds \cup ChannelKinds \cup WorkKinds \cup CustomKinds
      /\ \A m \in CommonKinds : a[m] = CommonRecords[m]
      /\ \A m \in ChannelKinds \cup WorkKinds \cup CustomKinds : a[m] = MiningRecords[m]
  BY GroupDomains, GroupsApart DEF Both
<1>2. /\ DOMAIN b = TokenKinds \cup DeclarationKinds \cup TemplateKinds
      /\ \A m \in TokenKinds \cup DeclarationKinds : b[m] = DeclarationRecords[m]
      /\ \A m \in TemplateKinds : b[m] = TemplateRecords[m]
  BY GroupDomains, GroupsApart DEF Both
<1>3. Records = Both(a, b)
  BY DEF Records
<1> HIDE DEF a, b
<1>4. DOMAIN Records = DOMAIN a \cup DOMAIN b
  BY <1>3 DEF Both
<1>5. /\ \A m \in DOMAIN a : Records[m] = a[m]
      /\ \A m \in DOMAIN b : m \notin DOMAIN a => Records[m] = b[m]
  BY <1>3 DEF Both
<1>6. /\ \A m \in CommonKinds \cup ChannelKinds \cup WorkKinds \cup CustomKinds : Records[m] = a[m]
      /\ \A m \in TokenKinds \cup DeclarationKinds \cup TemplateKinds : Records[m] = b[m]
  BY <1>1, <1>2, <1>5, GroupsApart
<1> QED BY <1>1, <1>2, <1>4, <1>6 DEF Kinds

LEMMA ToInnerOfGroups ==
  /\ \A m \in CommonKinds : ToInner[m] = CommonToInner[m]
  /\ \A m \in ChannelKinds : ToInner[m] = ChannelToInner[m]
  /\ \A m \in WorkKinds : ToInner[m] = WorkToInner[m]
  /\ \A m \in CustomKinds : ToInner[m] = CustomToInner[m]
  /\ \A m \in TokenKinds : ToInner[m] = TokenToInner[m]
  /\ \A m \in DeclarationKinds : ToInner[m] = DeclarationToInner[m]
  /\ \A m \in TemplateKinds : ToInner[m] = TemplateToInner[m]
<1> DEFINE a == Both(ChannelToInner, WorkToInner)
           b == Both(a, CustomToInner)
           c == Both(CommonToInner, b)
           d == Both(TokenToInner, DeclarationToInner)
           e == Both(d, TemplateToInner)
<1>1. /\ DOMAIN a = ChannelKinds \cup WorkKinds
      /\ \A m \in ChannelKinds : a[m] = ChannelToInner[m]
      /\ \A m \in WorkKinds : a[m] = WorkToInner[m]
  BY ToInnerDomains, GroupsApart DEF Both
<1>2. /\ DOMAIN d = TokenKinds \cup DeclarationKinds
      /\ \A m \in TokenKinds : d[m] = TokenToInner[m]
      /\ \A m \in DeclarationKinds : d[m] = DeclarationToInner[m]
  BY ToInnerDomains, GroupsApart DEF Both
<1> HIDE DEF a, d
<1>3. /\ DOMAIN b = ChannelKinds \cup WorkKinds \cup CustomKinds
      /\ \A m \in ChannelKinds \cup WorkKinds : b[m] = a[m]
      /\ \A m \in CustomKinds : b[m] = CustomToInner[m]
  BY <1>1, ToInnerDomains, GroupsApart DEF Both
<1>4. /\ DOMAIN e = TokenKinds \cup DeclarationKinds \cup TemplateKinds
      /\ \A m \in TokenKinds \cup DeclarationKinds : e[m] = d[m]
      /\ \A m \in TemplateKinds : e[m] = TemplateToInner[m]
  BY <1>2, ToInnerDomains, GroupsApart DEF Both
<1> HIDE DEF b
<1>5. /\ DOMAIN c = CommonKinds \cup ChannelKinds \cup WorkKinds \cup CustomKinds
      /\ \A m \in CommonKinds : c[m] = CommonToInner[m]
      /\ \A m \in ChannelKinds \cup WorkKinds \cup CustomKinds : c[m] = b[m]
  BY <1>3, ToInnerDomains, GroupsApart DEF Both
<1>6. ToInner = Both(c, e)
  BY DEF ToInner, a, b, d
<1> HIDE DEF c, e
<1>7. /\ \A m \in DOMAIN c : ToInner[m] = c[m]
      /\ \A m \in DOMAIN e : m \notin DOMAIN c => ToInner[m] = e[m]
  BY <1>6 DEF Both
<1>8. /\ \A m \in CommonKinds \cup ChannelKinds \cup WorkKinds \cup CustomKinds : ToInner[m] = c[m]
      /\ \A m \in TokenKinds \cup DeclarationKinds \cup TemplateKinds : ToInner[m] = e[m]
  BY <1>4, <1>5, <1>7, GroupsApart
<1> QED BY <1>1, <1>2, <1>3, <1>4, <1>5, <1>8

LEMMA FromInnerOfGroups ==
  /\ \A m \in CommonKinds : FromInner[m] = CommonFromInner[m]
  /\ \A m \in ChannelKinds : FromInner[m] = ChannelFromInner[m]
  /\ \A m \in WorkKinds : FromInner[m] = WorkFromInner[m]
  /\ \A m \in CustomKinds : FromInner[m] = CustomFromInner[m]
  /\ \A m \in TokenKinds \cup DeclarationKinds : FromInner[m] = DeclarationFromInner[m]
  /\ \A m \in TemplateKinds : FromInner[m] = TemplateFromInner[m]
<1> DEFINE a == Both(ChannelFromInner, WorkFromInner)
           b == Both(a, CustomFromInner)
           c == Both(CommonFromInner, b)
           e == Both(DeclarationFromInner, TemplateFromInner)
<1>1. /\ DOMAIN a = ChannelKinds \cup WorkKinds
      /\ \A m \in ChannelKinds : a[m] = ChannelFromInner[m]
      /\ \A m \in WorkKinds : a[m] = WorkFromInner[m]
  BY FromInnerDomains, GroupsApart DEF Both
<1> HIDE DEF a
<1>2. /\ DOMAIN b = ChannelKinds \cup WorkKinds \cup CustomKinds
      /\ \A m \in ChannelKinds \cup WorkKinds : b[m] = a[m]
      /\ \A m \in CustomKinds : b[m] = CustomFromInner[m]
  BY <1>1, FromInnerDomains, GroupsApart DEF Both
<1>3. /\ DOMAIN e = TokenKinds \cup DeclarationKinds \cup TemplateKinds
      /\ \A m \in TokenKinds \cup DeclarationKinds : e[m] = DeclarationFromInner[m]
      /\ \A m \in TemplateKinds : e[m] = TemplateFromInner[m]
  BY FromInnerDomains, GroupsApart DEF Both
<1> HIDE DEF b
<1>4. /\ DOMAIN c = CommonKinds \cup ChannelKinds \cup WorkKinds \cup CustomKinds
      /\ \A m \in CommonKinds : c[m] = CommonFromInner[m]
      /\ \A m \in ChannelKinds \cup WorkKinds \cup CustomKinds : c[m] = b[m]
  BY <1>2, FromInnerDomains, GroupsApart DEF Both
<1>5. FromInner = Both(c, e)
  BY DEF FromInner, a, b
<1> HIDE DEF c, e
<1>6. /\ \A m \in DOMAIN c : FromInner[m] = c[m]
      /\ \A m \in DOMAIN e : m \notin DOMAIN c => FromInner[m] = e[m]
  BY <1>5 DEF Both
<1>7. /\ \A m \in CommonKinds \cup ChannelKinds \cup WorkKinds \cup CustomKinds : FromInner[m] = c[m]
      /\ \A m \in TokenKinds \cup DeclarationKinds \cup TemplateKinds : FromInner[m] = e[m]
  BY <1>3, <1>4, <1>6, GroupsApart
<1> QED BY <1>1, <1>2, <1>3, <1>4, <1>7

\* The two conversions agree on every message of the library.
THEOREM ConversionsMatch == TablesMatch
<1> SUFFICES ASSUME NEW m \in Kinds PROVE Matched(Records[m], ToInner[m], FromInner[m])
  BY DEF TablesMatch, MatchedKind
<1>1. CASE m \in CommonKinds
  BY <1>1, RecordsOfGroups, ToInnerOfGroups, FromInnerOfGroups, CommonTables
<1>2. CASE m \in ChannelKinds
  BY <1>2, RecordsOfGroups, ToInnerOfGroups, FromInnerOfGroups, ChannelTables
<1>3. CASE m \in WorkKinds
  BY <1>3, RecordsOfGroups, ToInnerOfGroups, FromInnerOfGroups, WorkTables
<1>4. CASE m \in CustomKinds
  BY <1>4, RecordsOfGroups, ToInnerOfGroups, FromInnerOfGroups, CustomTables
<1>5. CASE m \in TokenKinds
  BY <1>5, RecordsOfGroups, ToInnerOfGroups, FromInnerOfGroups, TokenTables
<1>6. CASE m \in DeclarationKinds
  BY <1>6, RecordsOfGroups, ToInnerOfGroups, FromInnerOfGroups, DeclarationTables
<1>7. CASE m \in TemplateKinds
  BY <1>7, RecordsOfGroups, ToInnerOfGroups, FromInnerOfGroups, TemplateTables
<1> QED BY <1>1, <1>2, <1>3, <1>4, <1>5, <1>6, <1>7, RecordsOfGroups

-----------------------------------------------------------------------------
(* Theorems of the journey.                                                *)

LEMMA JourneyNext == Journey /\ [Next]_vars => Journey'
<1> SUFFICES ASSUME Journey, [Next]_vars PROVE Journey'
  OBVIOUS
<1>1. MatchedKind(kind)
  BY ConversionsMatch DEF TablesMatch, Journey
<1>2. CASE Refuse
  BY <1>1, <1>2, JourneyRefuse
<1>3. CASE Send
  BY <1>1, <1>3, JourneySend
<1>4. CASE Receive
  BY <1>1, <1>4, JourneyReceive
<1>5. CASE Misread
  BY <1>1, <1>5, JourneyMisread
<1>6. CASE Garble
  BY <1>6 DEF Garble, Journey, Slips, Fits
<1>7. CASE UNCHANGED vars
  BY <1>7 DEF vars, Journey, Decoded, Carried, Slips, Fits
<1> QED BY <1>2, <1>3, <1>4, <1>5, <1>6, <1>7 DEF Next

\* On every journey a host's record is the first host's, what is on the wire
\* fits the protocol, and what was refused has a field that does not; lists
\* that were composed too long are the only exception.
THEOREM JourneyInvariant == Spec => []Journey
<1> QED BY JourneyInit, JourneyNext, PTL DEF Spec

\* A host always holds a record of the message's own type, with values of the
\* types of its fields, and a message on the wire has all its fields.
THEOREM MessageTypeOK == Spec => []TypeOK
<1>1. Journey => TypeOK
  <2> SUFFICES ASSUME Journey PROVE TypeOK
    OBVIOUS
  <2>1. ASSUME place = "wire"
        PROVE  DOMAIN fields = {ToInner[kind][i][2] : i \in DOMAIN ToInner[kind]}
    <3>1. PICK r : fields = InnerOf(kind, r)
      BY <2>1 DEF Journey
    <3> QED BY <3>1 DEF InnerOf
  <2> QED BY <2>1 DEF Journey, TypeOK, Errors
<1> QED BY <1>1, JourneyInvariant, PTL

\* However often a message of any kind is decoded and sent on, every host sees
\* what the first one saw, unless that one composed too long a list.
THEOREM HostsAgree == Spec => []EveryHostSeesTheSame
<1>1. Journey => EveryHostSeesTheSame
  BY DEF Journey, EveryHostSeesTheSame
<1> QED BY <1>1, JourneyInvariant, PTL

\* A message that was decoded is refused only for a text that its repair made
\* too long.
THEOREM OnlyGrownTextsAreRefused == Spec => []DecodedCanBeSent
<1>1. Journey => DecodedCanBeSent
  <2> SUFFICES ASSUME Journey, place = "refused", foreign \/ hops > 0
               PROVE  error = "FailedToSerializeString" /\ \E f \in DOMAIN fields : fields[f] = "overlong"
    BY DEF DecodedCanBeSent
  <2>1. PICK f \in DOMAIN Records[kind] :
          ~Converts(Records[kind][f], fields[f]) /\ error = ErrorOf(Records[kind][f])
    BY DEF Journey
  <2>2. fields \in RecordsOf(kind, HostValues) /\ Decoded(fields)
    BY DEF Journey
  <2>3. DOMAIN fields = DOMAIN Records[kind] /\ fields[f] \in HostValues[Records[kind][f]]
    BY <2>2, RecordElim
  <2>4. Records[kind][f] \in FieldKinds
    BY ConversionsMatch, FieldKindOf DEF TablesMatch, Journey
  <2>5. /\ fields[f] \notin WireValues[Records[kind][f]]
        /\ Records[kind][f] = "text" => ErrorOf(Records[kind][f]) = "FailedToSerializeString"
    BY <2>1, <2>3, <2>4, UnfitHasError
  <2>6. Records[kind][f] = "text" /\ fields[f] = "overlong"
    BY <2>2, <2>5 DEF Decoded
  <2> QED BY <2>1, <2>3, <2>5, <2>6
<1> QED BY <1>1, JourneyInvariant, PTL

\* Whatever a program composes, the conversion lets only the length of a list
\* through that does not fit the protocol, and refuses nothing that fits.
THEOREM OnlyLongListsAreLetThrough == Spec => []OnlyLengthsSlipThrough
<1>1. Journey => OnlyLengthsSlipThrough
  <2> SUFFICES ASSUME Journey PROVE OnlyLengthsSlipThrough
    OBVIOUS
  <2>1. place = "wire" /\ first # <<>> => Slips(first)
    BY DEF Journey
  <2>2. ASSUME place = "refused"
        PROVE  \E f \in DOMAIN first : ~Fits(f, first[f])
    <3>1. PICK f \in DOMAIN Records[kind] : ~Converts(Records[kind][f], fields[f])
      BY <2>2 DEF Journey
    <3>2. fields \in RecordsOf(kind, HostValues) /\ (fields = first \/ TooMany(first))
      BY <2>2 DEF Journey
    <3>3. DOMAIN fields = DOMAIN Records[kind] /\ fields[f] \in HostValues[Records[kind][f]]
      BY <3>2, RecordElim
    <3>4. \A g \in DOMAIN Records[kind] : Records[kind][g] \in FieldKinds
      BY ConversionsMatch, FieldKindOf DEF TablesMatch, Journey
    <3>5. CASE fields = first
      <4>1. fields[f] \notin WireValues[Records[kind][f]]
        BY <3>1, <3>3, <3>4, UnfitHasError
      <4> QED BY <3>3, <3>5, <4>1 DEF Fits
    <3>6. CASE TooMany(first)
      <4>1. first # <<>>
        BY <3>6, ShortOfNothing
      <4>2. DOMAIN first = DOMAIN Records[kind]
        BY <4>1, RecordElim DEF Journey
      <4>3. PICK g \in DOMAIN first : first[g] = "too_many"
        BY <3>6 DEF TooMany
      <4> QED BY <3>4, <4>2, <4>3, WireIsShort DEF Fits
    <3> QED BY <3>2, <3>5, <3>6
  <2> QED BY <2>1, <2>2 DEF OnlyLengthsSlipThrough, Slips
<1> QED BY <1>1, JourneyInvariant, PTL

=============================================================================

-------------------------- MODULE CandleReader_proofs --------------------------
(***************************************************************************)
(* Safety of the CSV reader for every file, size of buffer and way of the  *)
(* source to cut its reads short or to fail.                               *)
(***************************************************************************)
EXTENDS CandleReader, SequenceTheorems, TLAPS

-----------------------------------------------------------------------------
(* The inductive invariant, in three parts. *)

\* The bytes of the file are where the adapter is with them: all still to come, in
\* the probe, or - without the mark - handed on, kept from the probe, or to come.
ReaderTypes ==
    /\ file \in Files
    /\ rest \in Seq(Members) /\ probe \in Seq(Members)
    /\ leftover \in Seq(Members) /\ handed \in Seq(Members)
    /\ checked \in BOOLEAN /\ probing \in BOOLEAN
    /\ ended \in BOOLEAN /\ failed \in BOOLEAN

Before == ~checked => ~probing /\ rest = file /\ probe = <<>>
During == probing => checked /\ file = probe \o rest /\ Len(probe) <= Len(Bom)
Nothing ==
    ~Probed => leftover = <<>> /\ handed = <<>> /\ ~ended /\ ~failed
After == Probed /\ ~failed => Stripped = handed \o (leftover \o rest)
AtEnd == ended => leftover = <<>> /\ rest = <<>>
HandedIsPrefix ==
    /\ Len(handed) <= Len(Stripped)
    /\ \A i \in 1 .. Len(handed) : handed[i] = Stripped[i]

ReaderInv ==
    ReaderTypes /\ Before /\ During /\ Nothing /\ After /\ AtEnd /\ HandedIsPrefix

\* The rows answered are those parsed, behind the header, and the end is reported
\* only once nothing can come any more.
ParserTypes ==
    /\ phase \in {"header", "ready", "refused"}
    /\ parsed \in Nat
    /\ answers \in Seq(Members)
    /\ collecting \in BOOLEAN /\ over \in BOOLEAN
    /\ start \in Nat
    /\ result.candles \in Seq(Members)

ParsedInHanded == parsed <= Len(handed)
NotReady == phase # "ready" => answers = <<>> /\ ~collecting /\ ~over
AtHeader == phase = "header" => parsed = 0
AnswersAreRows ==
    phase = "ready" =>
        /\ Len(answers) + 1 = parsed
        /\ handed[1] = "header"
        /\ \A i \in 1 .. Len(answers) : answers[i] = handed[i + 1]
OverIsOver == over => Starved /\ (ended \/ failed)

ParserInv ==
    /\ ParserTypes /\ ParsedInHanded /\ NotReady /\ AtHeader /\ AnswersAreRows
    /\ OverIsOver /\ RefusedForItsHeader

\* What read_all has collected so far are candles.
AllGood ==
    /\ start <= Len(answers)
    /\ collecting => \A i \in start + 1 .. Len(answers) : answers[i] = "good"

\* Once the source has failed there is nothing left to parse, and a read_all that is
\* still running was called behind the last row answered.
NothingBehindFailure ==
    failed => Starved /\ (collecting => start = Len(answers))

IInv == ReaderInv /\ ParserInv /\ AllGood /\ NothingBehindFailure /\ Whole

-----------------------------------------------------------------------------
(* Sequences of bytes. *)

\* A read takes some bytes from the front and leaves the others.
LEMMA ReadSplits ==
    ASSUME NEW s \in Seq(Members), NEW n \in 0 .. Len(s)
    PROVE  /\ First(s, n) \in Seq(Members) /\ Len(First(s, n)) = n
           /\ Behind(s, n) \in Seq(Members) /\ Len(Behind(s, n)) = Len(s) - n
           /\ \A i \in 1 .. Len(s) - n : Behind(s, n)[i] = s[n + i]
           /\ First(s, n) \o Behind(s, n) = s
<1>1. Len(s) \in Nat /\ \A i \in 1 .. Len(s) : s[i] \in Members
  BY LenProperties, ElementOfSeq
<1>2. First(s, n) \in Seq(Members) /\ Len(First(s, n)) = n
  BY <1>1, SubSeqProperties DEF First
<1>3. /\ Behind(s, n) \in Seq(Members)
      /\ Len(Behind(s, n)) = IF n + 1 <= Len(s) THEN Len(s) - (n + 1) + 1 ELSE 0
      /\ \A i \in 1 .. Len(s) - (n + 1) + 1 : Behind(s, n)[i] = s[(n + 1) + i - 1]
  <2>1. n + 1 \in Int /\ Len(s) \in Int /\ \A i \in n + 1 .. Len(s) : s[i] \in Members
    BY <1>1
  <2> QED BY <2>1, SubSeqProperties DEF Behind
<1>4. First(s, n) \o Behind(s, n) = SubSeq(s, 1, Len(s))
  <2>1. 1 \in 1 .. Len(s) + 1 /\ n \in 1 - 1 .. Len(s) /\ Len(s) \in n .. Len(s)
    BY <1>1
  <2> QED BY <2>1, ConcatAdjacentSubSeq DEF First, Behind
<1>5. Len(Behind(s, n)) = Len(s) - n
  BY <1>1, <1>3
<1>6. \A i \in 1 .. Len(s) - n : Behind(s, n)[i] = s[n + i]
  BY <1>1, <1>3
<1> QED BY <1>2, <1>3, <1>4, <1>5, <1>6, SubSeqFull

\* Moving bytes from what is to come to what is done.
LEMMA MoveBytes ==
    ASSUME NEW done \in Seq(Members), NEW s \in Seq(Members), NEW rear \in Seq(Members)
    PROVE  \A n \in 0 .. Len(s) :
               (done \o First(s, n)) \o (Behind(s, n) \o rear) = done \o (s \o rear)
<1>1. \A f, g \in Seq(Members) :
          f \o g = s => (done \o f) \o (g \o rear) = done \o (s \o rear)
  <2> TAKE f, g \in Seq(Members)
  <2>1. g \o rear \in Seq(Members)
    BY ConcatProperties
  <2>2. (done \o f) \o (g \o rear) = done \o (f \o (g \o rear))
    BY <2>1, ConcatAssociative
  <2>3. (f \o g) \o rear = f \o (g \o rear)
    BY ConcatAssociative
  <2>4. ASSUME f \o g = s PROVE (f \o g) \o rear = s \o rear
    BY <2>4, Zenon
  <2> QED BY <2>2, <2>3, <2>4
<1> SUFFICES ASSUME NEW n \in 0 .. Len(s)
             PROVE  (done \o First(s, n)) \o (Behind(s, n) \o rear) = done \o (s \o rear)
  OBVIOUS
<1>2. /\ First(s, n) \in Seq(Members) /\ Behind(s, n) \in Seq(Members)
      /\ First(s, n) \o Behind(s, n) = s
  BY ReadSplits
<1> QED BY <1>1, <1>2

LEMMA MarkFacts ==
    /\ Bom \in Seq(Members) /\ Len(Bom) = 3
    /\ Bom[1] = "EF" /\ Bom[2] = "BB" /\ Bom[3] = "BF"
<1>1. Bom \in Seq(Members)
  <2>1. "EF" \in Members /\ "BB" \in Members /\ "BF" \in Members
    BY DEF Members
  <2> QED BY <2>1 DEF Bom
<1>2. Len(Bom) = 3 /\ Bom[1] = "EF" /\ Bom[2] = "BB" /\ Bom[3] = "BF"
  BY DEF Bom
<1> QED BY <1>1, <1>2

LEMMA MarkIsPrefix ==
    ASSUME NEW s \in Seq(Members)
    PROVE  IsPrefix(Bom, s) <=>
               /\ Len(s) >= 3
               /\ s[1] = "EF" /\ s[2] = "BB" /\ s[3] = "BF"
<1>1. /\ Bom \in Seq(Members) /\ Len(Bom) = 3
      /\ Bom[1] = "EF" /\ Bom[2] = "BB" /\ Bom[3] = "BF"
  BY MarkFacts
<1>2. Len(s) \in Nat
  BY LenProperties
<1>3. CASE ~(Len(s) >= 3)
  BY <1>1, <1>2, <1>3 DEF IsPrefix
<1>4. CASE Len(s) >= 3
  <2> DEFINE t == SubSeq(s, 1, 3)
  <2>1. /\ t \in Seq(Members) /\ Len(t) = 3
        /\ t[1] = s[1] /\ t[2] = s[2] /\ t[3] = s[3]
    <3>1. \A i \in 1 .. 3 : s[i] \in Members
      BY <1>2, <1>4, ElementOfSeq
    <3>2. /\ t \in Seq(Members) /\ Len(t) = 3 - 1 + 1
          /\ \A i \in 1 .. 3 - 1 + 1 : t[i] = s[1 + i - 1]
      BY <3>1, SubSeqProperties
    <3> QED BY <3>2
  <2>2. SubSeq(Bom, 1, 3) = Bom
    BY <1>1, SubSeqFull
  <2>3. IsPrefix(Bom, s) <=> Bom = t
    BY <1>1, <1>4, <2>2 DEF IsPrefix
  <2> HIDE DEF t
  <2>4. (Bom[1] = t[1] /\ Bom[2] = t[2] /\ Bom[3] = t[3]) => Bom = t
    <3>1. ASSUME Bom[1] = t[1], Bom[2] = t[2], Bom[3] = t[3] PROVE Bom = t
      <4>1. \A i \in 1 .. Len(Bom) : Bom[i] = t[i]
        BY <1>1, <3>1
      <4> QED BY <1>1, <2>1, <4>1, SeqEqual
    <3> QED BY <3>1
  <2> QED BY <1>1, <1>4, <2>1, <2>3, <2>4
<1> QED BY <1>3, <1>4

\* What the probe keeps is what is left of its bytes without a mark.
LEMMA ProbeStrips ==
    ASSUME NEW p \in Seq(Members), NEW r \in Seq(Members), file = p \o r,
           Len(p) <= Len(Bom), Len(p) = Len(Bom) \/ r = <<>>
    PROVE  Stripped = (IF p = Bom THEN <<>> ELSE p) \o r
<1>1. /\ Bom \in Seq(Members) /\ Len(Bom) = 3
      /\ Bom[1] = "EF" /\ Bom[2] = "BB" /\ Bom[3] = "BF"
  BY MarkFacts
<1>2. /\ file \in Seq(Members) /\ Len(file) = Len(p) + Len(r)
      /\ Len(p) \in Nat /\ Len(r) \in Nat
      /\ \A i \in 1 .. Len(p) : file[i] = p[i]
  <2>1. /\ p \o r \in Seq(Members) /\ Len(p \o r) = Len(p) + Len(r)
        /\ \A i \in 1 .. Len(p) + Len(r) :
              (p \o r)[i] = IF i <= Len(p) THEN p[i] ELSE r[i - Len(p)]
    BY ConcatProperties
  <2>2. Len(p) \in Nat /\ Len(r) \in Nat
    BY LenProperties
  <2> QED BY <2>1, <2>2
<1>3. CASE p = Bom
  <2>0. /\ Len(p) = 3 /\ Len(file) = 3 + Len(r)
        /\ file[1] = "EF" /\ file[2] = "BB" /\ file[3] = "BF"
    <3>1. Len(p) = 3 /\ p[1] = "EF" /\ p[2] = "BB" /\ p[3] = "BF"
      BY <1>1, <1>3
    <3> QED BY <1>2, <3>1
  <2>1. IsPrefix(Bom, file)
    <3>1. file \in Seq(Members) /\ Len(file) >= 3
      BY <1>2, <2>0
    <3>2. \A s \in Seq(Members) :
              Len(s) >= 3 /\ s[1] = "EF" /\ s[2] = "BB" /\ s[3] = "BF" => IsPrefix(Bom, s)
      BY MarkIsPrefix
    <3> QED BY <2>0, <3>1, <3>2
  <2>2. Behind(file, 3) = r
    <3>1. 3 \in 0 .. Len(file) /\ Len(file) - 3 = Len(r)
      BY <1>2, <2>0
    <3>2. /\ Behind(file, 3) \in Seq(Members) /\ Len(Behind(file, 3)) = Len(r)
          /\ \A i \in 1 .. Len(r) : Behind(file, 3)[i] = file[3 + i]
      <4>1. \A s \in Seq(Members) : \A n \in 0 .. Len(s) :
               /\ Behind(s, n) \in Seq(Members) /\ Len(Behind(s, n)) = Len(s) - n
               /\ \A i \in 1 .. Len(s) - n : Behind(s, n)[i] = s[n + i]
        BY ReadSplits
      <4>2. file \in Seq(Members)
        BY <1>2
      <4> QED BY <3>1, <4>1, <4>2
    <3>3. \A i \in 1 .. Len(r) : file[3 + i] = r[i]
      <4> SUFFICES ASSUME NEW i \in 1 .. Len(r) PROVE file[3 + i] = r[i]
        OBVIOUS
      <4>1. 3 + i \in 1 .. Len(p) + Len(r) /\ ~(3 + i <= Len(p)) /\ (3 + i) - Len(p) = i
        BY <1>2, <2>0
      <4> QED BY <4>1, ConcatProperties
    <3> QED BY <3>2, <3>3, SeqEqual
  <2>3. <<>> \o r = r
    BY ConcatEmptySeq
  <2> QED BY <1>1, <1>3, <2>1, <2>2, <2>3 DEF Stripped
<1>4. CASE p # Bom
  <2>1. ~IsPrefix(Bom, file)
    <3> SUFFICES ASSUME IsPrefix(Bom, file) PROVE FALSE
      OBVIOUS
    <3>1. Len(file) >= 3 /\ file[1] = "EF" /\ file[2] = "BB" /\ file[3] = "BF"
      BY <1>2, MarkIsPrefix
    <3>2. Len(p) = 3
      BY <1>1, <1>2, <3>1
    <3>3. p = Bom
      <4>1. \A i \in 1 .. Len(p) : p[i] = Bom[i]
        BY <1>1, <1>2, <3>1, <3>2
      <4> QED BY <1>1, <3>2, <4>1, SeqEqual
    <3> QED BY <1>4, <3>3
  <2> QED BY <1>4, <2>1 DEF Stripped
<1> QED BY <1>3, <1>4

LEMMA StrippedType ==
    ASSUME file \in Files
    PROVE  file \in Seq(Members) /\ Stripped \in Seq(Members) /\ Len(Stripped) \in Nat
<1>1. file \in Seq(Members)
  BY FilesAssumption
<1>2. CASE IsPrefix(Bom, file)
  <2>1. Len(Bom) = 3
    BY DEF Bom
  <2>2. 3 \in 0 .. Len(file)
    BY <1>1, <1>2, MarkIsPrefix, LenProperties
  <2> QED BY <1>1, <1>2, <2>1, <2>2, ReadSplits, LenProperties DEF Stripped
<1>3. CASE ~IsPrefix(Bom, file)
  BY <1>1, <1>3, LenProperties DEF Stripped
<1> QED BY <1>2, <1>3

\* All that is to come moves on together.
LEMMA MoveLast ==
    ASSUME NEW done \in Seq(Members), NEW s \in Seq(Members)
    PROVE  \A n \in 0 .. Len(s) : (done \o First(s, n)) \o Behind(s, n) = done \o s
<1>1. \A f, g \in Seq(Members) : f \o g = s => (done \o f) \o g = done \o s
  <2>1. \A f, g \in Seq(Members) : (done \o f) \o g = done \o (f \o g)
    BY ConcatAssociative
  <2> TAKE f, g \in Seq(Members)
  <2>2. ASSUME f \o g = s PROVE done \o (f \o g) = done \o s
    BY <2>2, Zenon
  <2>3. (done \o f) \o g = done \o (f \o g)
    BY <2>1
  <2> QED BY <2>2, <2>3
<1> SUFFICES ASSUME NEW n \in 0 .. Len(s)
             PROVE  (done \o First(s, n)) \o Behind(s, n) = done \o s
  OBVIOUS
<1>2. /\ First(s, n) \in Seq(Members) /\ Behind(s, n) \in Seq(Members)
      /\ First(s, n) \o Behind(s, n) = s
  BY ReadSplits
<1> QED BY <1>1, <1>2

\* What was handed on is a prefix of what it makes together with the rest.
LEMMA FrontIsPrefix ==
    ASSUME NEW s \in Seq(Members), NEW t \in Seq(Members)
    PROVE  /\ s \o t \in Seq(Members)
           /\ Len(s) <= Len(s \o t)
           /\ \A i \in 1 .. Len(s) : (s \o t)[i] = s[i]
  BY ConcatProperties, LenProperties

-----------------------------------------------------------------------------
(* The adapter. *)

\* What a step of the adapter must leave for the consumer: the same file, and
\* nothing that was handed on taken back.
Growth == file' = file /\ Len(handed) <= Len(handed')

LEMMA SameFile == ASSUME file' = file PROVE Stripped' = Stripped /\ RowsOf' = RowsOf
  BY DEF Stripped, RowsOf

LEMMA AdapterInit == ASSUME ReaderInit PROVE ReaderInv
<1>1. file \in Seq(Members) /\ Len(Stripped) \in Nat
  BY StrippedType DEF ReaderInit
<1>2. <<>> \in Seq(Members) /\ Len(<<>>) = 0
  OBVIOUS
<1>3. ReaderTypes
  BY <1>1, <1>2 DEF ReaderInit, ReaderTypes
<1>4. Before /\ During /\ Nothing /\ After /\ AtEnd
  BY DEF ReaderInit, Before, During, Nothing, After, AtEnd, Probed
<1>5. HandedIsPrefix
  BY <1>1 DEF ReaderInit, HandedIsPrefix
<1> QED BY <1>3, <1>4, <1>5 DEF ReaderInv

\* From what was handed on and what is to come, what was handed on is a prefix.
LEMMA PrefixKept ==
    ASSUME ReaderTypes', After', ~failed', Probed', file' = file
    PROVE  HandedIsPrefix'
<1>1. handed' \in Seq(Members) /\ leftover' \in Seq(Members) /\ rest' \in Seq(Members)
  BY DEF ReaderTypes
<1>2. leftover' \o rest' \in Seq(Members)
  BY <1>1, ConcatProperties
<1>3. Stripped' = handed' \o (leftover' \o rest')
  BY DEF After
<1> DEFINE m == leftover' \o rest'
<1>4. m \in Seq(Members) /\ Stripped' = handed' \o m
  BY <1>2, <1>3
<1> HIDE DEF m
<1>5. /\ Len(handed') <= Len(handed' \o m)
      /\ \A i \in 1 .. Len(handed') : (handed' \o m)[i] = handed'[i]
  BY <1>1, <1>4, FrontIsPrefix
<1> QED BY <1>4, <1>5 DEF HandedIsPrefix

LEMMA CheckStep ==
    ASSUME ReaderInv, ~ended, ~failed, Check
    PROVE  ReaderInv' /\ Growth
<1>1. Stripped' = Stripped
  BY SameFile DEF Check
<1>2. rest = file /\ probe = <<>> /\ handed = <<>> /\ leftover = <<>>
  BY DEF ReaderInv, Before, Nothing, Probed, Check
<1>3. ReaderTypes'
  BY DEF ReaderInv, ReaderTypes, Check
<1>4. Before' /\ Nothing' /\ After' /\ AtEnd'
  BY <1>2 DEF Check, Before, Nothing, After, AtEnd, Probed
<1>5. During'
  <2>1. rest \in Seq(Members)
    BY DEF ReaderInv, ReaderTypes
  <2>2. <<>> \o rest = rest
    BY <2>1, ConcatEmptySeq
  <2>3. Len(<<>>) <= Len(Bom)
    BY MarkFacts
  <2> QED BY <1>2, <2>2, <2>3 DEF Check, During
<1>6. HandedIsPrefix'
  BY <1>1 DEF ReaderInv, HandedIsPrefix, Check
<1>7. Growth
  BY LenProperties DEF Growth, Check, ReaderInv, ReaderTypes
<1> QED BY <1>3, <1>4, <1>5, <1>6, <1>7 DEF ReaderInv

\* How much a read below may answer.
LEMMA UpToFacts ==
    ASSUME NEW s \in Seq(Members), NEW m \in Int, NEW n \in UpTo(m, s)
    PROVE  n \in 0 .. Len(s) /\ n <= m
  BY LenProperties DEF UpTo

LEMMA ProbeReadStep ==
    ASSUME ReaderInv, ~ended, ~failed, ProbeRead
    PROVE  ReaderInv' /\ Growth
<1>1. Stripped' = Stripped
  BY SameFile DEF ProbeRead
<1>2. /\ checked /\ probing /\ file = probe \o rest /\ Len(probe) <= 3
      /\ probe \in Seq(Members) /\ rest \in Seq(Members)
      /\ Len(probe) \in Nat /\ Len(rest) \in Nat
  BY LenProperties, MarkFacts DEF ReaderInv, ReaderTypes, During, ProbeRead
<1>3. PICK n \in UpTo(Len(Bom) - Len(probe), rest) :
          probe' = probe \o First(rest, n) /\ rest' = Behind(rest, n)
  BY DEF ProbeRead
<1>4. n \in 0 .. Len(rest) /\ n <= 3 - Len(probe)
  <2>1. Len(Bom) - Len(probe) \in Int /\ Len(Bom) = 3
    BY <1>2, MarkFacts
  <2> QED BY <1>2, <2>1, UpToFacts
<1>5. /\ First(rest, n) \in Seq(Members) /\ Len(First(rest, n)) = n
      /\ Behind(rest, n) \in Seq(Members)
  BY <1>2, <1>4, ReadSplits
<1>6. probe' \in Seq(Members) /\ Len(probe') = Len(probe) + n
  <2>1. \A f \in Seq(Members) :
            probe \o f \in Seq(Members) /\ Len(probe \o f) = Len(probe) + Len(f)
    BY <1>2, ConcatProperties
  <2> QED BY <1>3, <1>5, <2>1
<1>7. ReaderTypes'
  BY <1>3, <1>5, <1>6 DEF ReaderInv, ReaderTypes, ProbeRead
<1>8. probe' \o rest' = file
  <2>1. (probe \o First(rest, n)) \o Behind(rest, n) = probe \o rest
    BY <1>2, <1>4, MoveLast
  <2> QED BY <1>2, <1>3, <2>1
<1>9. During'
  <2>1. Len(probe') <= Len(Bom)
    BY <1>2, <1>4, <1>6, MarkFacts
  <2> QED BY <1>2, <1>8, <2>1 DEF During, ProbeRead
<1>10. Before' /\ Nothing' /\ After' /\ AtEnd'
  BY <1>2 DEF ReaderInv, ProbeRead, Before, Nothing, After, AtEnd, Probed
<1>11. HandedIsPrefix' /\ Growth
  BY <1>1, LenProperties DEF ReaderInv, ReaderTypes, HandedIsPrefix, Growth, ProbeRead
<1> QED BY <1>7, <1>9, <1>10, <1>11 DEF ReaderInv

LEMMA ProbeOverStep ==
    ASSUME ReaderInv, ~ended, ~failed, ProbeOver
    PROVE  ReaderInv' /\ Growth
<1>1. Stripped' = Stripped
  BY SameFile DEF ProbeOver
<1>2. /\ checked /\ file = probe \o rest /\ Len(probe) <= Len(Bom)
      /\ probe \in Seq(Members) /\ rest \in Seq(Members) /\ handed = <<>>
  BY DEF ReaderInv, ReaderTypes, During, Nothing, Probed, ProbeOver
<1>3. Stripped = leftover' \o rest
  <2>1. Len(probe) = Len(Bom) \/ rest = <<>>
    BY DEF ProbeOver
  <2>2. Stripped = (IF probe = Bom THEN <<>> ELSE probe) \o rest
    BY <1>2, <2>1, ProbeStrips
  <2> QED BY <2>2 DEF ProbeOver
<1>4. leftover' \in Seq(Members)
  <2>1. <<>> \in Seq(Members)
    OBVIOUS
  <2> QED BY <1>2, <2>1 DEF ProbeOver
<1>5. ReaderTypes'
  BY <1>4 DEF ReaderInv, ReaderTypes, ProbeOver
<1>6. Before' /\ During' /\ Nothing' /\ AtEnd'
  BY <1>2 DEF ReaderInv, ProbeOver, Before, During, Nothing, AtEnd, Probed
<1>7. After'
  <2>1. leftover' \o rest \in Seq(Members)
    BY <1>2, <1>4, ConcatProperties
  <2>2. <<>> \o (leftover' \o rest) = leftover' \o rest
    BY <2>1, ConcatEmptySeq
  <2> QED BY <1>1, <1>2, <1>3, <2>2 DEF After, ProbeOver
<1>8. HandedIsPrefix' /\ Growth
  BY <1>1, LenProperties DEF ReaderInv, ReaderTypes, HandedIsPrefix, Growth, ProbeOver
<1> QED BY <1>5, <1>6, <1>7, <1>8 DEF ReaderInv

LEMMA ReadLeftoverStep ==
    ASSUME ReaderInv, ~ended, ~failed, ReadLeftover
    PROVE  ReaderInv' /\ Growth
<1> DEFINE n == IF Len(leftover) < BufLen THEN Len(leftover) ELSE BufLen
<1>1. /\ Probed /\ Stripped = handed \o (leftover \o rest)
      /\ handed \in Seq(Members) /\ leftover \in Seq(Members) /\ rest \in Seq(Members)
      /\ Len(handed) \in Nat /\ Len(leftover) \in Nat
      /\ handed' = handed \o First(leftover, n) /\ leftover' = Behind(leftover, n)
  BY LenProperties DEF ReaderInv, ReaderTypes, After, ReadLeftover
<1>2. n \in 0 .. Len(leftover)
  BY <1>1, BufLenAssumption
<1> HIDE DEF n
<1>3. /\ First(leftover, n) \in Seq(Members) /\ Behind(leftover, n) \in Seq(Members)
      /\ Len(First(leftover, n)) = n
  BY <1>1, <1>2, ReadSplits
<1>4. handed' \in Seq(Members) /\ Len(handed') = Len(handed) + n
  <2>1. \A f \in Seq(Members) :
            handed \o f \in Seq(Members) /\ Len(handed \o f) = Len(handed) + Len(f)
    BY <1>1, ConcatProperties
  <2> QED BY <1>1, <1>3, <2>1
<1>5. ReaderTypes'
  BY <1>1, <1>3, <1>4 DEF ReaderInv, ReaderTypes, ReadLeftover
<1>6. file' = file /\ Stripped' = Stripped /\ rest' = rest
      /\ probing' = probing /\ checked' = checked /\ ended' = ended /\ failed' = failed
  BY SameFile DEF ReadLeftover
<1>7. Probed'
  BY <1>1, <1>6 DEF Probed
<1>8. After'
  <2>1. (handed \o First(leftover, n)) \o (Behind(leftover, n) \o rest)
            = handed \o (leftover \o rest)
    BY <1>1, <1>2, MoveBytes
  <2> QED BY <1>1, <1>6, <2>1 DEF After
<1>9. HandedIsPrefix'
  BY <1>5, <1>6, <1>7, <1>8, PrefixKept
<1>10. Before' /\ During' /\ Nothing' /\ AtEnd'
  BY <1>1, <1>6, <1>7 DEF Before, During, Nothing, AtEnd, Probed
<1>11. Growth
  BY <1>1, <1>2, <1>4, <1>6 DEF Growth
<1> QED BY <1>5, <1>8, <1>9, <1>10, <1>11 DEF ReaderInv

LEMMA ReadInnerStep ==
    ASSUME ReaderInv, ~ended, ~failed, ReadInner
    PROVE  ReaderInv' /\ Growth
<1>1. /\ Probed /\ leftover = <<>> /\ Stripped = handed \o (leftover \o rest)
      /\ handed \in Seq(Members) /\ rest \in Seq(Members)
      /\ Len(handed) \in Nat /\ Len(rest) \in Nat
  BY LenProperties DEF ReaderInv, ReaderTypes, After, ReadInner
<1>2. PICK n \in UpTo(BufLen, rest) :
          handed' = handed \o First(rest, n) /\ rest' = Behind(rest, n)
  BY DEF ReadInner
<1>3. n \in 0 .. Len(rest)
  BY <1>1, BufLenAssumption, UpToFacts
<1>4. /\ First(rest, n) \in Seq(Members) /\ Behind(rest, n) \in Seq(Members)
      /\ Len(First(rest, n)) = n
  BY <1>1, <1>3, ReadSplits
<1>5. handed' \in Seq(Members) /\ Len(handed') = Len(handed) + n
  <2>1. \A f \in Seq(Members) :
            handed \o f \in Seq(Members) /\ Len(handed \o f) = Len(handed) + Len(f)
    BY <1>1, ConcatProperties
  <2> QED BY <1>2, <1>4, <2>1
<1>6. ReaderTypes'
  BY <1>2, <1>4, <1>5 DEF ReaderInv, ReaderTypes, ReadInner
<1>7. file' = file /\ Stripped' = Stripped /\ leftover' = <<>>
      /\ probing' = probing /\ checked' = checked /\ ended' = ended /\ failed' = failed
  BY <1>1, SameFile DEF ReadInner
<1>8. Probed'
  BY <1>1, <1>7 DEF Probed
<1>9. After'
  <2>1. (handed \o First(rest, n)) \o Behind(rest, n) = handed \o rest
    BY <1>1, <1>3, MoveLast
  <2>2. <<>> \o rest = rest
    BY <1>1, ConcatEmptySeq
  <2>3. <<>> \o rest' = rest'
    BY <1>2, <1>4, ConcatEmptySeq
  <2> QED BY <1>1, <1>2, <1>7, <2>1, <2>2, <2>3 DEF After
<1>10. HandedIsPrefix'
  BY <1>6, <1>7, <1>8, <1>9, PrefixKept
<1>11. Before' /\ During' /\ Nothing' /\ AtEnd'
  BY <1>1, <1>7, <1>8 DEF Before, During, Nothing, AtEnd, Probed
<1>12. Growth
  BY <1>1, <1>3, <1>5, <1>7 DEF Growth
<1> QED BY <1>6, <1>9, <1>10, <1>11, <1>12 DEF ReaderInv

\* The end and the errors of the source leave all bytes where they are.
LEMMA NoBytesMove ==
    ASSUME ReaderInv, ~ended, ~failed, ReadEnd \/ ProbeFails \/ ReadFails
    PROVE  ReaderInv' /\ Growth
<1>1. /\ Stripped' = Stripped /\ file' = file /\ rest' = rest /\ probe' = probe
      /\ checked' = checked /\ leftover' = leftover /\ handed' = handed
  BY SameFile DEF ReadEnd, ProbeFails, ReadFails
<1>2. ReaderTypes'
  BY <1>1 DEF ReaderInv, ReaderTypes, ReadEnd, ProbeFails, ReadFails
<1>3. HandedIsPrefix' /\ Growth
  BY <1>1, LenProperties DEF ReaderInv, ReaderTypes, HandedIsPrefix, Growth
<1>4. Before' /\ During' /\ Nothing' /\ After' /\ AtEnd'
  <2>1. CASE ReadEnd
    BY <1>1, <2>1 DEF ReaderInv, Before, During, Nothing, After, AtEnd, Probed, ReadEnd
  <2>2. CASE ProbeFails
    BY <1>1, <2>2 DEF ReaderInv, Before, During, Nothing, After, AtEnd, Probed, ProbeFails
  <2>3. CASE ReadFails
    BY <1>1, <2>3 DEF ReaderInv, Before, During, Nothing, After, AtEnd, Probed, ReadFails
  <2> QED BY <2>1, <2>2, <2>3
<1> QED BY <1>2, <1>3, <1>4 DEF ReaderInv

LEMMA AdapterStep ==
    ASSUME ReaderInv, ~ended, ~failed, Reading \/ Failing
    PROVE  ReaderInv' /\ Growth
  BY CheckStep, ProbeReadStep, ProbeOverStep, ReadLeftoverStep, ReadInnerStep, NoBytesMove
     DEF Reading, Failing

LEMMA AdapterStutters ==
    ASSUME ReaderInv, UNCHANGED readerVars
    PROVE  ReaderInv' /\ Growth
<1>1. /\ Stripped' = Stripped /\ file' = file /\ rest' = rest /\ probe' = probe
      /\ checked' = checked /\ probing' = probing /\ leftover' = leftover
      /\ handed' = handed /\ ended' = ended /\ failed' = failed
  BY SameFile DEF readerVars
<1>2. ReaderTypes' /\ HandedIsPrefix' /\ Growth
  BY <1>1, LenProperties DEF ReaderInv, ReaderTypes, HandedIsPrefix, Growth
<1>3. Before' /\ During' /\ Nothing' /\ After' /\ AtEnd'
  BY <1>1 DEF ReaderInv, Before, During, Nothing, After, AtEnd, Probed
<1> QED BY <1>2, <1>3 DEF ReaderInv

-----------------------------------------------------------------------------
(* The reader of rows. *)

LEMMA InvInit == ASSUME Init PROVE IInv
<1>1. ReaderInv
  BY AdapterInit DEF Init
<1>2. /\ phase = "header" /\ parsed = 0 /\ answers = <<>> /\ ~collecting
      /\ start = 0 /\ result.candles = <<>> /\ ~result.ok /\ ~over /\ handed = <<>>
      /\ collecting \in BOOLEAN /\ over \in BOOLEAN /\ ~failed
  BY DEF Init, ReaderInit, Err
<1>3. <<>> \in Seq(Members) /\ Len(<<>>) = 0
  OBVIOUS
<1>4. ParserTypes
  BY <1>2, <1>3 DEF ParserTypes
<1>5. ParsedInHanded /\ NotReady /\ AtHeader /\ AnswersAreRows /\ OverIsOver
  BY <1>2, <1>3 DEF ParsedInHanded, NotReady, AtHeader, AnswersAreRows, OverIsOver
<1>6. RefusedForItsHeader /\ AllGood /\ NothingBehindFailure /\ Whole
  BY <1>2, <1>3 DEF RefusedForItsHeader, AllGood, NothingBehindFailure, Whole
<1> QED BY <1>1, <1>4, <1>5, <1>6 DEF IInv, ParserInv

\* What the parser knows of its source.
LEMMA Facts ==
    ASSUME IInv
    PROVE  /\ file \in Files /\ Stripped \in Seq(Members) /\ Len(Stripped) \in Nat
           /\ handed \in Seq(Members) /\ Len(handed) \in Nat
           /\ Len(handed) <= Len(Stripped)
           /\ \A i \in 1 .. Len(handed) : handed[i] \in Members /\ handed[i] = Stripped[i]
           /\ answers \in Seq(Members) /\ Len(answers) \in Nat
           /\ parsed \in Nat /\ parsed <= Len(handed) /\ start \in Nat
<1>1. file \in Files /\ handed \in Seq(Members) /\ HandedIsPrefix
  BY DEF IInv, ReaderInv, ReaderTypes
<1>2. Stripped \in Seq(Members) /\ Len(Stripped) \in Nat
  BY <1>1, StrippedType
<1>3. Len(handed) \in Nat /\ \A i \in 1 .. Len(handed) : handed[i] \in Members
  BY <1>1, LenProperties, ElementOfSeq
<1>4. /\ answers \in Seq(Members) /\ parsed \in Nat /\ parsed <= Len(handed)
      /\ start \in Nat
  BY DEF IInv, ParserInv, ParserTypes, ParsedInHanded
<1> QED BY <1>1, <1>2, <1>3, <1>4, LenProperties DEF HandedIsPrefix

\* At the end of the source everything behind a mark was handed on.
LEMMA AllHanded ==
    ASSUME IInv, ended, ~failed
    PROVE  Stripped = handed
<1>1. Probed /\ leftover = <<>> /\ rest = <<>> /\ handed \in Seq(Members)
  BY DEF IInv, ReaderInv, ReaderTypes, Nothing, AtEnd
<1>2. Stripped = handed \o (<<>> \o <<>>)
  BY <1>1 DEF IInv, ReaderInv, After
<1>3. <<>> \o <<>> = <<>>
  OBVIOUS
<1>4. handed \o <<>> = handed
  BY <1>1, ConcatEmptySeq
<1> QED BY <1>2, <1>3, <1>4

\* While the parser waits, growth of what was handed on changes nothing for it.
LEMMA ParserWaits ==
    ASSUME IInv, ReaderInv', Growth, UNCHANGED parserVars,
           ~over \/ (handed' = handed /\ ended' = ended /\ failed' = failed),
           failed => failed'
    PROVE  ParserInv' /\ AllGood'
<1>1. /\ phase' = phase /\ parsed' = parsed /\ answers' = answers
      /\ collecting' = collecting /\ start' = start /\ result' = result /\ over' = over
  BY DEF parserVars
<1>2. Stripped' = Stripped /\ Len(handed) <= Len(handed')
  BY SameFile DEF Growth
<1>3. handed' \in Seq(Members) /\ Len(handed') \in Nat
  BY LenProperties DEF ReaderInv, ReaderTypes
<1>4. \A i \in 1 .. Len(handed) : handed'[i] = handed[i]
  BY <1>2, <1>3, Facts DEF ReaderInv, HandedIsPrefix
<1>5. ParserTypes' /\ NotReady' /\ AtHeader' /\ AllGood'
  BY <1>1 DEF IInv, ParserInv, ParserTypes, NotReady, AtHeader, AllGood
<1>6. ParsedInHanded'
  BY <1>1, <1>2, <1>3, Facts DEF ParsedInHanded
<1>7. AnswersAreRows'
  <2> SUFFICES ASSUME phase = "ready"
               PROVE  /\ Len(answers) + 1 = parsed
                      /\ handed'[1] = "header"
                      /\ \A i \in 1 .. Len(answers) : answers[i] = handed'[i + 1]
    BY <1>1 DEF AnswersAreRows
  <2>1. /\ Len(answers) + 1 = parsed /\ handed[1] = "header"
        /\ \A i \in 1 .. Len(answers) : answers[i] = handed[i + 1]
    BY DEF IInv, ParserInv, AnswersAreRows
  <2>2. 1 \in 1 .. Len(handed) /\ \A i \in 1 .. Len(answers) : i + 1 \in 1 .. Len(handed)
    BY <2>1, Facts
  <2> QED BY <1>4, <2>1, <2>2
<1>8. OverIsOver'
  BY <1>1 DEF IInv, ParserInv, OverIsOver, Starved
<1>9. RefusedForItsHeader'
  BY <1>1, <1>2 DEF IInv, ParserInv, RefusedForItsHeader
<1> QED BY <1>5, <1>6, <1>7, <1>8, <1>9 DEF ParserInv

LEMMA FillStep == ASSUME IInv, Fill PROVE IInv'
<1>1. ~ended /\ ~failed /\ UNCHANGED parserVars /\ failed' = failed
  BY DEF Fill, Reading, Check, ProbeRead, ProbeOver, ReadLeftover, ReadInner, ReadEnd
<1>2. ReaderInv' /\ Growth
  BY <1>1, AdapterStep DEF IInv, Fill
<1>3. ~over
  BY <1>1 DEF IInv, ParserInv, OverIsOver
<1>4. ParserInv' /\ AllGood'
  BY <1>1, <1>2, <1>3, ParserWaits
<1>5. Whole'
  <2>1. /\ RowsOf' = RowsOf /\ result' = result /\ collecting' = collecting
        /\ start' = start
    BY <1>1, <1>2, SameFile DEF Growth, parserVars
  <2> QED BY <1>1, <2>1 DEF IInv, Whole
<1>6. NothingBehindFailure'
  BY <1>1 DEF NothingBehindFailure
<1> QED BY <1>2, <1>4, <1>5, <1>6 DEF IInv

LEMMA StutterStep == ASSUME IInv, UNCHANGED csvVars PROVE IInv'
<1>1. UNCHANGED readerVars /\ UNCHANGED parserVars
  BY DEF csvVars
<1>2. ReaderInv' /\ Growth
  BY <1>1, AdapterStutters DEF IInv
<1>3. handed' = handed /\ ended' = ended /\ failed' = failed
  BY <1>1 DEF readerVars
<1>4. ParserInv' /\ AllGood'
  BY <1>1, <1>2, <1>3, ParserWaits
<1>5. Whole'
  <2>1. /\ RowsOf' = RowsOf /\ result' = result /\ collecting' = collecting
        /\ start' = start
    BY <1>1, <1>2, SameFile DEF Growth, parserVars
  <2> QED BY <1>3, <2>1 DEF IInv, Whole
<1>6. NothingBehindFailure'
  BY <1>1, <1>3 DEF IInv, NothingBehindFailure, Starved, parserVars
<1> QED BY <1>2, <1>4, <1>5, <1>6 DEF IInv

LEMMA HeaderStep == ASSUME IInv, Header PROVE IInv'
<1>1. UNCHANGED readerVars
  BY DEF Header
<1>2. ReaderInv' /\ Growth
  BY <1>1, AdapterStutters DEF IInv
<1>3. /\ handed' = handed /\ ended' = ended /\ failed' = failed
      /\ Stripped' = Stripped /\ RowsOf' = RowsOf
  BY <1>1, SameFile DEF readerVars
<1>4. /\ phase = "header" /\ parsed = 0 /\ answers = <<>> /\ ~collecting /\ ~over
      /\ answers' = answers /\ collecting' = collecting /\ start' = start
      /\ result' = result /\ over' = over /\ ~failed
  BY DEF Header, IInv, ParserInv, AtHeader, NotReady
<1>5. \/ /\ ~Starved /\ handed[1] = "header"
         /\ phase' = "ready" /\ parsed' = 1
      \/ /\ ~Starved /\ handed[1] # "header"
         /\ phase' = "refused" /\ parsed' = 1
      \/ /\ Starved /\ ended
         /\ phase' = "refused" /\ parsed' = 0
  BY <1>4 DEF Header, Line
<1>6. Len(<<>>) = 0
  OBVIOUS
<1>7. ~Starved => 1 \in 1 .. Len(handed) /\ Stripped[1] = handed[1] /\ Len(Stripped) >= 1
  BY <1>4, Facts DEF Starved
<1>8. ParserTypes' /\ NotReady' /\ AtHeader' /\ AllGood' /\ OverIsOver'
  BY <1>4, <1>5, <1>6 DEF IInv, ParserInv, ParserTypes, NotReady, AtHeader, AllGood,
                          OverIsOver
<1>9. ParsedInHanded' /\ AnswersAreRows'
  BY <1>3, <1>4, <1>5, <1>6, <1>7, Facts DEF ParsedInHanded, AnswersAreRows
<1>10. RefusedForItsHeader'
  <2>1. CASE ~Starved
    <3>1. Stripped # <<>>
      BY <1>6, <1>7, <2>1
    <3> QED BY <1>3, <1>5, <1>7, <2>1, <3>1 DEF RefusedForItsHeader
  <2>2. CASE Starved
    <3>1. ended /\ Len(handed) = 0 /\ Stripped = handed
      BY <1>4, <1>5, <2>2, AllHanded DEF Starved
    <3>2. Stripped = <<>>
      BY <3>1, Facts, EmptySeq
    <3> QED BY <1>3, <1>5, <2>2, <3>2 DEF RefusedForItsHeader
  <2> QED BY <2>1, <2>2
<1>11. NothingBehindFailure' /\ Whole'
  BY <1>3, <1>4 DEF IInv, NothingBehindFailure, Whole
<1> QED BY <1>2, <1>8, <1>9, <1>10, <1>11 DEF IInv, ParserInv

LEMMA FailStep == ASSUME IInv, Fail PROVE IInv'
<1>1. /\ Starved /\ ~ended /\ ~failed /\ phase # "refused" /\ ~over
      /\ failed' = TRUE /\ handed' = handed /\ ended' = ended
      /\ phase' = (IF phase = "header" THEN "refused" ELSE phase)
      /\ collecting' = FALSE /\ result' = (IF collecting THEN Err ELSE result)
      /\ parsed' = parsed /\ answers' = answers /\ start' = start /\ over' = over
  BY DEF Fail, Failing, ProbeFails, ReadFails, IInv, ParserInv, OverIsOver
<1>2. ReaderInv' /\ Growth
  BY <1>1, AdapterStep DEF IInv, Fail
<1>3. Stripped' = Stripped
  BY <1>2, SameFile DEF Growth
<1>4. result'.candles \in Seq(Members)
  <2>1. Err.candles = <<>> /\ <<>> \in Seq(Members)
    BY DEF Err
  <2> QED BY <1>1, <2>1 DEF IInv, ParserInv, ParserTypes
<1>5. ParserTypes'
  BY <1>1, <1>4 DEF IInv, ParserInv, ParserTypes
<1>6. ParsedInHanded' /\ NotReady' /\ AtHeader' /\ AnswersAreRows' /\ OverIsOver'
  BY <1>1 DEF IInv, ParserInv, ParserTypes, ParsedInHanded, NotReady, AtHeader,
              AnswersAreRows, OverIsOver
<1>7. RefusedForItsHeader'
  BY <1>1, <1>3 DEF IInv, ParserInv, RefusedForItsHeader
<1>8. AllGood' /\ NothingBehindFailure'
  BY <1>1 DEF IInv, AllGood, NothingBehindFailure, Starved
<1>9. Whole'
  <2>1. RowsOf' = RowsOf /\ ~Err.ok
    BY <1>3 DEF RowsOf, Err
  <2> QED BY <1>1, <2>1 DEF IInv, Whole
<1> QED BY <1>2, <1>5, <1>6, <1>7, <1>8, <1>9 DEF IInv, ParserInv

\* One more row: the line behind those parsed, which is the next of the rows.
LEMMA NextRow ==
    ASSUME IInv, Row
    PROVE  /\ Line \in Members /\ ~over /\ phase = "ready" /\ ~Starved
           /\ handed' = handed /\ phase' = phase /\ parsed' = parsed + 1
           /\ answers' = Append(answers, Line)
           /\ RowsOf \in Seq(Members) /\ Len(answers) < Len(RowsOf)
           /\ Line = RowsOf[Len(answers) + 1]
           /\ Line = handed[Len(answers) + 2]
<1>1. /\ phase = "ready" /\ ~Starved /\ handed' = handed /\ phase' = phase
      /\ parsed' = parsed + 1 /\ answers' = Append(answers, Line)
  BY DEF Row, readerVars
<1>2. Len(answers) + 1 = parsed
  BY <1>1 DEF IInv, ParserInv, AnswersAreRows
<1>3. /\ parsed + 1 \in 1 .. Len(handed) /\ parsed + 1 <= Len(Stripped)
      /\ Len(answers) + 2 = parsed + 1 /\ 1 \in 0 .. Len(Stripped)
  BY <1>1, <1>2, Facts DEF Starved
<1>4. Line \in Members /\ Line = Stripped[parsed + 1]
  BY <1>3, Facts DEF Line
<1>5. /\ RowsOf \in Seq(Members) /\ Len(RowsOf) = Len(Stripped) - 1
      /\ \A i \in 1 .. Len(Stripped) - 1 : RowsOf[i] = Stripped[1 + i]
  BY <1>3, Facts, ReadSplits DEF RowsOf
<1>6. Len(answers) + 1 \in 1 .. Len(Stripped) - 1 /\ 1 + (Len(answers) + 1) = parsed + 1
  BY <1>2, <1>3, Facts
<1>7. RowsOf[Len(answers) + 1] = Stripped[parsed + 1] /\ Len(answers) < Len(RowsOf)
  BY <1>5, <1>6, Facts
<1>8. ~over
  BY <1>1 DEF IInv, ParserInv, OverIsOver
<1> QED BY <1>1, <1>3, <1>4, <1>5, <1>7, <1>8 DEF Line

LEMMA RowStep == ASSUME IInv, Row PROVE IInv'
<1>1. UNCHANGED readerVars
  BY DEF Row
<1>2. ReaderInv' /\ Growth
  BY <1>1, AdapterStutters DEF IInv
<1>3. /\ handed' = handed /\ ended' = ended /\ failed' = failed
      /\ Stripped' = Stripped /\ RowsOf' = RowsOf
  BY <1>1, SameFile DEF readerVars
<1>4. /\ phase' = phase /\ parsed' = parsed + 1 /\ answers' = Append(answers, Line)
      /\ start' = start /\ over' = over /\ ~over /\ phase = "ready" /\ ~Starved
      /\ collecting' = (collecting /\ ~(collecting /\ Line # "good"))
      /\ result' = IF collecting /\ Line # "good" THEN Err ELSE result
  BY NextRow DEF Row
<1>5. /\ answers' \in Seq(Members) /\ Len(answers') = Len(answers) + 1
      /\ \A i \in 1 .. Len(answers) : answers'[i] = answers[i]
      /\ answers'[Len(answers) + 1] = Line
  <2>1. answers \in Seq(Members) /\ Line \in Members
    BY Facts, NextRow
  <2> QED BY <1>4, <2>1, AppendProperties
<1>6. result'.candles \in Seq(Members)
  <2>1. Err.candles = <<>> /\ <<>> \in Seq(Members)
    BY DEF Err
  <2> QED BY <1>4, <2>1 DEF IInv, ParserInv, ParserTypes
<1>7. collecting' \in BOOLEAN
  BY <1>4
<1>8. ParserTypes'
  BY <1>4, <1>5, <1>6, <1>7, Facts DEF IInv, ParserInv, ParserTypes
<1>9. ParsedInHanded' /\ NotReady' /\ AtHeader' /\ OverIsOver'
  BY <1>3, <1>4, Facts DEF Starved, ParsedInHanded, NotReady, AtHeader, OverIsOver
<1>10. AnswersAreRows'
  <2>1. /\ Len(answers) + 1 = parsed /\ handed[1] = "header"
        /\ \A i \in 1 .. Len(answers) : answers[i] = handed[i + 1]
    BY <1>4 DEF IInv, ParserInv, AnswersAreRows
  <2>2. \A i \in 1 .. Len(answers') : answers'[i] = handed[i + 1]
    <3> SUFFICES ASSUME NEW i \in 1 .. Len(answers') PROVE answers'[i] = handed[i + 1]
      OBVIOUS
    <3>1. CASE i \in 1 .. Len(answers)
      BY <1>5, <2>1, <3>1
    <3>2. CASE i = Len(answers) + 1
      <4>1. i + 1 = Len(answers) + 2
        BY <3>2, Facts
      <4> QED BY <1>5, <3>2, <4>1, NextRow
    <3> QED BY <1>5, <3>1, <3>2, Facts
  <2> QED BY <1>3, <1>4, <1>5, <2>1, <2>2 DEF AnswersAreRows
<1>11. RefusedForItsHeader'
  BY <1>3, <1>4 DEF IInv, ParserInv, RefusedForItsHeader
<1>12. AllGood'
  <2>1. start <= Len(answers) /\ start \in Nat /\ Len(answers) \in Nat
    BY Facts DEF IInv, AllGood
  <2>2. ASSUME collecting', NEW i \in start + 1 .. Len(answers') PROVE answers'[i] = "good"
    <3>1. collecting /\ Line = "good"
      BY <1>4, <2>2
    <3>2. CASE i \in start + 1 .. Len(answers)
      BY <1>5, <2>1, <3>1, <3>2 DEF IInv, AllGood
    <3>3. CASE i = Len(answers) + 1
      BY <1>5, <3>1, <3>3
    <3> QED BY <1>5, <2>1, <3>2, <3>3
  <2> QED BY <1>4, <1>5, <2>1, <2>2 DEF AllGood
<1>13. Whole'
  <2>1. ~Err.ok
    BY DEF Err
  <2> QED BY <1>3, <1>4, <2>1 DEF IInv, Whole
<1>14. NothingBehindFailure'
  BY <1>3, <1>4 DEF IInv, NothingBehindFailure
<1> QED BY <1>2, <1>8, <1>9, <1>10, <1>11, <1>12, <1>13, <1>14 DEF IInv, ParserInv

\* Once the rows are at their end and no read has failed, all were answered.
LEMMA AllAnswered ==
    ASSUME IInv, EndOfRows, ~failed
    PROVE  answers = RowsOf
<1>1. phase = "ready" /\ parsed = Len(handed) /\ ended
  BY DEF EndOfRows, Starved
<1>2. Stripped = handed
  BY <1>1, AllHanded
<1>3. /\ Len(answers) + 1 = parsed
      /\ \A i \in 1 .. Len(answers) : answers[i] = handed[i + 1]
  BY <1>1 DEF IInv, ParserInv, AnswersAreRows
<1>4. 1 \in 0 .. Len(Stripped)
  BY <1>1, <1>2, <1>3, Facts
<1>5. /\ RowsOf \in Seq(Members) /\ Len(RowsOf) = Len(Stripped) - 1
      /\ \A i \in 1 .. Len(Stripped) - 1 : RowsOf[i] = Stripped[1 + i]
  BY <1>4, Facts, ReadSplits DEF RowsOf
<1>6. Len(answers) = Len(RowsOf)
  BY <1>1, <1>2, <1>3, <1>5, Facts
<1>7. ASSUME NEW i \in 1 .. Len(answers) PROVE answers[i] = RowsOf[i]
  <2>1. i \in 1 .. Len(Stripped) - 1 /\ i + 1 = 1 + i
    BY <1>5, <1>6
  <2> QED BY <1>2, <1>3, <1>5, <2>1
<1> QED BY <1>5, <1>6, <1>7, Facts, SeqEqual

LEMMA EndStep == ASSUME IInv, EndOfRows PROVE IInv'
<1>1. UNCHANGED readerVars
  BY DEF EndOfRows
<1>2. ReaderInv' /\ Growth
  BY <1>1, AdapterStutters DEF IInv
<1>3. /\ handed' = handed /\ ended' = ended /\ failed' = failed
      /\ Stripped' = Stripped /\ RowsOf' = RowsOf
  BY <1>1, SameFile DEF readerVars
<1>4. /\ phase = "ready" /\ Starved /\ (ended \/ failed) /\ over' = TRUE
      /\ collecting' = FALSE /\ result' = (IF collecting THEN Ok(Collected) ELSE result)
      /\ phase' = phase /\ parsed' = parsed /\ answers' = answers /\ start' = start
  BY DEF EndOfRows
<1>5. start \in 0 .. Len(answers)
  BY Facts DEF IInv, AllGood
<1>6. /\ Collected \in Seq(Members) /\ Len(Collected) = Len(answers) - start
      /\ \A i \in 1 .. Len(answers) - start : Collected[i] = answers[start + i]
  BY <1>5, Facts, ReadSplits DEF Collected
<1>7. Ok(Collected).candles = Collected
  BY DEF Ok
<1>8. ParserTypes'
  BY <1>4, <1>6, <1>7 DEF IInv, ParserInv, ParserTypes
<1>9. ParsedInHanded' /\ NotReady' /\ AtHeader' /\ AnswersAreRows' /\ OverIsOver'
  BY <1>3, <1>4 DEF IInv, ParserInv, ParsedInHanded, NotReady, AtHeader, AnswersAreRows,
                    OverIsOver, Starved
<1>10. RefusedForItsHeader'
  BY <1>3, <1>4 DEF IInv, ParserInv, RefusedForItsHeader
<1>11. AllGood'
  BY <1>4 DEF IInv, AllGood
<1>12. Whole'
  <2>1. CASE ~collecting
    BY <1>3, <1>4, <2>1 DEF IInv, Whole
  <2>2. CASE collecting /\ failed
    <3>1. Len(Collected) = 0
      BY <1>6, <2>2, Facts DEF IInv, NothingBehindFailure
    <3>2. Collected = <<>>
      BY <1>6, <3>1, EmptySeq
    <3> QED BY <1>3, <1>4, <1>7, <2>2, <3>2 DEF Whole
  <2>3. CASE collecting /\ ~failed
    <3>1. answers = RowsOf
      BY <2>3, AllAnswered
    <3>2. result'.candles = Collected
      BY <1>4, <1>7, <2>3
    <3>3. Collected = Behind(RowsOf, start)
      BY <3>1 DEF Collected
    <3>4. ASSUME NEW n \in DOMAIN Collected PROVE Collected[n] = "good"
      <4>1. n \in 1 .. Len(answers) - start
        BY <1>6, LenProperties
      <4>2. start + n \in start + 1 .. Len(answers)
        BY <1>5, <4>1, Facts
      <4> QED BY <1>6, <2>3, <4>1, <4>2 DEF IInv, AllGood
    <3> QED BY <1>3, <1>4, <3>2, <3>3, <3>4 DEF Whole
  <2> QED BY <2>1, <2>2, <2>3
<1>13. NothingBehindFailure'
  BY <1>3, <1>4 DEF IInv, NothingBehindFailure, Starved
<1> QED BY <1>2, <1>8, <1>9, <1>10, <1>11, <1>12, <1>13 DEF IInv, ParserInv

LEMMA ReadAllStep == ASSUME IInv, ReadAll PROVE IInv'
<1>1. UNCHANGED readerVars
  BY DEF ReadAll
<1>2. ReaderInv' /\ Growth
  BY <1>1, AdapterStutters DEF IInv
<1>3. /\ handed' = handed /\ ended' = ended /\ failed' = failed
      /\ Stripped' = Stripped /\ RowsOf' = RowsOf
  BY <1>1, SameFile DEF readerVars
<1>4. /\ phase = "ready" /\ collecting' = TRUE /\ start' = Len(answers)
      /\ phase' = phase /\ parsed' = parsed /\ answers' = answers
      /\ result' = result /\ over' = over
  BY DEF ReadAll
<1>5. ParserTypes'
  BY <1>4, Facts DEF IInv, ParserInv, ParserTypes
<1>6. ParsedInHanded' /\ NotReady' /\ AtHeader' /\ AnswersAreRows' /\ OverIsOver'
  BY <1>3, <1>4 DEF IInv, ParserInv, ParsedInHanded, NotReady, AtHeader, AnswersAreRows,
                    OverIsOver, Starved
<1>7. RefusedForItsHeader'
  BY <1>3, <1>4 DEF IInv, ParserInv, RefusedForItsHeader
<1>8. AllGood'
  BY <1>4, Facts DEF AllGood
<1>9. NothingBehindFailure' /\ Whole'
  BY <1>3, <1>4 DEF IInv, NothingBehindFailure, Starved, Whole
<1> QED BY <1>2, <1>5, <1>6, <1>7, <1>8, <1>9 DEF IInv, ParserInv

-----------------------------------------------------------------------------
(* The theorems. *)

LEMMA InvNext == IInv /\ [Next]_csvVars => IInv'
  BY FillStep, HeaderStep, FailStep, RowStep, EndStep, ReadAllStep, StutterStep DEF Next

\* Whatever the files, the buffer and the reads: every byte behind a mark is handed
\* on, kept or to come, and the answers are the lines parsed behind the header.
THEOREM ReaderInvariant == Spec => []IInv
<1>1. Init => IInv
  BY InvInit
<1> QED BY <1>1, InvNext, PTL DEF Spec

\* A file is refused for its header only if its header is wrong.
THEOREM ReaderRefusesForItsHeader == Spec => []RefusedForItsHeader
<1>1. IInv => RefusedForItsHeader
  BY DEF IInv, ParserInv
<1> QED BY <1>1, ReaderInvariant, PTL

\* read_all returns every row not taken before, or an error, also when the source
\* fails in the middle of them; only behind such a failure does it find none.
THEOREM ReadAllIsWhole == Spec => []Whole
<1>1. IInv => Whole
  BY DEF IInv
<1> QED BY <1>1, ReaderInvariant, PTL

LEMMA SourceStep == IInv /\ [Next]_csvVars => [Source!Next]_(Source!sourceVars)
<1> SUFFICES ASSUME IInv, [Next]_csvVars
             PROVE  Source!Next \/ UNCHANGED Source!sourceVars
  OBVIOUS
<1>1. CASE Fill
  <2>1. file' = file /\ failed' = failed /\ answers' = answers /\ over' = over
    BY <1>1 DEF Fill, Reading, Check, ProbeRead, ProbeOver, ReadLeftover, ReadInner,
                ReadEnd, parserVars
  <2> QED BY <2>1, SameFile DEF Source!sourceVars
<1>2. CASE Header \/ ReadAll \/ UNCHANGED csvVars
  <2>1. file' = file /\ failed' = failed /\ answers' = answers /\ over' = over
    BY <1>2 DEF Header, ReadAll, csvVars, readerVars, parserVars
  <2> QED BY <2>1, SameFile DEF Source!sourceVars
<1>3. CASE Fail
  <2>1. file' = file /\ failed' = TRUE /\ answers' = answers /\ over' = over
    BY <1>3 DEF Fail, Failing, ProbeFails, ReadFails
  <2> QED BY <2>1, SameFile DEF Source!Next, Source!Fail
<1>4. CASE Row
  <2>1. file' = file /\ failed' = failed /\ over' = over
    BY <1>4 DEF Row, readerVars
  <2>2. /\ ~over /\ Len(answers) < Len(RowsOf)
        /\ answers' = Append(answers, RowsOf[Len(answers) + 1])
    <3>1. answers' = Append(answers, Line) /\ Line = RowsOf[Len(answers) + 1]
      BY <1>4, NextRow
    <3>2. ~over /\ Len(answers) < Len(RowsOf)
      BY <1>4, NextRow
    <3> QED BY <3>1, <3>2
  <2> QED BY <2>1, <2>2, SameFile DEF Source!Next, Source!Answer
<1>5. CASE EndOfRows
  <2>1. file' = file /\ failed' = failed /\ answers' = answers /\ over' = TRUE
    BY <1>5 DEF EndOfRows, readerVars
  <2>2. answers = RowsOf \/ failed
    BY <1>5, AllAnswered
  <2> QED BY <2>1, <2>2, SameFile DEF Source!Next, Source!End
<1> QED BY <1>1, <1>2, <1>3, <1>4, <1>5 DEF Next

\* The reader implements the source of rows: each is answered once, in the order of
\* the file, and the end is not reported before them.
THEOREM ReaderKeepsSource == Spec => KeepsSource
<1>1. Init => Source!Init
  BY DEF Init, ReaderInit, Source!Init
<1> QED BY <1>1, ReaderInvariant, SourceStep, PTL DEF Spec, KeepsSource, Source!Spec

=============================================================================

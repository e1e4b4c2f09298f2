--------------------------- MODULE LabelFormat_proofs ---------------------------
(* Theorems about LabelFormat, for barcodes of every length and every size of  *)
(* the three buffers the assumption allows.                                    *)
EXTENDS LabelFormat, FiniteSetTheorems, SequenceTheorems, TLAPS

LEMMA FormatConstants ==
  /\ RawBuffer \in Nat /\ RawBuffer > 0 /\ PartBuffer \in Nat /\ PartBuffer > 0
  /\ LabelBuffer \in Nat /\ LabelBuffer > 0 /\ DateDigits \in Nat
  /\ \A s \in SerialDigits : s \in Nat /\ PartBuffer - 1 + DateDigits + 4 + s >= LabelBuffer - 1
  /\ MaxKeys \in Nat
BY FormatAssumption

-----------------------------------------------------------------------------
(* Text in buffers                                                            *)

Printable == Characters \cup {"d", "s", "n"}

(* A text that fits its buffer is kept whole, another is cut at the end.      *)
LEMMA CutKeeps ==
  ASSUME NEW S, NEW text \in Seq(S), NEW n \in Nat
  PROVE  /\ Cut(text, n) \in Seq(S)
         /\ Len(Cut(text, n)) = Shorter(Len(text), n)
         /\ \A i \in 1 .. Shorter(Len(text), n) : Cut(text, n)[i] = text[i]
         /\ Len(text) <= n => Cut(text, n) = text
  <1> DEFINE m == Shorter(Len(text), n)
  <1>1. Len(text) \in Nat
    BY LenProperties
  <1>2. m \in Nat /\ m <= Len(text) /\ m <= n /\ (Len(text) <= n => m = Len(text))
    BY <1>1 DEF Shorter
  <1>3. Cut(text, n) = SubSeq(text, 1, m)
    BY DEF Cut
  <1> HIDE DEF m
  <1>4. \A i \in 1 .. m : text[i] \in S
    BY <1>1, <1>2, ElementOfSeq
  <1>5. /\ SubSeq(text, 1, m) \in Seq(S)
        /\ Len(SubSeq(text, 1, m)) = m
        /\ \A i \in 1 .. m : SubSeq(text, 1, m)[i] = text[i]
    <2>1. 1 \in Int /\ m \in Int /\ m - 1 + 1 = m
      BY <1>2
    <2>2. /\ SubSeq(text, 1, m) \in Seq(S)
          /\ Len(SubSeq(text, 1, m)) = IF 1 <= m THEN m - 1 + 1 ELSE 0
          /\ \A i \in 1 .. m - 1 + 1 : SubSeq(text, 1, m)[i] = text[1 + i - 1]
      BY <1>4, <2>1, SubSeqProperties
    <2> QED BY <1>2, <2>1, <2>2
  <1>6. Len(text) <= n => SubSeq(text, 1, m) = text
    BY <1>2, SubSeqFull
  <1> QED BY <1>3, <1>5, <1>6 DEF m

LEMMA RepeatText ==
  ASSUME NEW c \in Printable, NEW n \in Nat
  PROVE  Repeat(c, n) \in Seq(Printable) /\ Len(Repeat(c, n)) = n
  <1>1. Repeat(c, n) \in [1 .. n -> Printable]
    BY DEF Repeat
  <1> QED BY <1>1

LEMMA CountIsNatural ==
  ASSUME NEW S, NEW text \in Seq(S), NEW c
  PROVE  /\ Cardinality(Occurrences(c, text)) \in Nat
         /\ Occurrences(c, text) = {} => Cardinality(Occurrences(c, text)) = 0
         /\ Occurrences(c, text) \subseteq 1 .. Len(text)
  <1>1. Len(text) \in Nat /\ Occurrences(c, text) \subseteq 1 .. Len(text)
    BY LenProperties DEF Occurrences
  <1>2. IsFiniteSet(1 .. Len(text))
    BY <1>1, FS_Interval
  <1>3. IsFiniteSet(Occurrences(c, text))
    BY <1>1, <1>2, FS_Subset
  <1> QED BY <1>1, <1>3, FS_CardinalityType, FS_EmptySet

-----------------------------------------------------------------------------
(* The fields of a barcode                                                    *)

(* Between two delimiters, or at an end, there is an empty segment exactly    *)
(* where two edges are neighbours.                                            *)
Edges(text) == Occurrences(Delimiter, text) \cup {0, Len(text) + 1}

LEMMA EmptySegment ==
  ASSUME NEW text \in Seq(Characters)
  PROVE  << >> \in Segments(text) <=> \E a \in Edges(text) : a + 1 \in Edges(text)
  <1> DEFINE edges == Edges(text)
             pairs == {e \in edges \X edges : e[1] < e[2] /\ \A i \in e[1] + 1 .. e[2] - 1 : i \notin edges}
  <1>1. Len(text) \in Nat /\ edges \subseteq 0 .. Len(text) + 1
    BY CountIsNatural, LenProperties DEF Edges
  <1>2. Segments(text) = {SubSeq(text, e[1] + 1, e[2] - 1) : e \in pairs}
    BY DEF Segments, Edges
  <1> HIDE DEF edges
  <1>3. ASSUME NEW a \in edges, a + 1 \in edges
        PROVE  << >> \in Segments(text)
    <2>1. <<a, a + 1>> \in pairs
      BY <1>1, <1>3
    <2>2. a + 1 \in Int /\ (a + 1) - 1 \in Int /\ (a + 1) - 1 < a + 1
      BY <1>1
    <2>3. SubSeq(text, a + 1, (a + 1) - 1) = << >>
      BY <2>2, SubSeqEmpty
    <2> DEFINE e == <<a, a + 1>>
    <2>4. e \in pairs /\ SubSeq(text, e[1] + 1, e[2] - 1) = << >>
      BY <2>1, <2>3
    <2> HIDE DEF pairs, e
    <2> QED BY <1>2, <2>4
  <1>4. ASSUME << >> \in Segments(text)
        PROVE  \E a \in edges : a + 1 \in edges
    <2>1. PICK e \in pairs : SubSeq(text, e[1] + 1, e[2] - 1) = << >>
      BY <1>2, <1>4
    <2>2. e[1] \in edges /\ e[2] \in edges /\ e[1] < e[2]
      OBVIOUS
    <2> DEFINE a == e[1]
               b == e[2]
    <2>3. /\ a \in edges /\ b \in edges /\ a < b /\ a \in 0 .. Len(text) + 1 /\ b \in 0 .. Len(text) + 1
          /\ SubSeq(text, a + 1, b - 1) = << >>
      BY <1>1, <2>1, <2>2
    <2> HIDE DEF a, b
    <2>4. CASE b = a + 1
      BY <2>3, <2>4
    <2>5. CASE b # a + 1
      <3>1. a + 1 \in Int /\ b - 1 \in Int /\ a + 1 <= b - 1 /\ b - 1 <= Len(text) /\ 1 <= a + 1
        BY <1>1, <2>3, <2>5
      <3>2. \A i \in a + 1 .. b - 1 : text[i] \in Characters
        BY <1>1, <3>1, ElementOfSeq
      <3>3. Len(SubSeq(text, a + 1, b - 1)) = (b - 1) - (a + 1) + 1
        BY <3>1, <3>2, SubSeqProperties
      <3>4. Len(<< >>) = 0
        OBVIOUS
      <3>5. FALSE
        BY <2>3, <3>1, <3>3, <3>4
      <3> QED BY <3>5
    <2> QED BY <2>4, <2>5
  <1> QED BY <1>3, <1>4 DEF edges

(* validate_raw_format() accepts exactly the barcodes with four fields none   *)
(* of which is empty, if they fit its buffer.                                 *)
LEMMA FourFields ==
  ASSUME NEW text \in Seq(Characters), Len(text) < RawBuffer
  PROVE  ValidRawFormat(text) <=> FieldCount(text) = 4 /\ << >> \notin Segments(text)
  <1> DEFINE n == Len(text)
             count == Cardinality(Occurrences(Delimiter, text))
  <1>1. n \in Nat /\ DOMAIN text = 1 .. n
    BY LenProperties
  <1>2. /\ count \in Nat
        /\ Occurrences(Delimiter, text) = {} => count = 0
    BY CountIsNatural
  <1>3. \A i : i \in Edges(text) <=> i = 0 \/ i = n + 1 \/ (i \in 1 .. n /\ text[i] = Delimiter)
    BY <1>1 DEF Edges, Occurrences
  <1>4. FieldCount(text) = 4 <=> count = EXPECTED_SEGMENT_COUNT - 1
    BY <1>2 DEF FieldCount, EXPECTED_SEGMENT_COUNT
  <1>5. count = EXPECTED_SEGMENT_COUNT - 1 => n > 0
    <2>1. n = 0 => Occurrences(Delimiter, text) = {}
      BY <1>1 DEF Occurrences
    <2> QED BY <1>1, <1>2, <2>1 DEF EXPECTED_SEGMENT_COUNT
  <1>6. n > 0 => text # << >>
    OBVIOUS
  <1>7. ASSUME n > 0
        PROVE  (\E a \in Edges(text) : a + 1 \in Edges(text)) <=>
                  \/ text[1] = Delimiter \/ text[n] = Delimiter
                  \/ \E i \in 2 .. n : text[i - 1] = Delimiter /\ text[i] = Delimiter
    <2>1. ASSUME NEW a \in Edges(text), a + 1 \in Edges(text)
          PROVE  \/ text[1] = Delimiter \/ text[n] = Delimiter
                 \/ \E i \in 2 .. n : text[i - 1] = Delimiter /\ text[i] = Delimiter
      <3>1. CASE a = 0
        BY <1>1, <1>3, <1>7, <2>1, <3>1
      <3>2. CASE a = n
        BY <1>1, <1>3, <1>7, <2>1, <3>2
      <3>3. CASE a # 0 /\ a # n
        <4>1. a \in 1 .. n - 1 /\ text[a] = Delimiter /\ text[a + 1] = Delimiter
          BY <1>1, <1>3, <2>1, <3>3
        <4>2. a + 1 \in 2 .. n /\ (a + 1) - 1 = a
          BY <1>1, <4>1
        <4> QED BY <4>1, <4>2
      <3> QED BY <3>1, <3>2, <3>3
    <2>2. ASSUME text[1] = Delimiter PROVE \E a \in Edges(text) : a + 1 \in Edges(text)
      <3>1. 0 \in Edges(text) /\ 0 + 1 \in Edges(text)
        BY <1>1, <1>3, <1>7, <2>2
      <3> QED BY <3>1
    <2>3. ASSUME text[n] = Delimiter PROVE \E a \in Edges(text) : a + 1 \in Edges(text)
      <3>1. n \in Edges(text) /\ n + 1 \in Edges(text)
        BY <1>1, <1>3, <1>7, <2>3
      <3> QED BY <3>1
    <2>4. ASSUME NEW i \in 2 .. n, text[i - 1] = Delimiter, text[i] = Delimiter
          PROVE  \E a \in Edges(text) : a + 1 \in Edges(text)
      <3>1. i - 1 \in Edges(text) /\ (i - 1) + 1 \in Edges(text)
        BY <1>1, <1>3, <2>4
      <3> QED BY <3>1
    <2> QED BY <2>1, <2>2, <2>3, <2>4
  <1>8. ValidRawFormat(text) <=>
          /\ text # << >> /\ text[1] # Delimiter /\ text[n] # Delimiter
          /\ \A i \in 2 .. n : ~(text[i - 1] = Delimiter /\ text[i] = Delimiter)
          /\ count = EXPECTED_SEGMENT_COUNT - 1
    BY DEF ValidRawFormat
  <1> HIDE DEF n, count
  <1> QED BY <1>4, <1>5, <1>6, <1>7, <1>8, EmptySegment

-----------------------------------------------------------------------------
(* The part number                                                            *)

(* n characters go before the first delimiter, or before the end.             *)
IsPart(text, n) ==
  /\ n \in 0 .. Len(text)
  /\ \A i \in 1 .. n : text[i] # Delimiter
  /\ n = Len(text) \/ text[n + 1] = Delimiter

LEMMA OnePart ==
  ASSUME NEW text \in Seq(Characters), NEW m, IsPart(text, m), NEW n, IsPart(text, n)
  PROVE  m = n
  <1>1. Len(text) \in Nat
    BY LenProperties
  <1>2. m < n => m + 1 \in 1 .. n
    BY <1>1 DEF IsPart
  <1>3. n < m => n + 1 \in 1 .. m
    BY <1>1 DEF IsPart
  <1> QED BY <1>1, <1>2, <1>3 DEF IsPart

LEMMA TheLength ==
  ASSUME NEW text \in Seq(Characters), NEW n, IsPart(text, n)
  PROVE  n = CHOOSE m \in 0 .. Len(text) :
               /\ \A i \in 1 .. m : text[i] # Delimiter
               /\ m = Len(text) \/ text[m + 1] = Delimiter
  <1> DEFINE Q(m) == /\ \A i \in 1 .. m : text[i] # Delimiter
                     /\ m = Len(text) \/ text[m + 1] = Delimiter
             c == CHOOSE m \in 0 .. Len(text) : Q(m)
  <1>1. \E m \in 0 .. Len(text) : Q(m)
    BY DEF IsPart
  <1>2. c \in 0 .. Len(text) /\ Q(c)
    BY <1>1, Zenon
  <1>3. IsPart(text, c)
    BY <1>2 DEF IsPart
  <1> HIDE DEF c
  <1>4. n = c
    BY <1>3, OnePart
  <1> QED BY <1>4 DEF c

-----------------------------------------------------------------------------
(* The inductive invariant                                                    *)

(* The verdict on the format is the one of the barcode that is keyed in, and  *)
(* an accepted label is whole.  That the text has a part number to find is    *)
(* shown character by character, as it is keyed in.                           *)
FormatInv ==
  /\ keyed \in Seq(Characters) /\ Len(keyed) <= MaxKeys
  /\ \E n \in 0 .. Len(keyed) : IsPart(keyed, n)
  /\ serial_digits \in SerialDigits
  /\ outcome \in {"none", "format", "clock", "label", "accepted"}
  /\ outcome # "none" => (outcome = "format" <=> ~ValidRawFormat(barcode_data))
  /\ extracted_data \in Seq(Characters) /\ Len(extracted_data) <= PartBuffer - 1
  /\ Len(final_qr) <= LabelBuffer - 1
  /\ LabelCarriesWholePart

LEMMA BarcodeData ==
  ASSUME keyed \in Seq(Characters)
  PROVE  /\ barcode_data \in Seq(Characters)
         /\ Len(barcode_data) <= Len(keyed) /\ Len(barcode_data) \in Nat
         /\ \A i \in 1 .. Len(barcode_data) : barcode_data[i] = keyed[i]
         /\ Len(keyed) < RawBuffer => barcode_data = keyed
  <1> DEFINE n == RawBuffer - 1
  <1>1. n \in Nat /\ Len(keyed) \in Nat
    BY FormatConstants, LenProperties
  <1>2. Len(keyed) < RawBuffer => Len(keyed) <= n
    BY <1>1, FormatConstants
  <1>3. barcode_data = Cut(keyed, n)
    BY DEF barcode_data
  <1> HIDE DEF n
  <1>4. Shorter(Len(keyed), n) <= Len(keyed) /\ Shorter(Len(keyed), n) \in Nat
    BY <1>1 DEF Shorter
  <1> QED BY <1>1, <1>2, <1>3, <1>4, CutKeeps

(* data_extract() finds the whole part number, or as much of it as fills the  *)
(* buffer, even if the barcode was cut.                                       *)
LEMMA ExtractedPart ==
  ASSUME FormatInv, ValidRawFormat(barcode_data)
  PROVE  LET part == DataExtract(barcode_data)
         IN  /\ part \in Seq(Characters) /\ Len(part) <= PartBuffer - 1
             /\ Len(part) = PartBuffer - 1 \/ part = PartNumber(keyed)
  <1> DEFINE data == barcode_data
  <1>1. keyed \in Seq(Characters) /\ Len(keyed) \in Nat
    BY LenProperties DEF FormatInv
  <1>2. PICK n \in 0 .. Len(keyed) : IsPart(keyed, n)
    BY DEF FormatInv
  <1>3. /\ data \in Seq(Characters) /\ Len(data) <= Len(keyed) /\ Len(data) \in Nat
        /\ \A i \in 1 .. Len(data) : data[i] = keyed[i]
    BY <1>1, BarcodeData
  <1>4. PICK d \in 1 .. Len(data) : data[d] = Delimiter
    <2>1. Cardinality(Occurrences(Delimiter, data)) # 0
      BY DEF ValidRawFormat, EXPECTED_SEGMENT_COUNT
    <2>2. Occurrences(Delimiter, data) # {} /\ Occurrences(Delimiter, data) \subseteq 1 .. Len(data)
      BY <1>3, <2>1, CountIsNatural
    <2> QED BY <2>2 DEF Occurrences
  <1> HIDE DEF data
  <1>5. n < d /\ n < Len(data)
    <2>1. keyed[d] = Delimiter
      BY <1>3, <1>4
    <2>2. ~(d \in 1 .. n)
      BY <1>2, <2>1 DEF IsPart
    <2> QED BY <1>2, <1>3, <1>4, <2>2
  <1>6. IsPart(data, n)
    <2>1. \A i \in 1 .. n : data[i] # Delimiter
      BY <1>2, <1>3, <1>5 DEF IsPart
    <2>2. n + 1 \in 1 .. Len(data) /\ n # Len(keyed)
      BY <1>2, <1>3, <1>5
    <2>3. data[n + 1] = Delimiter
      BY <1>2, <1>3, <2>2 DEF IsPart
    <2>4. n \in 0 .. Len(data)
      BY <1>2, <1>3, <1>5
    <2> QED BY <2>1, <2>3, <2>4 DEF IsPart
  <1> DEFINE k == Shorter(n, PartBuffer - 1)
             part == Cut(data, k)
  <1>7. DataExtract(data) = part
    BY <1>3, <1>6, TheLength DEF DataExtract
  <1>8. PartNumber(keyed) = SubSeq(keyed, 1, n)
    BY <1>1, <1>2, TheLength DEF PartNumber
  <1>9. /\ k \in Nat /\ k <= Len(data) /\ k <= PartBuffer - 1 /\ (k = PartBuffer - 1 \/ k = n)
    BY <1>2, <1>3, <1>5, FormatConstants DEF Shorter
  <1> HIDE DEF k
  <1>10. Shorter(Len(data), k) = k
    BY <1>3, <1>9 DEF Shorter
  <1>11. part \in Seq(Characters) /\ Len(part) = k /\ \A i \in 1 .. k : part[i] = data[i]
    BY <1>3, <1>9, <1>10, CutKeeps
  <1> HIDE DEF part
  <1>12. ASSUME k = n PROVE part = PartNumber(keyed)
    <2>1. \A i \in 1 .. n : keyed[i] \in Characters
      BY <1>1, <1>2, ElementOfSeq
    <2>2. n \in Nat /\ 1 \in Int /\ n \in Int /\ n - 1 + 1 = n
      BY <1>2
    <2>3. /\ SubSeq(keyed, 1, n) \in Seq(Characters)
          /\ Len(SubSeq(keyed, 1, n)) = IF 1 <= n THEN n - 1 + 1 ELSE 0
          /\ \A i \in 1 .. n - 1 + 1 : SubSeq(keyed, 1, n)[i] = keyed[1 + i - 1]
      BY <2>1, <2>2, SubSeqProperties
    <2>4. Len(SubSeq(keyed, 1, n)) = n /\ \A i \in 1 .. n : SubSeq(keyed, 1, n)[i] = keyed[i]
      BY <2>2, <2>3
    <2>5. \A i \in 1 .. n : part[i] = keyed[i]
      BY <1>3, <1>5, <1>11, <1>12
    <2> QED BY <1>8, <1>11, <1>12, <2>3, <2>4, <2>5, SeqEqual
  <1> QED BY <1>7, <1>9, <1>11, <1>12 DEF data

LEMMA LabelLength ==
  ASSUME NEW part \in Seq(Characters), serial_digits \in SerialDigits
  PROVE  /\ LabelText(part) \in Seq(Printable)
         /\ Len(LabelText(part)) = Len(part) + DateDigits + 4 + serial_digits
         /\ Len(LabelText(part)) \in Nat
  <1> DEFINE date == Repeat("d", DateDigits)
             serial == Repeat("n", serial_digits)
  <1>1. /\ date \in Seq(Printable) /\ Len(date) = DateDigits
        /\ serial \in Seq(Printable) /\ Len(serial) = serial_digits
        /\ DateDigits \in Nat /\ serial_digits \in Nat
    BY RepeatText, FormatConstants DEF Printable
  <1>2. /\ <<"/">> \in Seq(Printable) /\ Len(<<"/">>) = 1
        /\ <<"/", "s", "/">> \in Seq(Printable) /\ Len(<<"/", "s", "/">>) = 3
    BY DEF Printable, Characters
  <1>3. part \in Seq(Printable) /\ Len(part) \in Nat
    BY SeqMonotonic, LenProperties DEF Printable
  <1> HIDE DEF date, serial
  <1> DEFINE one == part \o <<"/">>
             two == one \o date
             three == two \o <<"/", "s", "/">>
  <1>4. one \in Seq(Printable) /\ Len(one) = Len(part) + 1
    BY <1>2, <1>3, ConcatProperties
  <1> HIDE DEF one
  <1>5. two \in Seq(Printable) /\ Len(two) = Len(one) + DateDigits
    BY <1>1, <1>4, ConcatProperties
  <1> HIDE DEF two
  <1>6. three \in Seq(Printable) /\ Len(three) = Len(two) + 3
    BY <1>2, <1>5, ConcatProperties
  <1> HIDE DEF three
  <1>7. three \o serial \in Seq(Printable) /\ Len(three \o serial) = Len(three) + serial_digits
    BY <1>1, <1>6, ConcatProperties
  <1>8. LabelText(part) = three \o serial
    BY DEF LabelText, one, two, three, date, serial
  <1> QED BY <1>1, <1>3, <1>4, <1>5, <1>6, <1>7, <1>8

(* What validate_final_qr() lets pass was not cut, neither was its part.      *)
LEMMA AcceptedIsWhole ==
  ASSUME NEW part \in Seq(Characters), serial_digits \in SerialDigits
  PROVE  /\ Len(GenerateQr(part)) <= LabelBuffer - 1
         /\ ValidFinalQr(GenerateQr(part)) =>
              GenerateQr(part) = LabelText(part) /\ Len(part) # PartBuffer - 1
  <1> DEFINE label == LabelText(part)
             n == LabelBuffer - 1
  <1>1. /\ label \in Seq(Printable) /\ Len(label) \in Nat
        /\ Len(label) = Len(part) + DateDigits + 4 + serial_digits
    BY LabelLength
  <1>2. n \in Nat
    BY FormatConstants
  <1>3. GenerateQr(part) = Cut(label, n)
    BY DEF GenerateQr
  <1>4. ValidFinalQr(GenerateQr(part)) => Len(GenerateQr(part)) < n
    BY DEF ValidFinalQr
  <1>5. /\ serial_digits \in Nat /\ DateDigits \in Nat /\ Len(part) \in Nat
        /\ PartBuffer - 1 + DateDigits + 4 + serial_digits >= n
    BY FormatConstants, LenProperties
  <1> HIDE DEF label, n
  <1>6. /\ Len(Cut(label, n)) = Shorter(Len(label), n)
        /\ Len(label) <= n => Cut(label, n) = label
    BY <1>1, <1>2, CutKeeps
  <1>7. Len(Cut(label, n)) <= n
    BY <1>1, <1>2, <1>6 DEF Shorter
  <1>8. ASSUME ValidFinalQr(GenerateQr(part))
        PROVE  GenerateQr(part) = label /\ Len(part) # PartBuffer - 1
    <2>1. Len(label) < n
      BY <1>1, <1>2, <1>3, <1>4, <1>6, <1>8 DEF Shorter
    <2>2. GenerateQr(part) = label
      BY <1>1, <1>2, <1>3, <1>6, <2>1
    <2>3. Len(part) # PartBuffer - 1
      BY <1>1, <1>2, <1>5, <2>1, FormatConstants
    <2> QED BY <2>2, <2>3
  <1> QED BY <1>3, <1>7, <1>8 DEF label, n

-----------------------------------------------------------------------------
(* The actions                                                                *)

LEMMA InitFormat ==
  Init => FormatInv
  <1> SUFFICES ASSUME Init PROVE FormatInv
    OBVIOUS
  <1>1. << >> \in Seq(Characters) /\ Len(<< >>) = 0
    BY EmptySeq
  <1>2. /\ keyed = << >> /\ serial_digits \in SerialDigits /\ outcome = "none"
        /\ extracted_data = << >> /\ final_qr = << >>
    BY DEF Init
  <1>3. IsPart(keyed, 0) /\ 0 \in 0 .. Len(keyed)
    BY <1>1, <1>2 DEF IsPart
  <1>4. 0 <= MaxKeys /\ 0 <= PartBuffer - 1 /\ 0 <= LabelBuffer - 1
    BY FormatConstants
  <1> QED BY <1>1, <1>2, <1>3, <1>4 DEF FormatInv, LabelCarriesWholePart

LEMMA KeyKeeps ==
  ASSUME FormatInv, NEW c \in Characters, Key(c)
  PROVE  FormatInv'
  <1>1. /\ outcome = "none" /\ outcome' = outcome /\ Len(keyed) < MaxKeys
        /\ keyed' = Append(keyed, c) /\ serial_digits' = serial_digits
        /\ extracted_data' = extracted_data /\ final_qr' = final_qr
    BY DEF Key
  <1>2. keyed \in Seq(Characters) /\ Len(keyed) \in Nat
    BY LenProperties DEF FormatInv
  <1>3. /\ keyed' \in Seq(Characters) /\ Len(keyed') = Len(keyed) + 1
        /\ \A i \in 1 .. Len(keyed) : keyed'[i] = keyed[i]
        /\ keyed'[Len(keyed) + 1] = c
    BY <1>1, <1>2, AppendProperties
  <1>4. Len(keyed') <= MaxKeys
    BY <1>1, <1>2, <1>3, FormatConstants
  <1>5. \E n \in 0 .. Len(keyed') : IsPart(keyed', n)
    <2>1. PICK n \in 0 .. Len(keyed) : IsPart(keyed, n)
      BY DEF FormatInv
    <2>2. CASE n = Len(keyed) /\ c # Delimiter
      <3>1. n + 1 \in 0 .. Len(keyed') /\ n + 1 = Len(keyed')
        BY <1>2, <1>3, <2>1, <2>2
      <3>2. \A i \in 1 .. n + 1 : keyed'[i] # Delimiter
        BY <1>2, <1>3, <2>1, <2>2 DEF IsPart
      <3> QED BY <3>1, <3>2 DEF IsPart
    <2>3. CASE n # Len(keyed) \/ c = Delimiter
      <3>1. n \in 0 .. Len(keyed') /\ n + 1 \in 1 .. Len(keyed) + 1
        BY <1>2, <1>3, <2>1
      <3>2. keyed'[n + 1] = Delimiter
        BY <1>2, <1>3, <2>1, <2>3, <3>1 DEF IsPart
      <3>3. \A i \in 1 .. n : keyed'[i] # Delimiter
        BY <1>2, <1>3, <2>1 DEF IsPart
      <3> QED BY <3>1, <3>2, <3>3 DEF IsPart
    <2> QED BY <2>2, <2>3
  <1> QED BY <1>1, <1>3, <1>4, <1>5 DEF FormatInv, LabelCarriesWholePart, IsPart

(* The barcode, and what data_extract() finds in it, stay while it is judged. *)
LEMMA JudgedKeeps ==
  ASSUME FormatInv, keyed' = keyed, serial_digits' = serial_digits
  PROVE  /\ keyed' \in Seq(Characters) /\ Len(keyed') <= MaxKeys
         /\ \E n \in 0 .. Len(keyed') : IsPart(keyed', n)
         /\ serial_digits' \in SerialDigits
         /\ ValidRawFormat(barcode_data)' <=> ValidRawFormat(barcode_data)
BY DEF FormatInv, IsPart, ValidRawFormat, barcode_data, Cut, Shorter, Occurrences

LEMMA ScanKeeps ==
  ASSUME FormatInv, ScanRejected \/ ScanWithoutClock \/ ScanLabelled
  PROVE  FormatInv'
  <1>1. keyed' = keyed /\ serial_digits' = serial_digits
    BY DEF ScanRejected, ScanWithoutClock, ScanLabelled
  <1> DEFINE part == DataExtract(barcode_data)
  <1>2. ValidRawFormat(barcode_data) =>
          /\ part \in Seq(Characters) /\ Len(part) <= PartBuffer - 1
          /\ Len(part) = PartBuffer - 1 \/ part = PartNumber(keyed)
    BY ExtractedPart
  <1>3. serial_digits \in SerialDigits
    BY DEF FormatInv
  <1>4. CASE ScanRejected
    <2>1. /\ ~ValidRawFormat(barcode_data) /\ outcome' = "format"
          /\ extracted_data' = extracted_data /\ final_qr' = final_qr
      BY <1>4 DEF ScanRejected
    <2> QED BY <1>1, <2>1, JudgedKeeps DEF FormatInv, LabelCarriesWholePart
  <1>5. CASE ScanWithoutClock
    <2>1. /\ ValidRawFormat(barcode_data) /\ outcome' = "clock"
          /\ extracted_data' = part /\ final_qr' = << >>
      BY <1>5 DEF ScanWithoutClock
    <2>2. Len(final_qr') <= LabelBuffer - 1
      BY <2>1, FormatConstants
    <2> HIDE DEF part
    <2> QED BY <1>1, <1>2, <2>1, <2>2, JudgedKeeps DEF FormatInv, LabelCarriesWholePart
  <1>6. CASE ScanLabelled
    <2>1. /\ ValidRawFormat(barcode_data) /\ extracted_data' = part
          /\ final_qr' = GenerateQr(extracted_data')
          /\ outcome' = IF ValidFinalQr(final_qr') THEN "accepted" ELSE "label"
      BY <1>6 DEF ScanLabelled
    <2> HIDE DEF part
    <2>2. final_qr' = GenerateQr(part)
      BY <2>1
    <2>3. /\ Len(final_qr') <= LabelBuffer - 1
          /\ outcome' = "accepted" => final_qr' = LabelText(part) /\ part = PartNumber(keyed)
      BY <1>2, <1>3, <2>1, <2>2, AcceptedIsWhole
    <2>4. LabelText(PartNumber(keyed))' = LabelText(PartNumber(keyed))
      BY <1>1 DEF LabelText, PartNumber
    <2>5. LabelCarriesWholePart'
      BY <2>3, <2>4 DEF LabelCarriesWholePart
    <2>6. outcome' \in {"label", "accepted"}
      BY <2>1
    <2> QED BY <1>1, <1>2, <2>1, <2>3, <2>5, <2>6, JudgedKeeps DEF FormatInv
  <1> QED BY <1>4, <1>5, <1>6

LEMMA NextBarcodeKeeps ==
  ASSUME FormatInv, NextBarcode
  PROVE  FormatInv'
  <1>1. << >> \in Seq(Characters) /\ Len(<< >>) = 0
    BY EmptySeq
  <1>2. /\ keyed' = << >> /\ serial_digits' \in SerialDigits /\ outcome' = "none"
        /\ extracted_data' = extracted_data /\ final_qr' = final_qr
    BY DEF NextBarcode
  <1>3. IsPart(keyed', 0) /\ 0 \in 0 .. Len(keyed')
    BY <1>1, <1>2 DEF IsPart
  <1>4. Len(keyed') <= MaxKeys /\ keyed' \in Seq(Characters)
    BY <1>1, <1>2, FormatConstants
  <1>5. \E n \in 0 .. Len(keyed') : IsPart(keyed', n)
    BY <1>3
  <1> QED BY <1>2, <1>4, <1>5 DEF FormatInv, LabelCarriesWholePart, IsPart

LEMMA FormatInductive ==
  FormatInv /\ [Next]_vars => FormatInv'
  <1> SUFFICES ASSUME FormatInv, [Next]_vars PROVE FormatInv'
    OBVIOUS
  <1>1. CASE UNCHANGED vars
    <2>1. /\ keyed' = keyed /\ serial_digits' = serial_digits /\ outcome' = outcome
          /\ extracted_data' = extracted_data /\ final_qr' = final_qr
      BY <1>1 DEF vars
    <2>2. LabelText(PartNumber(keyed))' = LabelText(PartNumber(keyed))
      BY <2>1 DEF LabelText, PartNumber
    <2>3. LabelCarriesWholePart'
      BY <2>1, <2>2 DEF FormatInv, LabelCarriesWholePart
    <2> QED BY <2>1, <2>3, JudgedKeeps DEF FormatInv
  <1> QED BY <1>1, KeyKeeps, ScanKeeps, NextBarcodeKeeps DEF Next

-----------------------------------------------------------------------------
(* The theorems                                                               *)

THEOREM FormatInvariant == Spec => []FormatInv
  <1> QED BY InitFormat, FormatInductive, PTL DEF Spec

(* Every variable keeps its type; Cut keeps the texts to their buffers.      *)
THEOREM TypeCorrect == Spec => []TypeOK
  <1>1. FormatInv => TypeOK
    <2> SUFFICES ASSUME FormatInv PROVE TypeOK
      OBVIOUS
    <2>1. \A i \in DOMAIN keyed : keyed[i] \in Characters
      BY LenProperties, ElementOfSeq DEF FormatInv
    <2>2. extracted_data \in Texts(PartBuffer - 1)
      <3>1. /\ extracted_data \in [1 .. Len(extracted_data) -> Characters]
            /\ Len(extracted_data) \in 0 .. PartBuffer - 1
        BY LenProperties, FormatConstants DEF FormatInv
      <3>2. extracted_data \in [1 .. Len(extracted_data) -> Characters \cup {"d", "s", "n"}]
        BY <3>1
      <3> QED BY <3>1, <3>2 DEF Texts
    <2> QED BY <2>1, <2>2 DEF FormatInv, TypeOK
  <1> QED BY <1>1, FormatInvariant, PTL

(* A barcode that fits the buffer is refused for its format exactly when it   *)
(* has not four fields or one of them is empty.                               *)
THEOREM RefusedForItsFields == Spec => []FourFieldsExactly
  <1>1. FormatInv => FourFieldsExactly
    <2> SUFFICES ASSUME FormatInv, outcome # "none", Len(keyed) < RawBuffer
                 PROVE  (outcome = "format") <=> (FieldCount(keyed) # 4 \/ << >> \in Segments(keyed))
      BY DEF FourFieldsExactly
    <2>1. keyed \in Seq(Characters) /\ (outcome = "format" <=> ~ValidRawFormat(barcode_data))
      BY DEF FormatInv
    <2>2. barcode_data = keyed
      BY <2>1, BarcodeData
    <2>3. ValidRawFormat(keyed) <=> FieldCount(keyed) = 4 /\ << >> \notin Segments(keyed)
      BY <2>1, FourFields
    <2> QED BY <2>1, <2>2, <2>3
  <1> QED BY <1>1, FormatInvariant, PTL

(* A label that may be printed carries the whole part number of the barcode   *)
(* just scanned, whatever the buffers cut off or still hold.                  *)
THEOREM LabelsAreWhole == Spec => []LabelCarriesWholePart
  <1>1. FormatInv => LabelCarriesWholePart
    BY DEF FormatInv
  <1> QED BY <1>1, FormatInvariant, PTL
=============================================================================

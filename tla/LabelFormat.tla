------------------------------- MODULE LabelFormat -------------------------------
(***************************************************************************)
(* From a barcode to the text of a label: the checks onBarcodeScanned()    *)
(* makes before the printer is asked (production_manager.cpp:17-104) on    *)
(* the three fixed buffers barcode_data, extracted_data and final_qr.      *)
(*                                                                         *)
(* Only few kinds of characters matter: the delimiter "*" of a barcode,    *)
(* the "@" that config.h names as another one, the separator "/" of a      *)
(* label, and all the rest, "x".  The buffers keep the text of the last    *)
(* barcode that reached them.  Barcodes that begin with CFG: are in        *)
(* HmiMessages and ConfigStore; the gates on the state of machine and      *)
(* printer are in ProductionCycle.                                         *)
(***************************************************************************)
EXTENDS Integers, Sequences, FiniteSets

CONSTANTS
  OtherCharacters,        \* those of a barcode beside "*" and "/"
  RawBuffer,              \* sizeof(barcode_data): 50
  PartBuffer,             \* sizeof(extracted_data): 20
  LabelBuffer,            \* sizeof(final_qr): 30
  DateDigits,             \* 6
  SerialDigits,           \* the lengths a serial may print with: 4 and 5
  MaxKeys                 \* bound: characters of a barcode

ASSUME FormatAssumption ==
  /\ OtherCharacters \cap {"*", "/"} = {}
  /\ {RawBuffer, PartBuffer, LabelBuffer, DateDigits} \subseteq Nat \ {0}
  /\ SerialDigits \subseteq Nat \ {0}
  /\ MaxKeys \in Nat
  (* A label with a part number that fills its buffer does not fit its own. *)
  /\ \A s \in SerialDigits : PartBuffer - 1 + DateDigits + 4 + s >= LabelBuffer - 1

VARIABLES
  keyed,                  \* what the scanner has read of the barcode so far
  serial_digits,          \* the length of shift_counter + 1 in decimal
  outcome,                \* what became of the barcode
  extracted_data, final_qr

vars == <<keyed, serial_digits, outcome, extracted_data, final_qr>>

EXPECTED_SEGMENT_COUNT == 4
Delimiter == "*"
Characters == {"*", "/"} \cup OtherCharacters
Texts(n) == UNION {[1 .. k -> Characters \cup {"d", "s", "n"}] : k \in 0 .. n}

Occurrences(c, text) == {i \in DOMAIN text : text[i] = c}
Shorter(m, n) == IF m < n THEN m ELSE n
Cut(text, n) == SubSeq(text, 1, Shorter(Len(text), n))
Repeat(c, n) == [i \in 1 .. n |-> c]

TypeOK ==
  /\ Len(keyed) <= MaxKeys /\ \A i \in DOMAIN keyed : keyed[i] \in Characters
  /\ serial_digits \in SerialDigits
  /\ outcome \in {"none", "format", "clock", "label", "accepted"}
  /\ extracted_data \in Texts(PartBuffer - 1)
  /\ Len(final_qr) <= LabelBuffer - 1
-----------------------------------------------------------------------------
(* The pure functions *)

(* Definitions named Wrong... are used by nothing: each is the definition  *)
(* after it with a mistake the code could have, which a property must see. *)

barcode_data == Cut(keyed, RawBuffer - 1)

(* validate_raw_format() *)
ValidRawFormat(data) ==
  /\ data # << >>
  /\ Len(data) < RawBuffer
  /\ data[1] # Delimiter /\ data[Len(data)] # Delimiter
  /\ \A i \in 2 .. Len(data) : ~(data[i - 1] = Delimiter /\ data[i] = Delimiter)
  /\ Cardinality(Occurrences(Delimiter, data)) = EXPECTED_SEGMENT_COUNT - 1

(* data_extract(): up to the first delimiter, as far as the buffer holds. *)
DataExtract(data) ==
  LET n == CHOOSE n \in 0 .. Len(data) :
             /\ \A i \in 1 .. n : data[i] # Delimiter
             /\ n = Len(data) \/ data[n + 1] = Delimiter
  IN  Cut(data, Shorter(n, PartBuffer - 1))

LabelText(part) ==
  part \o <<"/">> \o Repeat("d", DateDigits) \o <<"/", "s", "/">> \o Repeat("n", serial_digits)

(* generate_traceability_qr(): snprintf cuts the text at the buffer's end. *)
GenerateQr(part) == Cut(LabelText(part), LabelBuffer - 1)

(* A label that fills the buffer is accepted. *)
WrongValidFinalQr(qr) ==
  /\ qr # << >>
  /\ Len(qr) <= LabelBuffer - 1
  /\ Cardinality(Occurrences("/", qr)) = EXPECTED_SEGMENT_COUNT - 1

(* validate_final_qr() *)
ValidFinalQr(qr) ==
  /\ qr # << >>
  /\ Len(qr) < LabelBuffer - 1
  /\ Cardinality(Occurrences("/", qr)) = EXPECTED_SEGMENT_COUNT - 1
-----------------------------------------------------------------------------
Init ==
  /\ keyed = << >>
  /\ serial_digits \in SerialDigits
  /\ outcome = "none"
  /\ extracted_data = << >> /\ final_qr = << >>

(* The scanner reads one character more.  Bound: one slash, in the first   *)
(* segment; behind a delimiter it is like any other character.             *)
Key(c) ==
  /\ outcome = "none"
  /\ Len(keyed) < MaxKeys
  /\ c = "/" => Occurrences("*", keyed) \cup Occurrences("/", keyed) = {}
  /\ keyed' = Append(keyed, c)
  /\ UNCHANGED <<serial_digits, outcome, extracted_data, final_qr>>

ScanRejected ==
  /\ outcome = "none"
  /\ ~ValidRawFormat(barcode_data)
  /\ outcome' = "format"
  /\ UNCHANGED <<keyed, serial_digits, extracted_data, final_qr>>

(* The part is extracted, but the RTC cannot be read. *)
ScanWithoutClock ==
  /\ outcome = "none"
  /\ ValidRawFormat(barcode_data)
  /\ extracted_data' = DataExtract(barcode_data)
  /\ extracted_data' # << >>
  /\ final_qr' = << >>
  /\ outcome' = "clock"
  /\ UNCHANGED <<keyed, serial_digits>>

ScanLabelled ==
  /\ outcome = "none"
  /\ ValidRawFormat(barcode_data)
  /\ extracted_data' = DataExtract(barcode_data)
  /\ extracted_data' # << >>
  /\ final_qr' = GenerateQr(extracted_data')
  /\ outcome' = IF ValidFinalQr(final_qr') THEN "accepted" ELSE "label"
  /\ UNCHANGED <<keyed, serial_digits>>

(* The next barcode finds the buffers as the last one left them. *)
NextBarcode ==
  /\ outcome # "none"
  /\ keyed' = << >>
  /\ outcome' = "none"
  /\ serial_digits' \in SerialDigits
  /\ UNCHANGED <<extracted_data, final_qr>>

Next ==
  \/ \E c \in Characters : Key(c)
  \/ ScanRejected \/ ScanWithoutClock \/ ScanLabelled
  \/ NextBarcode

Spec == Init /\ [][Next]_vars
-----------------------------------------------------------------------------
(* What the functions are meant to compute *)

(* The segments of a barcode: the stretches between two delimiters. *)
Segments(text) ==
  LET edges == Occurrences(Delimiter, text) \cup {0, Len(text) + 1}
      pairs == {e \in edges \X edges : e[1] < e[2] /\ \A i \in e[1] + 1 .. e[2] - 1 : i \notin edges}
  IN  {SubSeq(text, e[1] + 1, e[2] - 1) : e \in pairs}

FieldCount(text) == Cardinality(Occurrences(Delimiter, text)) + 1

PartNumber(text) ==
  SubSeq(text, 1, CHOOSE n \in 0 .. Len(text) :
                    /\ \A i \in 1 .. n : text[i] # Delimiter
                    /\ n = Len(text) \/ text[n + 1] = Delimiter)

(* A barcode that fits the buffer is refused for its format exactly when   *)
(* it has not four fields between asterisks or one of them is empty,       *)
(* whatever other characters it has (validate_raw_format()); so the "@"    *)
(* format of config.h, for which see the next property, is refused.        *)
FourFieldsExactly ==
  outcome # "none" /\ Len(keyed) < RawBuffer =>
    ((outcome = "format") <=> (FieldCount(keyed) # 4 \/ << >> \in Segments(keyed)))

(* config.h:44-46: "Alternate scanner input format (also accepted)", "4    *)
(* '@'-delimited segments".  No code reads NEW_FORMAT_DELIMITER:           *)
(* validate_raw_format() refuses each such barcode.                        *)
NEW_FORMAT_DELIMITER == "@"
AsAsterisks(text) == [i \in DOMAIN text |-> IF text[i] = NEW_FORMAT_DELIMITER THEN "*" ELSE text[i]]

AlternateFormatAccepted ==
  /\ outcome # "none" /\ Len(keyed) < RawBuffer
  /\ Occurrences("*", keyed) = {}
  /\ FieldCount(AsAsterisks(keyed)) = 4 /\ << >> \notin Segments(AsAsterisks(keyed))
  => outcome # "format"

(* A label that may be printed carries the whole part number of the        *)
(* barcode just scanned, however long the barcode is, and all of its date, *)
(* shift and serial, whatever the three buffers cut off or still hold.     *)
LabelCarriesWholePart ==
  outcome = "accepted" => final_qr = LabelText(PartNumber(keyed))

=============================================================================

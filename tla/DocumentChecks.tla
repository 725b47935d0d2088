--------------------------- MODULE DocumentChecks ---------------------------
(***************************************************************************)
(* What the ML service computes from a photographed identity document:     *)
(* ml-service/models/ocr.py and ml-service/models/document_forensics.py.   *)
(*                                                                         *)
(* An image is a record of what the libraries find in it: the lines of     *)
(* text, each with the patterns it matches (marks) and the text captured;  *)
(* its EXIF conditions; its error level, keypoints and noise; and which of *)
(* PIL and OpenCV can open it at all.  A digit of an id number is itself,  *)
(* a letter a number from 10 on; a name is a sequence of words and a date  *)
(* a sequence of pairs of digits, which is what is left of them once       *)
(* spaces and slashes are gone.                                            *)
(***************************************************************************)
EXTENDS StageScores, SequencesExt

Smaller(m, n) == IF m < n THEN m ELSE n
Missing == <<>>

-----------------------------------------------------------------------------
(* Validation of id numbers.                                               *)

\* _D
D == << <<0,1,2,3,4,5,6,7,8,9>>, <<1,2,3,4,0,6,7,8,9,5>>, <<2,3,4,0,1,7,8,9,5,6>>,
        <<3,4,0,1,2,8,9,5,6,7>>, <<4,0,1,2,3,9,5,6,7,8>>, <<5,9,8,7,6,0,4,3,2,1>>,
        <<6,5,9,8,7,1,0,4,3,2>>, <<7,6,5,9,8,2,1,0,4,3>>, <<8,7,6,5,9,3,2,1,0,4>>,
        <<9,8,7,6,5,4,3,2,1,0>> >>

\* _P
P == << <<0,1,2,3,4,5,6,7,8,9>>, <<1,5,7,6,2,8,3,0,9,4>>, <<5,8,0,3,7,9,6,1,4,2>>,
        <<8,9,1,6,0,4,3,5,2,7>>, <<9,4,5,3,1,2,6,8,7,0>>, <<4,2,8,6,5,7,3,9,0,1>>,
        <<2,7,9,3,8,0,6,4,1,5>>, <<7,0,4,6,9,1,3,2,5,8>> >>

\* The row of P for the digit i places from the right.
FirstRow(i) == 1                                           \* faulty variant
Row(i) == (i % 8) + 1

verhoeff_validate(num) ==
  LET c[i \in 0 .. Len(num)] ==
        IF i = 0 THEN 0
        ELSE D[c[i - 1] + 1][P[Row(i - 1)][num[Len(num) + 1 - i] + 1] + 1]
  IN c[Len(num)] = 0

validate_pan(pan) ==
  /\ Len(pan) = 10
  /\ \A i \in 1 .. 10 : pan[i] < 10 <=> i \in 6 .. 9

validate_aadhaar(num) ==
  /\ Len(num) = 12
  /\ \A i \in 1 .. 12 : num[i] < 10
  /\ num[1] >= 2
  /\ verhoeff_validate(num)

\* run_forensics, step 5: the number is checked as the form names the document.
IdValid(doc_type, num) ==
  /\ doc_type = "PAN" => validate_pan(num)
  /\ doc_type = "AADHAAR" => validate_aadhaar(num)

-----------------------------------------------------------------------------
(* Reading the text.                                                       *)

Marked(lines, mark) == {i \in DOMAIN lines : mark \in lines[i].marks}

\* The text of the first of the lines at indices S.
FirstText(lines, S) == IF S = {} THEN Missing ELSE lines[Min(S)].text

\* The name is the line after the one that says so, unless that names the father.
extract_pan_fields(lines) ==
  [id_number |-> FirstText(lines, Marked(lines, "pan")),
   dob |-> FirstText(lines, Marked(lines, "date")),
   name |-> FirstText(lines, {i + 1 : i \in Marked(lines, "name")}
                             \cap (DOMAIN lines \ Marked(lines, "father")))]

\* The name is the first line of letters only that does not name the issuer.
extract_aadhaar_fields(lines) ==
  [id_number |-> FirstText(lines, Marked(lines, "twelve digits")),
   dob |-> FirstText(lines, Marked(lines, "date")),
   name |-> FirstText(lines, Marked(lines, "letters") \ Marked(lines, "issuer"))]

\* The machine readable zone: the name stands in the first line, surname first, the
\* number in the first nine places of the second, followed by the date as YYMMDD.
extract_passport_fields(lines) ==
  LET mrz == SelectSeq(lines, LAMBDA l : "mrz" \in l.marks)
      date == SubSeq(mrz[2].text, 10, 12)
  IN IF Len(mrz) < 2 THEN [id_number |-> Missing, dob |-> Missing, name |-> Missing]
     ELSE [id_number |-> SubSeq(mrz[2].text, 1, 9),
           dob |-> <<date[3], date[2], IF date[1] > 30 THEN 19 ELSE 20, date[1]>>,
           name |-> mrz[1].text]

\* _detect_doc_type, and what the form says if that finds nothing.
DocType(lines, hint) ==
  IF Marked(lines, "income tax") # {} THEN "PAN"
  ELSE IF Marked(lines, "uidai") # {} THEN "AADHAAR"
  ELSE IF Marked(lines, "passport") # {} THEN "PASSPORT"
  ELSE IF Marked(lines, "driving licence") # {} THEN "DRIVING_LICENSE"
  ELSE hint

\* run_ocr; reads is FALSE when OpenCV cannot open the image or the engine raises.
run_ocr(image, hint, reads) ==
  LET type == DocType(image.lines, hint) IN
  IF reads /\ type = "PAN" THEN extract_pan_fields(image.lines)
  ELSE IF reads /\ type = "AADHAAR"
  THEN extract_aadhaar_fields(image.lines)
  ELSE IF reads /\ type = "PASSPORT"
  THEN extract_passport_fields(image.lines)
  ELSE [id_number |-> Missing, dob |-> Missing, name |-> Missing]

\* cross_check_fields, for one field
MatchExactly(ocr, user) ==                                 \* faulty variant
  ocr = Missing \/ user = Missing \/ ocr = user
Agree(ocr, user) ==
  \/ ocr = Missing \/ user = Missing
  \/ ocr \in SubSeqs(user) \/ user \in SubSeqs(ocr)

\* The web form sends the date of birth, a day, a month and a year, as YYYY-MM-DD.
FormDate(born) == <<born.year \div 100, born.year % 100, born.month, born.day>>

\* The form sends a name and a date; no id number is compared.
FieldFlags(fields, form) ==
  (IF Agree(fields.name, form.name) THEN {} ELSE {"FIELD_MISMATCH:name"})
  \cup (IF Agree(fields.dob, form.dob) THEN {} ELSE {"FIELD_MISMATCH:dob"})

-----------------------------------------------------------------------------
(* Looking at the image.                                                   *)

RelativeEla(image) ==                                      \* faulty variant
  (100 * image.mean_diff) \div image.max_diff

\* ela_score, in per cent: mean and largest difference to the recompressed image.
ela_score(image) ==
  Smaller(100, ((100 * image.mean_diff) \div 15 + (100 * image.max_diff) \div 255) \div 2)

\* check_exif: image.exif is what it finds, none without EXIF data, and before it
\* raises if it does.  NO_EXIF, NO_MAKER_NOTE and EXIF_PARSE_ERROR raise no flag.
ExifFlags(image) ==
  (IF "editor" \in image.exif THEN {"EDITING_SOFTWARE_DETECTED"} ELSE {})
  \cup (IF "dates differ" \in image.exif THEN {"EXIF_DATETIME_MISMATCH"} ELSE {})

\* BFMatcher with crossCheck, of the descriptors with themselves: the match of i is the
\* first at the smallest distance, which is 0; it counts when i is the match of it too.
BestMatch(kp, i) == Min({j \in DOMAIN kp : kp[j].desc = kp[i].desc})
Matches(kp) == {i \in DOMAIN kp : BestMatch(kp, BestMatch(kp, i)) = i}

Apart(p, q) == \/ p.x - q.x > 10 \/ q.x - p.x > 10
               \/ p.y - q.y > 10 \/ q.y - p.y > 10

Suspicious(kp) == {i \in Matches(kp) : /\ BestMatch(kp, i) # i
                                       /\ Apart(kp[i], kp[BestMatch(kp, i)])}

\* copy_move_score, in per cent
copy_move_score(image) ==
  IF "OpenCV" \notin image.opens \/ Len(image.keypoints) < 10 THEN 0
  ELSE Smaller(100, Cardinality(Suspicious(image.keypoints)))

\* noise_inconsistency_score, in per cent: deviation over mean of the blocks' noise
noise_inconsistency_score(image) ==
  IF "OpenCV" \notin image.opens \/ image.blocks < 4 THEN 0 ELSE Smaller(100, image.deviation \div 2)

-----------------------------------------------------------------------------
\* analyse_document, with run_forensics.  An image that PIL cannot open raises in
\* ela_score and has no reply.
Forensics(image, form, reads) ==
  run_forensics(ela_score(image), copy_move_score(image),
                noise_inconsistency_score(image),
                ExifFlags(image)
                \cup (IF IdValid(form.doc_type, form.pan_number) THEN {}
                      ELSE {"ID_CHECKSUM_FAIL"})
                \cup FieldFlags(run_ocr(image, form.doc_type, reads), form))
=============================================================================

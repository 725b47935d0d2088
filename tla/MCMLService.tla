----------------------------- MODULE MCMLService -----------------------------
(* A small instance of MLService: the documents and the media of one person. *)
EXTENDS MLService

Born == [day |-> 2, month |-> 1, year |-> 1990]
Holder == <<"asha", "rao">>
Pan == <<10, 28, 15, 25, 20, 1, 2, 3, 4, 15>>

\* An Aadhaar number: eleven digits and the one that makes them valid.
Aadhaar(prefix) ==
  Append(prefix, CHOOSE d \in 0 .. 9 : validate_aadhaar(Append(prefix, d)))
OneAadhaar == Aadhaar(<<2, 3, 4, 1, 2, 9, 0, 5, 6, 0, 7>>)

Line(marks, text) == [marks |-> marks, text |-> text]
Printed == <<Born.day, Born.month, Born.year \div 100, Born.year % 100>>

AadhaarCard(num) ==
  << Line({"uidai", "issuer", "letters"}, <<"uidai">>),
     Line({"letters"}, Holder),
     Line({"date"}, Printed),
     Line({"twelve digits"}, num) >>
PanCard ==
  << Line({"income tax", "letters"}, <<"income", "tax">>),
     Line({"name", "letters"}, <<"name">>), Line({"letters"}, Holder),
     Line({"name", "father", "letters"}, <<"father">>), Line({"letters"}, <<"ravi", "rao">>),
     Line({"date"}, Printed), Line({"pan"}, Pan) >>
Passport ==
  << Line({"passport", "letters"}, <<"passport">>),
     Line({"mrz"}, <<"rao", "asha">>),
     Line({"mrz"}, <<30, 1, 2, 3, 4, 5, 6, 7, 0, 90, 1, 2>>) >>

\* Twelve keypoints, of which four have been copied from four others.
Copied == [i \in 1 .. 12 |-> [desc |-> i % 8, x |-> 20 * i, y |-> 0]]

Image(number, lines) ==
  [opens |-> {"PIL", "OpenCV"}, number |-> number, lines |-> lines, holder |-> Holder,
   born |-> Born, exif |-> {}, mean_diff |-> 3, max_diff |-> 51, keypoints |-> <<>>,
   blocks |-> 9, deviation |-> 20]
Form(doc_type, number, name) ==
  [doc_type |-> doc_type, pan_number |-> number, name |-> name, born |-> Born,
   dob |-> FormDate(Born)]

\* A card, and forms in which its number was typed with one slip: at every place two
\* other digits, and every two neighbours swapped.
Mistyped(n) ==
  {[n EXCEPT ![i] = (@ + k) % 10] : i \in DOMAIN n, k \in {1, 6}}
  \cup {[n EXCEPT ![i] = n[i + 1], ![i + 1] = n[i]] : i \in 1 .. Len(n) - 1}
Typed ==
  {[image |-> Image(OneAadhaar, AadhaarCard(OneAadhaar)),
    form |-> Form("AADHAAR", typed, Holder)] : typed \in Mistyped(OneAadhaar)}

\* Cards of every kind; a partner who writes the date as it is printed; a form with
\* half of the name, or another one.
Genuine ==
  {[image |-> Image(OneAadhaar, AadhaarCard(OneAadhaar)), form |-> Form("AADHAAR", Pan, n)] :
     n \in {Holder, <<"asha">>, <<"ravi", "rao">>}}
  \cup {[image |-> Image(Pan, PanCard),
         form |-> [Form("PAN", Pan, Holder) EXCEPT !.dob = Printed]],
        [image |-> Image(Pan, Passport), form |-> Form("PASSPORT", Pan, Holder)],
        [image |-> [Image(Pan, PanCard) EXCEPT !.opens = {"PIL"}],
         form |-> Form("PAN", Pan, Holder)]}

\* Pictures of one card, clean and worse in one way or in all.
Pictures ==
  {[image |-> [Image(Pan, PanCard) EXCEPT !.mean_diff = m[1], !.max_diff = m[2],
                 !.deviation = m[3], !.keypoints = Copied, !.exif = exif],
    form |-> Form("PAN", Pan, Holder)] :
     m \in {<<3, 51, 20>>, <<24, 51, 20>>, <<3, 204, 20>>, <<3, 51, 140>>, <<24, 204, 140>>},
     exif \in {{}, {"editor"}, {"editor", "dates differ"}}}

Frame(ear, nose, grey, fake) ==
  [opens |-> TRUE, face |-> TRUE, ear |-> ear, nose |-> nose, grey |-> grey, fake |-> fake]

\* No video; a photograph, at the limit of a blink and elsewhere; a blink; a turn of
\* the head; frames that cannot be read; a long video whose end is forged.
Videos ==
  { <<>>,
    [i \in 1 .. 6 |-> Frame(25, 50, 100, 10)],
    [i \in 1 .. 6 |-> Frame(30, 50, 100, 55)],
    [i \in 1 .. 6 |-> Frame(IF i = 3 THEN 10 ELSE 30, 50, 100 + 40 * (i % 2), 10)],
    [i \in 1 .. 6 |-> Frame(30, 40 + 2 * i, 100 + 5 * i, 80)],
    [i \in 1 .. 5 |-> [Frame(25, 50, 100, 10) EXCEPT !.opens = (i = 5), !.face = FALSE]],
    [i \in 1 .. 19 |-> Frame(30, 50 - i, 100, IF i < 12 THEN 20 ELSE 90)] }

Seen(faces, similarity, gan, fake, frames) ==
  [opens |-> TRUE, faces |-> faces, similarity |-> similarity,
   live |-> [n \in Networks |-> IF similarity > 0 THEN 90 ELSE 20],
   gan |-> gan, fake |-> fake, frames |-> frames]

\* A match with every video; faces that are missing or another's; forgeries; a selfie
\* that cannot be opened.
Everything == {"document", "selfie", "box"}
Media ==
  {Seen(Everything, 70, 55, 55, frames) : frames \in Videos}
  \cup {Seen({"selfie", "box"}, 70, 0, 10, <<>>), Seen(Everything, -10, 0, 10, <<>>)}
  \cup {Seen(Everything, 70, gan, fake, <<>>) : gan \in {0, 95}, fake \in {10, 90}}
  \cup {[opens |-> FALSE, faces |-> {"document"}, similarity |-> 0,
         live |-> [n \in Networks |-> 0], gan |-> 0, fake |-> 0, frames |-> <<>>]}

Requests == Typed \cup Genuine \cup Pictures
CleanRequests == Genuine
=============================================================================

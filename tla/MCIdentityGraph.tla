--------------------------- MODULE MCIdentityGraph ---------------------------
(* Small instances of IdentityGraph for TLC. *)
EXTENDS IdentityGraph, TLC

CONSTANTS a1, a2, a3, x, lan, y

\* A profile, from its device, address, email, phone and PAN.
P(d, i, e, p, n) == <<d, i, e, p, n>>

\* Three applicants.  First, two share a device, two an email and two a phone, and
\* all a private address, which is no link (nor is a device in a web submission); then nobody has an email or a phone, two
\* share a public address and two a PAN.
Triples ==
  { (a1 :> P(x, lan, x, None, None)) @@ (a2 :> P(x, lan, None, x, None))
      @@ (a3 :> P(x, lan, x, x, None)),
    (a1 :> P(None, x, None, None, x)) @@ (a2 :> P(None, x, None, None, y))
      @@ (a3 :> P(None, None, None, None, x)) }
=============================================================================

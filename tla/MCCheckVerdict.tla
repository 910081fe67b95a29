--------------------------- MODULE MCCheckVerdict ---------------------------
(* CheckVerdict for TLC.  Places 1 and 2: an API key that anthropic_key and *)
(* openai_key both match.  Place 3: an e-mail address whose local part is   *)
(* that key.  Places 4 and 5: a card number inside a JWT.  Place 6: another *)
(* e-mail address.  Places 7 and 8: a phone number run together with an AWS *)
(* key, which is no word of its own until the number is replaced.  Places 9 *)
(* and 10: a number with +33 right after that e-mail address, for both      *)
(* phone rules.  Place 11: a card number after it, whose first digits the   *)
(* phone_intl match takes in.                                               *)
EXTENDS CheckVerdict, TLC

MCMatches == 1..11

MCRuleOf == <<"anthropic_key", "openai_key", "email", "credit_card", "jwt", "email",
              "phone_intl", "aws_access_key", "phone_fr", "phone_intl", "credit_card">>

Sym(R) == R \cup {<<p[2], p[1]>> : p \in R}

MCOverlaps == Sym({<<1, 2>>, <<1, 3>>, <<2, 3>>, <<4, 5>>, <<9, 10>>, <<10, 11>>})

MCWithin == {<<1, 2>>, <<4, 5>>}

MCUncovers == {<<7, 8>>}

MCUnmatches == {<<6, 9>>}

MCBacks == {<<10, 9>>}
=============================================================================

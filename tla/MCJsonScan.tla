----------------------------- MODULE MCJsonScan ------------------------------
(* Answers joined from pieces of prose, of objects and of broken objects,   *)
(* and what json.loads takes of them: members, strings with escapes, words. *)
EXTENDS JsonScan

Str(body) == <<Quote>> \o body \o <<Quote>>
Obj(key, value) == <<Open>> \o Str(key) \o <<":">> \o value \o <<Close>>

Pieces ==
  {<<>>, <<"w">>, <<Open>>, <<Close>>, <<Quote>>, <<Backslash>>, <<Open, Close>>,
   Obj(<<Open>>, <<"w">>), Obj(<<Backslash, Quote>>, <<"w">>),
   Obj(<<>>, <<Open, Close>>), Obj(<<",", Close>>, <<"w", ",", Space>>)}

MCTexts == {x \o y \o z : x, y, z \in Pieces}

RECURSIVE IsBody(_), IsObject(_), IsMembers(_)

IsBody(s) ==
  \/ s = <<>>
  \/ s[1] \notin {Quote, Backslash} /\ IsBody(Tail(s))
  \/ Len(s) > 1 /\ s[1] = Backslash /\ s[2] \in {Quote, Backslash} /\ IsBody(SubSeq(s, 3, Len(s)))

IsString(s) == Len(s) > 1 /\ s[1] = Quote /\ s[Len(s)] = Quote /\ IsBody(SubSeq(s, 2, Len(s) - 1))

IsMembers(s) ==
  \E k \in 2..Len(s) - 2, e \in 4..Len(s) :
    /\ e > k + 1 /\ s[k + 1] = ":" /\ IsString(SubSeq(s, 1, k))
    /\ LET value == SubSeq(s, k + 2, e) IN value \in {<<"w">>, <<"w", Space>>} \/ IsObject(value)
    /\ e = Len(s) \/ (s[e + 1] = "," /\ IsMembers(SubSeq(s, e + 2, Len(s))))

IsObject(s) ==
  /\ Len(s) > 1 /\ s[1] = Open /\ s[Len(s)] = Close
  /\ Len(s) = 2 \/ IsMembers(SubSeq(s, 2, Len(s) - 1))

MCLoads(span) == IsObject(span)
==============================================================================

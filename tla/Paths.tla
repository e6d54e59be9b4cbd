--------------------------------- MODULE Paths ---------------------------------
(***************************************************************************)
(* Paths as strings, cut at their slashes: "/a/x" is <<"", "a", "x">>, "/" is  *)
(* <<"", "">>, "/a/" is <<"", "a", "">>, and the empty string is <<"">>.  No    *)
(* segment is a proper prefix of another but for the empty one.               *)
(***************************************************************************)
EXTENDS Naturals, SequencesExt

Empty == <<"">>
Root == <<"", "">>

\* strings.HasPrefix
HasPrefix(s, t) ==
    /\ Len(s) >= Len(t) /\ IsPrefix(Front(t), s)
    /\ Last(t) \in {"", s[Len(t)]}

\* strings.TrimPrefix
TrimPrefix(s, t) ==
    IF ~HasPrefix(s, t) THEN s
    ELSE IF Last(t) = "" THEN SubSeq(s, Len(t), Len(s))
    ELSE Empty \o SubSeq(s, Len(t) + 1, Len(s))

\* What the reverse proxy's own Director makes of a base URL's path and a
\* request's, which begins with a slash.
Joined(base, s) ==
    (IF base # Empty /\ Last(base) = "" THEN Front(base) ELSE base) \o Tail(s)

\* Faulty, for the checks: matches the characters of a path, not its segments.
CoversPrefix(t, s) == HasPrefix(s, t)

\* MatchRoute's second comparison, of a request's path s with a route's t and a slash.
CoversBelow(t, s) == HasPrefix(s, Append(t, ""))

\* Faulty, for the checks: takes the slash after the prefix away with it.
TrimmedSlash(s, t) == TrimPrefix(s, Append(t, ""))

\* The gateway's Director: what is left of a path, which must not be empty.
Trimmed(s, t) == LET rest == TrimPrefix(s, t) IN IF rest = Empty THEN Root ELSE rest

\* What lies below the segments of t in s, as a path, for the properties.
Below(t, s) == LET rest == SubSeq(s, Len(t) + 1, Len(s))
               IN  IF rest = <<>> THEN Root ELSE Empty \o rest
=============================================================================

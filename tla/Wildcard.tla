-------------------------------- MODULE Wildcard --------------------------------
(***************************************************************************)
(* ApiBlocklist::MatchesWildcard: one pass of its loop is one step. Beside   *)
(* it, what the pattern language means, as sets of the positions that match. *)
(*                                                                         *)
(* Names and patterns are sequences of characters. A position one past the  *)
(* end is the terminating zero.                                            *)
(***************************************************************************)
EXTENDS Naturals, Sequences, FiniteSetsExt

CONSTANTS Names, Patterns   \* what is matched

(* The characters that occur, with their codes.                             *)
Letters == <<"!", "*", "-", "?", "A", "[", "\\", "]", "a", "b", "c">>
Chars == {Letters[k] : k \in DOMAIN Letters}
Code(c) == CHOOSE k \in DOMAIN Letters : Letters[k] = c

End == "end"
At(s, k) == IF k <= Len(s) THEN s[k] ELSE End

------------------------------------------------------------------------------
(* The class of characters that opens at position k.                        *)

ClassNegated(s, k) == At(s, k + 1) = "!"
ClassStart(s, k) == IF ClassNegated(s, k) THEN k + 2 ELSE k + 1

(* A bracket right at the start is a member; 0: the class is not closed.     *)
ClassEnd(s, k) ==
  LET from == IF At(s, ClassStart(s, k)) = "]" THEN ClassStart(s, k) + 1 ELSE ClassStart(s, k)
      ends == {e \in from .. Len(s) : s[e] = "]"}
  IN IF ends = {} THEN 0 ELSE Min(ends)

InRanges(s, from, to, c) ==
  LET member[q \in from .. to] ==
        IF q = to THEN FALSE
        ELSE IF At(s, q + 1) = "-" /\ q + 2 < to
             THEN (Code(c) >= Code(s[q]) /\ Code(c) <= Code(s[q + 2])) \/ member[q + 3]
             ELSE c = s[q] \/ member[q + 1]
  IN member[from]

InClass(s, k, c) == InRanges(s, ClassStart(s, k), ClassEnd(s, k), c) # ClassNegated(s, k)

------------------------------------------------------------------------------
(* The loop.                                                               *)

VARIABLES name, pattern, n, p, starP, starN, result
matchVars == <<name, pattern, n, p, starP, starN, result>>

MatchInit ==
  /\ name \in Names /\ pattern \in Patterns
  /\ n = 1 /\ p = 1
  /\ starP = 0 /\ starN = 0        \* null
  /\ result = "running"

Running == result = "running" /\ n <= Len(name)

Advance(by) == n' = n + 1 /\ p' = p + by /\ UNCHANGED <<name, pattern, starP, starN, result>>

(* Mutant: the star takes what was matched after it too.                    *)
BacktrackFar ==
  IF starP = 0 THEN result' = "no" /\ UNCHANGED <<name, pattern, n, p, starP, starN>>
  ELSE /\ p' = starP /\ n' = n + 1 /\ starN' = n + 1
       /\ UNCHANGED <<name, pattern, starP, result>>

(* A mismatch: the last star takes one character more, if there is one.      *)
Backtrack ==
  IF starP = 0 THEN result' = "no" /\ UNCHANGED <<name, pattern, n, p, starP, starN>>
  ELSE /\ p' = starP /\ n' = starN + 1 /\ starN' = starN + 1
       /\ UNCHANGED <<name, pattern, starP, result>>

Escaped == At(pattern, p) = "\\" /\ At(pattern, p + 1) # End

MatchEscaped ==
  /\ Running /\ Escaped
  /\ IF name[n] = pattern[p + 1] THEN Advance(2) ELSE Backtrack

MatchOpenBracket ==
  /\ Running /\ At(pattern, p) = "[" /\ ClassEnd(pattern, p) = 0
  /\ IF name[n] = "[" THEN Advance(1) ELSE Backtrack

MatchClass ==
  /\ Running /\ At(pattern, p) = "[" /\ ClassEnd(pattern, p) # 0
  /\ IF InClass(pattern, p, name[n]) THEN Advance(ClassEnd(pattern, p) + 1 - p) ELSE Backtrack

MatchStar ==
  /\ Running /\ At(pattern, p) = "*"
  /\ p' = p + 1 /\ starP' = p + 1 /\ starN' = n
  /\ UNCHANGED <<name, pattern, n, result>>

MatchOne ==
  /\ Running /\ ~Escaped /\ At(pattern, p) \notin {"[", "*"}
  /\ IF At(pattern, p) \in {"?", name[n]} THEN Advance(1) ELSE Backtrack

MatchFinish ==
  /\ result = "running" /\ n > Len(name)
  /\ result' = IF \A k \in p .. Len(pattern) : pattern[k] = "*" THEN "yes" ELSE "no"
  /\ UNCHANGED <<name, pattern, n, p, starP, starN>>

MatchNext == MatchEscaped \/ MatchOpenBracket \/ MatchClass \/ MatchStar \/ MatchOne \/ MatchFinish

------------------------------------------------------------------------------
(* What a pattern means: it is made of tokens, each of which takes one           *)
(* character, or of a star any number of them.                              *)

IsEscape(s, k) == At(s, k) = "\\" /\ At(s, k + 1) # End
IsClass(s, k) == At(s, k) = "[" /\ ClassEnd(s, k) # 0

(* Where the token at k is followed by the next, and the characters it takes.   *)
After(s, k) == IF IsEscape(s, k) THEN k + 2 ELSE IF IsClass(s, k) THEN ClassEnd(s, k) + 1 ELSE k + 1

Takes(s, k, c) ==
  IF IsEscape(s, k) THEN c = s[k + 1] ELSE IF IsClass(s, k) THEN InClass(s, k, c) ELSE s[k] \in {"?", c}

(* The positions of a name from where on the pattern from k on accounts for it, *)
(* all of them: rest are those of the pattern after the token at k.            *)
Accounts(nm, s, k, rest) ==
  IF k > Len(s) THEN {Len(nm) + 1}
  ELSE IF s[k] = "*" THEN {j \in 1 .. Len(nm) + 1 : \E i \in rest : j <= i}
  ELSE {j \in 1 .. Len(nm) : Takes(s, k, nm[j]) /\ j + 1 \in rest}

Rests(nm, s) ==
  LET from[k \in 1 .. Len(s) + 1] == Accounts(nm, s, k, from[After(s, k)])
  IN  from

Means(nm, s) == 1 \in Rests(nm, s)[1]

------------------------------------------------------------------------------
(* Whatever stars, classes and escapes come together, remembering only the   *)
(* last star decides as trying all of them would.                           *)
MatchesWhatItMeans == result # "running" => (result = "yes" <=> Means(name, pattern))

==============================================================================

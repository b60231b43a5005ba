--------------------------- MODULE R2DtmfDebounce ---------------------------
(***************************************************************************)
(* The detector of R2DtmfRx fed with any sequence of blocks: what it makes *)
(* of the hit patterns that the comment in openr2_dtmf_rx lists.           *)
(***************************************************************************)
EXTENDS R2DtmfRx

CONSTANT Digits

VARIABLES rx, hist, reports   \* the last eight hits, and what each reported

vars == <<rx, hist, reports>>

WINDOW == 8

\* The last WINDOW elements, x included.
Shift(s, x) == Append(IF Len(s) = WINDOW THEN Tail(s) ELSE s, x)

Init == rx = openr2_dtmf_rx_init /\ hist = <<>> /\ reports = <<>>

Block(hit) ==
  /\ rx' = Debounce(rx, hit)
  /\ hist' = Shift(hist, hit)
  /\ reports' = Shift(reports, rx'.new)

Next == \E hit \in Digits \cup {None} : Block(hit)

Spec == Init /\ [][Next]_vars
-----------------------------------------------------------------------------
\* A digit starts at the last block, and nothing was reported in the n before.
Starts(d, n) ==
  /\ rx.in_digit = d
  /\ reports[WINDOW] = d
  /\ \A k \in WINDOW - n .. WINDOW - 1 : reports[k] = None

Distinct(a, b, c) == a # b /\ a # c /\ b # c

\* Seven of the nine patterns of the comment (r2engine.c:2980-2988): a digit
\* starts after a hiccup, survives one bad block and ends after two, and one
\* digit may follow another.
HitPatterns ==
  \A a, b, c \in Digits : Distinct(a, b, c) =>
    /\ hist \in { <<None, None, None, None, b, None, b, b>>,
                  <<None, None, None, None, a, None, b, b>> } => Starts(b, 3)
    /\ hist = <<b, b, b, b, b, a, b, b>> =>
         rx.in_digit = b /\ \A k \in 6 .. 8 : reports[k] = None
    /\ hist \in { <<b, b, b, b, b, b, None, None>>, <<b, b, b, b, b, b, c, None>> } =>
         rx.in_digit = None
    /\ hist = <<b, b, b, b, a, c, b, b>> => Starts(b, 2)
    /\ hist = <<b, b, b, b, b, b, c, c>> => Starts(c, 2)

\* A digit is given to the callback once for each time it is held: between two
\* reports of it there are two blocks in a row without it.
OncePerPress ==
  \A i, j \in 1 .. Len(hist) :
    (i < j /\ reports[i] # None /\ reports[j] = reports[i]) =>
      \E k \in i + 1 .. j - 1 : hist[k] # reports[i] /\ hist[k + 1] # reports[i]

\* The two other patterns of the comment: a digit starts at the second of two
\* equal hits also when a block of another digit comes just before.  Not so: the
\* code declares the end of the tone at the second change.
WobblyStart ==
  \A a, b, c \in Digits : Distinct(a, b, c) =>
    /\ hist = <<None, None, None, None, None, a, b, b>> => Starts(b, 2)
    /\ hist = <<b, b, b, b, b, c, a, a>> => Starts(a, 1)
=============================================================================

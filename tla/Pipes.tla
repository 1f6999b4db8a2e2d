-------------------------------- MODULE Pipes --------------------------------
(***************************************************************************)
(* What the streams of a session promise their readers, however chunks     *)
(* travel: a writer's chunks have consecutive numbers, and whoever reads   *)
(* takes one chunk after the other, each one written before, of a higher   *)
(* number than the last, and taken by nobody else.  Chunks may be left     *)
(* out; none is taken back or repeated (stream.go:15).                     *)
(***************************************************************************)
EXTENDS Naturals, Sequences

VARIABLES
    written,  \* written[w]: how many chunks were written into pipe end w
    taken     \* taken[r]: the chunks that came out of pipe end r

Last(s) == s[Len(s)]

Init == written = <<>> /\ taken = <<>>

\* A pipe end is made; at this end nothing was written or read before.
Open ==
    /\ written' = Append(written, 0)
    /\ taken' = Append(taken, <<>>)

Write(w) ==
    /\ written' = [written EXCEPT ![w] = @ + 1]
    /\ UNCHANGED taken

\* Written, and taken by nobody yet.
Available(c) ==
    /\ c.of \in DOMAIN written
    /\ c.seq < written[c.of]
    /\ \A r \in DOMAIN taken : \A i \in DOMAIN taken[r] : taken[r][i] # c

\* Which chunk comes out next is left open, and so is of which writer: a reader
\* may outlive the writer it heard first, and hear the next one of that name.
Take(r, c) ==
    /\ Available(c)
    /\ taken[r] # <<>> => c.seq > Last(taken[r]).seq
    /\ taken' = [taken EXCEPT ![r] = Append(@, c)]
    /\ UNCHANGED written

\* The first chunk may make the end it comes out of.
OpenAndTake(c) ==
    /\ Available(c)
    /\ written' = Append(written, 0)
    /\ taken' = Append(taken, <<c>>)

Next ==
    \/ Open
    \/ \E w \in DOMAIN written : Write(w)
    \/ taken' # taken /\ \E r \in DOMAIN taken' :
         /\ taken'[r] # <<>>
         /\ IF r \in DOMAIN taken THEN Take(r, Last(taken'[r]))
            ELSE OpenAndTake(Last(taken'[r]))

Spec == Init /\ [][Next]_<<written, taken>>

=============================================================================

----------------------------- MODULE MCSelectMap -----------------------------
(* Streams of three runs of equal words, with lengths around the sizes of   *)
(* the bursts; the first run is of the word that is on the pins already.    *)
EXTENDS SelectMap

CONSTANTS First, Second, Third  \* the lengths of the runs

Run(word, n) == [j \in 1..n |-> word]

MCStreams ==
    {Run("zero", a) \o Run("one", b) \o Run("zero", c) :
        a \in First, b \in Second, c \in Third} \ {<<>>}
=============================================================================

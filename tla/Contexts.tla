------------------------------- MODULE Contexts -------------------------------
(***************************************************************************)
(* The contexts that the programs of the repository get from FFmpeg        *)
(* (libavformat, libavcodec and libavfilter are external) and the steps    *)
(* their functions are made of: a step is one library call, with the       *)
(* contexts it dereferences, those it gives, and what happens to them      *)
(* when it fails.  A function is a sequence of steps.                      *)
(***************************************************************************)
EXTENDS Naturals, Sequences, SequencesExt

CONSTANT Tracks   (* tracks, the number of inputs of a mixer; amix has two *)

ASSUME TracksAssumption == Tracks \in Nat /\ Tracks >= 2

Track == 1..Tracks

\* The pointers a program keeps.  Dec(i) points into In(i), Enc(i) and
\* Muxer(i) (the state avformat_write_header sets up) into Out(i), Src(k, i)
\* and Sink(k) into Graph(k).
In(i) == <<"in", i, 0>>
Dec(i) == <<"dec", i, 0>>
Out(i) == <<"out", i, 0>>
Io(i) == <<"io", i, 0>>
Enc(i) == <<"enc", i, 0>>
Muxer(i) == <<"muxer", i, 0>>
Graph(k) == <<"graph", k, 0>>
Src(k, i) == <<"src", k, i>>
Sink(k) == <<"sink", k, 0>>
Data(n) == <<"data", n, 0>>    \* frames, buffers and the like
Frame == Data(0)

Contexts ==
    {<<kind, i, 0>> : kind \in {"in", "dec", "out", "io", "enc", "muxer",
                                "graph", "sink"}, i \in Track}
    \cup {<<"src", k, i>> : k \in Track, i \in Track}
    \cup {<<"data", n, 0>> : n \in 0..3}

\* What a context is a part of: freeing that leaves the pointer dangling.
Whole(c) ==
    CASE c[1] = "dec" -> In(c[2])
      [] c[1] \in {"enc", "muxer"} -> Out(c[2])
      [] c[1] \in {"src", "sink"} -> Graph(c[2])
      [] OTHER -> c

\* null: NULL; open: valid; stale: set, but what it pointed to is gone.
PointerStates == {"null", "open", "stale"}

NothingOpen == [c \in Contexts |-> "null"]

Give(ptr, cs) == [c \in Contexts |-> IF c \in cs THEN "open" ELSE ptr[c]]

Free(ptr, cs) ==
    [c \in Contexts |->
        IF c \in cs THEN "null"
        ELSE IF ptr[c] = "open" /\ Whole(c) \in cs THEN "stale" ELSE ptr[c]]
-----------------------------------------------------------------------------
(* Steps. *)

\* A call that dereferences the contexts uses, does not fail, and sets the
\* contexts gives.
Sure(uses, gives) ==
    [uses |-> uses, gives |-> gives, frees |-> {}, undo |-> {},
     failure |-> "never", only |-> {}, needs |-> {},
     skipped |-> FALSE, push |-> 0, pull |-> 0]

\* A call whose failure is returned; what has been opened for it is freed
\* before (undo).
Try(uses, gives, undo) ==
    [Sure(uses, gives) EXCEPT !.failure = "returned", !.undo = undo]

\* A call whose result nobody looks at.
Unchecked(uses, gives) == [Sure(uses, gives) EXCEPT !.failure = "unnoticed"]

\* A call whose failure ends the loop around it, and nothing more.
TryOrBreak(uses, gives) == [Sure(uses, gives) EXCEPT !.failure = "break"]

\* if (c) free(c), for each c of cs.
Release(cs) == [Sure({}, {}) EXCEPT !.frees = cs]

\* A step that is not taken in every round or for every file.
Maybe(s) == [s EXCEPT !.skipped = TRUE]

\* if (c) s
If(c, s) == [s EXCEPT !.only = {c}]

\* if (!a && !b ...) return an error
Require(cs) == [Sure({}, {}) EXCEPT !.needs = cs]

\* The contexts from become the contexts to.
Move(from, to) == [Sure(from, to) EXCEPT !.frees = from]

\* The mixes one client further on.
PushNextSink(k) == [Sure({Graph(k)}, {Sink(k)}) EXCEPT !.push = k + 1]

\* sinkVec.push_back, after the graph of client k is configured.
PushSink(k) == [Sure({Graph(k)}, {Sink(k)}) EXCEPT !.push = k]

\* av_buffersink_get_frame(sinkVec[k], frame) for output k.
PullSink(k) ==
    [Maybe(Try({Frame}, {}, {})) EXCEPT !.pull = k]

ForEach(S(_), n) == FlattenSeq([k \in 1..n |-> S(k)])
-----------------------------------------------------------------------------
(* Programs: calls one after the other.  onerror says what the caller does *)
(* when the function returns an error: end the process, print and go on,   *)
(* or go to the label end, which is the last call.                         *)

Call(name, body, onerror) ==
    [name |-> name, body |-> body, onerror |-> onerror, again |-> FALSE]

\* A loop whose rounds are the body, until the input is exhausted.
Loop(name, body, onerror) == [Call(name, body, onerror) EXCEPT !.again = TRUE]
=============================================================================

----------------------------- MODULE MCTranscoding -----------------------------
(***************************************************************************)
(* The conversions TLC checks.  Each is small; together they have pictures *)
(* that come early, late, twice and out of order, pictures whose length is *)
(* no whole number of frames or not known, audio of different lengths      *)
(* mixed, copies with missing and disordered timestamps to muxers of each  *)
(* kind, files that jump and files that are read twice, and the limits     *)
(* -frames, -t and -shortest.                                              *)
(***************************************************************************)
EXTENDS Transcoding

No == -1000
All == 1000

P(dts, pts, dur) == [dts |-> dts, pts |-> pts, dur |-> dur, key |-> TRUE, stream |-> 0]
Inner(dts, pts, dur) == [P(dts, pts, dur) EXCEPT !.key = FALSE]

Sound(f, depth, packets) ==
    [type |-> "audio", file |-> f, depth |-> depth, rate |-> 0, packets |-> packets]
Pictures(f, depth, packets) ==
    [type |-> "video", file |-> f, depth |-> depth, rate |-> 20, packets |-> packets]
Unrated(f, depth, packets) == [Pictures(f, depth, packets) EXCEPT !.rate = 0]
Once == [loop |-> 0, discont |-> FALSE]

Output(type, of, from) ==
    [type |-> type, copy |-> FALSE, of |-> of, from |-> from, hold |-> 0,
     lag |-> 0, max_frames |-> 50, sync |-> "none", dur |-> 20,
     filters |-> FALSE, repairs |-> {"guess", "order"}, step |-> 1,
     bsf |-> FALSE, begins |-> {}]
Audio(of, from, hold) == [Output("audio", of, from) EXCEPT !.hold = hold]
Movie(of, from, sync, hold, lag) ==
    [Output("video", of, from) EXCEPT !.hold = hold, !.lag = lag, !.sync = sync]
Copy(type, of, s) == [Output(type, of, {s}) EXCEPT !.copy = TRUE]

Conversion(files, inputStreams, outputs) ==
    [files |-> files, inputs |-> inputStreams, outputs |-> outputs,
     time |-> [f \in {outputs[o].of : o \in DOMAIN outputs} |-> All],
     shortest |-> {}]

Tone(n) == [k \in 1..n |-> P(20 * k - 20, 20 * k - 20, 20)]

\* Pictures in time, early, late, with a gap, and in coding order.
Timings ==
    {<<P(0, 0, 20), P(20, 20, 20), P(40, 40, 20)>>,
     <<P(4, 4, 20), P(12, 12, 20), P(18, 18, 20)>>,
     <<P(30, 30, 20), P(36, 36, 10), P(98, 98, 20)>>,
     <<P(0, 0, 20), P(70, 70, 50), P(200, 200, 20)>>,
     <<P(0, 0, 20), P(90, 90, 20), P(200, 200, 20)>>,
     <<P(-20, 0, 20), P(0, 40, 20), P(20, 20, 20)>>}

Methods == {"CFR", "VSCFR", "VFR", "PASSTHROUGH"}

Films ==
    {Conversion(<<Once>>, <<Pictures(1, 1, packets)>>,
                <<Movie(1, {1}, sync, hold, lag)>>) :
        packets \in Timings, sync \in Methods, hold \in {0, 1}, lag \in {0, 1}}

\* Pictures whose length is that of a frame rate, or not known: 0, 0.4, 1.2 and
\* 1.7 frames.
Rates ==
    {Conversion(<<Once>>, <<Pictures(1, 0, packets)>>,
                <<[Movie(1, {1}, sync, 0, 0) EXCEPT !.dur = dur, !.filters = filters]>>) :
        packets \in Timings \cup {<<P(26, 26, 0), P(50, 50, 8), P(108, 108, 0)>>},
        sync \in {"CFR", "VSCFR"}, dur \in {0, 8, 25, 34}, filters \in BOOLEAN}

\* A film with its sound, to one file or to two.
Both ==
    {Conversion(<<Once>>, <<Pictures(1, 1, packets), Sound(1, 1, Tone(2))>>,
                <<Movie(1, {1}, "CFR", 1, 0), Audio(of, {2}, 1)>>) :
        packets \in Timings, of \in {1, 2}}

Mixes ==
    {Conversion(<<Once, Once>>, <<Sound(1, 1, Tone(m)), Sound(2, 0, Tone(n))>>,
                <<Audio(1, {1, 2}, 1)>>) : m \in 1..3, n \in 1..3}

\* Copies: missing timestamps, steps back, a dts after its pts, a jump.
Disorders ==
    {<<Inner(0, 0, 20), P(20, 20, 20), P(20, 20, 20)>>,
     <<P(No, 0, 20), P(No, No, 20), P(10, 30, 20)>>,
     <<P(40, 20, 20), P(10, 10, 20), P(30, 40, 20)>>,
     <<P(0, 0, 20), P(600, 600, 20), P(620, 630, 20)>>}

Copies ==
    {Conversion(<<[Once EXCEPT !.discont = jumps]>>,
                <<Pictures(1, 1, packets), Sound(1, 0, tone)>>,
                <<Copy("video", 1, 1), out>>) :
        packets \in Disorders, jumps \in BOOLEAN,
        tone \in {Tone(2), <<P(300, 300, 20)>>},
        out \in {Copy("audio", 1, 2), Audio(1, {2}, 0)}}

\* Muxers without the repairs, with one, with equal dts, with bitstream
\* filters.
Muxers ==
    {Conversion(<<Once>>, <<Pictures(1, 1, packets)>>,
                <<[out EXCEPT !.repairs = muxer.repairs, !.step = muxer.step,
                              !.bsf = muxer.bsf]>>) :
        packets \in Disorders,
        out \in {Copy("video", 1, 1), Movie(1, {1}, "PASSTHROUGH", 1, 0)},
        muxer \in {[repairs |-> {}, step |-> 1, bsf |-> FALSE],
                   [repairs |-> {"guess"}, step |-> 1, bsf |-> FALSE],
                   [repairs |-> {"guess", "order"}, step |-> 0, bsf |-> FALSE],
                   [repairs |-> {"guess", "order"}, step |-> 1, bsf |-> TRUE]}}

\* Copies that may begin before the first key frame or the start time.
Beginnings ==
    {Conversion(<<Once>>, <<Pictures(1, 0, <<Inner(-20, -20, 20), P(No, -4, 0), P(No, No, 20)>>)>>,
                <<[Copy("video", 1, 1) EXCEPT !.begins = begins]>>) :
        begins \in SUBSET {"nonkey", "prior"}}

\* Pictures of no known length, in a file that jumps, and twice without
\* timestamps.
Lengthless ==
    {Conversion(<<[loop |-> times, discont |-> TRUE]>>,
                <<Unrated(1, 0, packets)>>, <<out>>) :
        times \in {0, 1},
        packets \in {<<P(0, 0, 0), P(200, 200, 0)>>, <<P(No, No, 0), P(No, No, 0)>>, <<>>},
        out \in {Movie(1, {1}, "CFR", 0, 0), Copy("video", 1, 1)}}

Again ==
    {Conversion(<<[Once EXCEPT !.loop = 1]>>,
                <<Pictures(1, depth, <<P(0, 0, 20), P(20, 20, 20)>>), Sound(1, 1, Tone(2))>>,
                <<Movie(1, {1}, "CFR", 0, 0), out>>) :
        depth \in {1, 2}, out \in {Copy("audio", 1, 2), Audio(1, {2}, 1)}}

\* Two films and a copy, where the first file ends, is full or is long enough.
Limited ==
    {[c EXCEPT !.time = [f \in DOMAIN @ |-> time], !.shortest = short,
               !.outputs = [o \in DOMAIN @ |-> [@[o] EXCEPT !.max_frames = max]]] :
        c \in {Conversion(<<Once>>,
                 <<Pictures(1, 0, <<P(0, 0, 20), P(60, 60, 20)>>), Sound(1, 0, Tone(3))>>,
                 <<Movie(1, {1}, "CFR", 1, 0), out>>) :
                 out \in {Copy("audio", 1, 2), Audio(1, {2}, 0), Audio(2, {2}, 1)}},
        time \in {30, All}, short \in {{}, {1}}, max \in {2, 50}}

ConversionsTried ==
    Films \cup Rates \cup Both \cup Mixes \cup Copies \cup Muxers
        \cup Beginnings \cup Lengthless \cup Again \cup Limited
=============================================================================

-------------------------- MODULE MCSeriesConsumer --------------------------
(* Every small series: a start in the past, now or later, with and without *)
(* stop and interval.                                                      *)
EXTENDS SeriesConsumer

MCSeries ==
    {NewEntry(start, span, interval, 10) :
        start \in -2 .. 3, span \in {None} \cup (1 .. 6), interval \in {None} \cup (1 .. 3)}
==============================================================================

------------------------------- MODULE MCWorker -------------------------------
EXTENDS Worker

Plain == [generic |-> FALSE, restricted |-> FALSE, kind |-> "plain", length |-> 1, size |-> 1]

(* One of each kind, of unknown extent, at each limit and beyond it        *)
EachMedia ==
    {Plain,
     [Plain EXCEPT !.generic = TRUE],
     [Plain EXCEPT !.restricted = TRUE, !.length = 0, !.size = 0],
     [Plain EXCEPT !.length = 2],
     [Plain EXCEPT !.size = 2],
     [Plain EXCEPT !.kind = "live"],
     [Plain EXCEPT !.kind = "drm"]}
=============================================================================

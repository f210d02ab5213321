----------------------------- MODULE BronzeRows -----------------------------
(***************************************************************************)
(* Sets of measurement rows: records with an identity (key), a raw payload *)
(* (raw) and, in the tables, the load that wrote them (load).              *)
(***************************************************************************)

\* One payload per identity.
UniqueKeys(rows) == \A r, s \in rows : r.key = s.key => r = s

KeysOf(rows) == {r.key : r \in rows}

\* The rows whose measurement period starts inside a window.
Within(rows, window) == {r \in rows : r.key \in window}

Outside(rows, window) == {r \in rows : r.key \notin window}

\* What a reader sees of rows, whoever loaded them.
Content(rows) == {[key |-> r.key, raw |-> r.raw] : r \in rows}

\* Mutant: sensor and parameter are bound in each other's place, which names an
\* identity that nothing has.
StampedSwapped(rows, l) == {[key |-> "swapped", raw |-> r.raw, load |-> l] : r \in rows}

\* Rows of load l carrying the content of the given rows.
Stamped(rows, l) == {[key |-> r.key, raw |-> r.raw, load |-> l] : r \in rows}

\* The rows of one load, and those of all others.
Of(rows, l) == {r \in rows : r.load = l}
NotOf(rows, l) == {r \in rows : r.load # l}
=============================================================================

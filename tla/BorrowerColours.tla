--------------------------- MODULE BorrowerColours ---------------------------
(***************************************************************************)
(* The colours that tell the borrowers of one page apart                   *)
(* (distinct_borrower_names of app/models.py).  A borrower's key is the id *)
(* of the applicant, a colour its place in the palette, and the hash of a  *)
(* key an arbitrary place: preference.                                     *)
(***************************************************************************)
EXTENDS Integers, Sequences, FiniteSetsExt, Functions

\* A deviation: only the next colour is tried.
ProbeOnce(size, preference, resolved, key) ==
  LET used == Range(resolved)
  IN  [k \in DOMAIN resolved \union {key} |->
         IF k \in DOMAIN resolved THEN resolved[k]
         ELSE IF preference[key] \in used THEN (preference[key] + 1) % size
                                          ELSE preference[key]]

\* Linear probing: the first free colour from the preferred one on, the preferred
\* one itself once the palette is exhausted.
Probe(size, preference, resolved, key) ==
  LET used == Range(resolved)
      free == {d \in 0 .. size - 1 : (preference[key] + d) % size \notin used}
      step == IF free = {} THEN 0 ELSE Min(free)
  IN  [k \in DOMAIN resolved \union {key} |->
         IF k \in DOMAIN resolved THEN resolved[k]
                                  ELSE (preference[key] + step) % size]

\* Keys are served in the order of their preferred colours, then by key.
ServedBefore(preference, a, b) ==
  \/ preference[a] < preference[b]
  \/ preference[a] = preference[b] /\ a < b

NextServed(preference, waiting) ==
  CHOOSE key \in waiting :
    \A other \in waiting \ {key} : ServedBefore(preference, key, other)

\* What is resolved once n of the keys have been served.
Resolved(size, preference, keys) ==
  LET resolved[n \in 0 .. Cardinality(keys)] ==
        IF n = 0
          THEN << >>
          ELSE LET sofar == resolved[n - 1]
               IN  Probe(size, preference, sofar,
                         NextServed(preference, keys \ DOMAIN sofar))
  IN  resolved

DistinctColours(size, preference, keys) ==
  Resolved(size, preference, keys)[Cardinality(keys)]

=============================================================================

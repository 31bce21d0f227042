---- MODULE Dictionaries ----
(* What variant_object and mutable_variant_object promise (include/fc/variant_object.hpp:11-22):
   each is a list of entries of its own in the order of insertion. An operation changes the one it
   is called on, by one edit or to the value of another; moving also changes the source. *)
EXTENDS Naturals, Sequences, SequencesExt

CONSTANTS Handles,      \* the variables of a program that hold a dictionary
          Keys, Values,
          NoValue,      \* the null variant operator[] inserts
          Moved         \* a mutable dictionary that was moved from

VARIABLE dict

Entry(k, v) == <<k, v>>
Has(d, k) == \E i \in DOMAIN d : d[i][1] = k
First(d, k) == CHOOSE i \in DOMAIN d : d[i][1] = k /\ \A j \in 1..i - 1 : d[j][1] # k

\* set(): the first entry with the key gets the value, or a new one is appended.
Placed(d, e) == IF Has(d, e[1]) THEN [d EXCEPT ![First(d, e[1])] = e] ELSE Append(d, e)

\* erase(): the first entry with the key.
Erased(d, k) == IF Has(d, k) THEN RemoveAt(d, First(d, k)) ELSE d

\* operator()( dictionary ): every entry of it is set.
Merged(d, from) == FoldLeft(Placed, d, from)

Edits(d) == {Append(d, Entry(k, v)) : k \in Keys, v \in Values}
            \cup {Placed(d, Entry(k, v)) : k \in Keys, v \in Values}
            \cup {IF Has(d, k) THEN d ELSE Append(d, Entry(k, NoValue)) : k \in Keys}
            \cup {Erased(d, k) : k \in Keys}
            \cup {Merged(d, dict[h]) : h \in {g \in Handles : dict[g] # Moved}}

Fresh == {<<>>} \cup {<<Entry(k, v)>> : k \in Keys, v \in Values}

DcInit == dict = [h \in Handles |-> <<>>]

Others(hs) == \A g \in Handles \ hs : dict'[g] = dict[g]

Replace(h) == Others({h}) /\ dict'[h] \in Fresh
Edit(h) == Others({h}) /\ dict[h] # Moved /\ dict'[h] \in Edits(dict[h])
CopyTo(h, g) == Others({h}) /\ dict[g] # Moved /\ dict'[h] = dict[g]
MoveTo(h, g) == /\ Others({g, h}) /\ dict[g] # Moved /\ dict'[h] = dict[g]
                /\ dict'[g] \in {<<>>, dict[h], Moved}

DcNext == /\ dict' = [h \in Handles |-> dict'[h]]
          /\ \E h \in Handles : \/ Replace(h) \/ Edit(h)
                               \/ \E g \in Handles : CopyTo(h, g) \/ MoveTo(h, g)

DcSpec == DcInit /\ [][DcNext]_dict
====

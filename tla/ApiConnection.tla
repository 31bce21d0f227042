---- MODULE ApiConnection ----
(* fc::api_connection (include/fc/rpc/api_connection.hpp; binary_api_connection.hpp likewise): APIs
   that methods return are published under numbers. They are told apart by their handle, the address
   of what they share; proxies of another connection's APIs all have the null handle. Callbacks get
   a new number each time. *)
EXTENDS Integers, Sequences, SequencesExt, FiniteSets

CONSTANTS Addresses,    \* where the allocator may place the _data of an api
          Null,         \* the handle of a proxy
          MaxObjects    \* bounds the objects that are made

ASSUME ApAssumption == Null \notin Addresses /\ MaxObjects \in Nat

VARIABLES heap,         \* the object at each address, 0 if there is none
          objects,      \* how many objects, and proxies, there were
          kept,         \* the APIs the program itself holds: <<handle, object>>
          local_apis,   \* _local_apis: what generic_api::_api holds
          handle_to_id, \* _handle_to_id
          proxies       \* numbers the peer got, each with the object it was for

apVars == <<heap, objects, kept, local_apis, handle_to_id, proxies>>

ApInit == /\ heap = [a \in Addresses |-> 0] /\ objects = 0 /\ kept = {}
          /\ local_apis = <<>> /\ handle_to_id = [h \in {} |-> 0] /\ proxies = {}
----
\* The addresses something holds: the program, or a generic_api.
InUse(held, apis) == {k[1] : k \in held \cup ToSet(apis)}

\* What nobody holds is freed.
Freed == heap' = [a \in Addresses |-> IF a \in InUse(kept', local_apis') THEN heap[a] ELSE 0]

\* api( p ): a new _data, at an address that is free.
MakeApi(a) == /\ heap[a] = 0 /\ objects < MaxObjects /\ objects' = objects + 1
              /\ heap' = [heap EXCEPT ![a] = objects + 1] /\ kept' = kept \cup {<<a, objects + 1>>}
              /\ UNCHANGED <<local_apis, handle_to_id, proxies>>

\* get_remote_api() of another connection: a proxy, without a _data.
MakeProxy == /\ objects < MaxObjects /\ objects' = objects + 1
             /\ kept' = kept \cup {<<Null, objects + 1>>}
             /\ UNCHANGED <<heap, local_apis, handle_to_id, proxies>>

DropApi(k) == /\ kept' = kept \ {k} /\ UNCHANGED <<objects, local_apis, handle_to_id, proxies>>
              /\ Freed

\* A method returns an API, found by its handle or appended; the peer makes a proxy with the number.
ReturnApi(k) ==
  LET known == k[1] \in DOMAIN handle_to_id
      id == IF known THEN handle_to_id[k[1]] ELSE Len(local_apis)
  IN /\ k \in kept
     /\ local_apis' = IF known THEN local_apis ELSE Append(local_apis, k)
     /\ handle_to_id' = [h \in DOMAIN handle_to_id \cup {k[1]} |->
                           IF h = k[1] THEN id ELSE handle_to_id[h]]
     /\ proxies' = proxies \cup {<<id, k[2]>>} /\ UNCHANGED <<heap, objects, kept>>

ApNext == \/ \E a \in Addresses : MakeApi(a)
          \/ MakeProxy
          \/ \E k \in kept : DropApi(k) \/ ReturnApi(k)

ApSpec == ApInit /\ [][ApNext]_apVars
----
(* Properties. *)

\* The domain of every variable.  An API that is held is where its handle says.
ApTypeOK ==
  /\ heap \in [Addresses -> 0..objects] /\ objects \in 0..MaxObjects
  /\ kept \subseteq (Addresses \cup {Null}) \X (1..objects)
  /\ \A k \in kept \cup ToSet(local_apis) : k[1] # Null => heap[k[1]] = k[2]
  /\ DOMAIN handle_to_id \subseteq Addresses \cup {Null}
  /\ \A h \in DOMAIN handle_to_id : handle_to_id[h] \in 0..Len(local_apis) - 1

\* receive_call(): a number reaches the object it was given for, even if the program has dropped its
\* API since.  Proxies passed on, which share one handle, are the exception.
ProxyReachesItsObject ==
  \A p \in proxies :
      /\ p[1] < Len(local_apis)
      /\ local_apis[p[1] + 1][2] = p[2] \/ local_apis[p[1] + 1][1] = Null
====

---- MODULE VariantStorage ----
(* class variant (src/variant.cpp) as storage: a tag, and for a string, an
   array or a blob a pointer to a cell of the heap.  The items of an array
   are variants too; here an array has one item, which is no array.  A
   cell of a blob is never freed, and copies of the variant share it. *)
EXTENDS Integers, FiniteSets, Sequences, SequencesExt

CONSTANTS Holders,      \* variants of the program
          Cells,        \* of the heap
          Contents,     \* what a cell or a variant can hold
          Nowhere

VARIABLES slot,         \* of each variant: its type and its data
          cell,         \* what the heap holds
          named         \* ghost: the variants the last operation was called for

vsVars == <<slot, cell, named>>

NullWord == [type |-> "null", data |-> Nowhere]
Free == [type |-> "free", data |-> Nowhere]
PointerTypes == {"string", "array", "blob"}

\* Where variants are: with the program, or in a cell of an array.
Words == Holders \cup Cells
WordAt(p) == IF p \in Holders THEN slot[p] ELSE IF cell[p].type = "array" THEN cell[p].data ELSE NullWord
Leaf(w) == w.type # "array"

VsInit ==
  /\ slot = [h \in Holders |-> NullWord] /\ cell = [c \in Cells |-> Free] /\ named = {}

\* clear(): strings and arrays are deleted, an array with its item; blobs are not.
Cleared(heap, w) ==
  LET item == IF w.type = "array" THEN heap[w.data].data ELSE NullWord
  IN [c \in Cells |-> IF w.type \in {"string", "array"} /\ c = w.data THEN Free
                      ELSE IF item.type = "string" /\ c = item.data THEN Free ELSE heap[c]]

\* Fault: the pointer is copied with the rest of an array.
CopiedShallow(heap, w, c, d) ==
  CASE w.type = "string" -> <<[heap EXCEPT ![c] = heap[w.data]], [w EXCEPT !.data = c]>>
    [] OTHER -> <<heap, w>>

\* A copy of a slot: a new string, a new array with a copy of its item; the rest,
\* the pointer of a blob too, as it is.  c and d are free cells.
Copied(heap, w, c, d) ==
  LET item == heap[w.data].data
      own == IF item.type = "string" THEN [item EXCEPT !.data = d] ELSE item
  IN CASE w.type = "string" -> <<[heap EXCEPT ![c] = heap[w.data]], [w EXCEPT !.data = c]>>
       [] w.type = "array" ->
             <<[e \in Cells |-> IF e = c THEN [type |-> "array", data |-> own]
                                ELSE IF e = d /\ item.type = "string" THEN heap[item.data] ELSE heap[e]],
               [w EXCEPT !.data = c]>>
       [] OTHER -> <<heap, w>>

\* The cells that the next two allocations take, if there are two.
TwoFree == LET free == {c \in Cells : cell[c] = Free}
               pairs == {p \in free \X free : p[1] # p[2]}
           IN IF pairs = {} THEN {} ELSE {CHOOSE p \in pairs : TRUE}

\* The slot at a place becomes w, in this heap.
Store(p, heap, w) ==
  IF p \in Holders THEN slot' = [slot EXCEPT ![p] = w] /\ cell' = heap
  ELSE slot' = slot /\ cell' = [heap EXCEPT ![p].data = w]

\* The place that is written: a variant, or the item of its array by get_array().
Item(h) == slot[h].data
Target(h, p) == p = h \/ (slot[h].type = "array" /\ p = Item(h))
----
\* variant = a number, a string or a blob: by a temporary that is moved from.
Assign(h, p, x) ==
  /\ Target(h, p) /\ named' = {h}
  /\ LET heap == Cleared(cell, WordAt(p)) IN
     \/ Store(p, heap, [type |-> "number", data |-> x])
     \/ \E t \in {"string", "blob"}, f \in TwoFree :
          Store(p, [heap EXCEPT ![f[1]] = [type |-> t, data |-> x]], [type |-> t, data |-> f[1]])

\* variant = variants{ v }: a copy of v within an array.
AssignArray(h, v) ==
  /\ Leaf(slot[v]) /\ named' = {h}
  /\ \E p \in TwoFree :
      LET item == Copied(cell, slot[v], p[2], p[2])
          made == [item[1] EXCEPT ![p[1]] = [type |-> "array", data |-> item[2]]]
      IN Store(h, Cleared(made, slot[h]), [type |-> "array", data |-> p[1]])

\* operator=( const variant& ): nothing if it is the same variant.  A variant must
\* not be assigned an item of its own array: clear() deletes that first.
CopyAssign(h, p, v, q) ==
  /\ Target(h, p) /\ Target(v, q) /\ p # q /\ ~(p = h /\ h = v) /\ named' = {h}
  /\ p \in Cells => Leaf(WordAt(q))
  /\ \E f \in TwoFree :
      LET copy == Copied(Cleared(cell, WordAt(p)), WordAt(q), f[1], f[2]) IN Store(p, copy[1], copy[2])

\* operator=( variant&& ): what was there is null.
MoveVariant(h, v) ==
  /\ h # v /\ named' = {h, v}
  /\ slot' = [slot EXCEPT ![h] = slot[v], ![v] = NullWord] /\ cell' = Cleared(cell, slot[h])

\* Moved into the item of an array, or out of it.
MoveItem(h, v) ==
  /\ h # v /\ slot[h].type = "array" /\ named' = {h, v}
  /\ LET c == Item(h) IN
     \/ /\ Leaf(slot[v]) /\ slot' = [slot EXCEPT ![v] = NullWord]
        /\ cell' = [Cleared(cell, cell[c].data) EXCEPT ![c].data = slot[v]]
     \/ /\ slot' = [slot EXCEPT ![v] = cell[c].data]
        /\ cell' = [Cleared(cell, slot[v]) EXCEPT ![c].data = NullWord]

\* clear(), or a variant that is destroyed and another that is made.
ClearVariant(h) == Store(h, Cleared(cell, slot[h]), NullWord) /\ named' = {h}

\* get_blob() yields the blob to write to: every copy is written to.
WriteBlob(h, x) ==
  /\ slot[h].type = "blob" /\ cell' = [cell EXCEPT ![slot[h].data].data = x] /\ UNCHANGED slot
  /\ named' = {v \in Holders : slot[v] = slot[h] \/ (slot[v].type = "array" /\ cell[Item(v)].data = slot[h])}

VsNext ==
  \/ \E h \in Holders, p \in Words, x \in Contents : Assign(h, p, x)
  \/ \E h, v \in Holders : AssignArray(h, v) \/ MoveVariant(h, v) \/ MoveItem(h, v)
  \/ \E h, v \in Holders, p, q \in Words : CopyAssign(h, p, v, q)
  \/ \E h \in Holders : ClearVariant(h) \/ \E x \in Contents : WriteBlob(h, x)
----
(* Properties. *)

Holding(c) == {p \in Words : WordAt(p).type \in PointerTypes /\ WordAt(p).data = c}

\* A string or an array is reached from one place, which knows its type, as long
\* as it is on the heap; no variant points to what was deleted.
OneOwner ==
  /\ \A p \in Words : WordAt(p).type \in PointerTypes => cell[WordAt(p).data].type = WordAt(p).type
  /\ \A c \in Cells : cell[c].type \in {"string", "array"} => Cardinality(Holding(c)) = 1

\* What the program reads of a variant.
Seen(h) ==
  LET Plain(w) == IF w.type \in {"string", "blob"} THEN <<w.type, cell[w.data].data>> ELSE <<w.type, w.data>>
  IN IF slot[h].type = "array" THEN <<"array", Plain(WordAt(Item(h)))>> ELSE <<"leaf", Plain(slot[h])>>

\* An operation changes no variant but those it is called for: copies are
\* independent, those of a blob excepted.
CopiesAreIndependent == [][\A h \in Holders : h \notin named' => Seen(h)' = Seen(h)]_vsVars

----
(* optional<T> (include/fc/optional.hpp) and static_variant<Ts...>
   (include/fc/static_variant.hpp) as storage: room for an object, and a
   flag or a tag that says which object lives there.  Objects are made and
   destroyed in place, and the copy of an object may throw. *)

CONSTANTS Optionals,    \* variables of type optional<T>
          StaticVariants,      \* variables of type static_variant<Ts...>
          Types,        \* Ts, of which T is one
          TheType       \* T

Absent == "absent"              \* _valid is false

ASSUME InPlaceAssumption ==
  TheType \in Types /\ Absent \notin Types /\ Optionals \intersect StaticVariants = {}

Variables == Optionals \cup StaticVariants
Raw0 == [type |-> Absent, moved |-> FALSE]
ObjectOf(t) == [type |-> t, moved |-> FALSE]

VARIABLES tag,          \* _tag, or T or Absent for _valid
          object,       \* what lives in the storage
          torn,         \* ghost: static_variants whose assignment threw
          misused       \* ghost: an object was made over another, or destroyed twice

ipVars == <<tag, object, torn, misused>>

IpInit ==
  /\ tag = [h \in Variables |-> IF h \in Optionals THEN Absent ELSE TheType]
  /\ object = [h \in Variables |-> IF h \in Optionals THEN Raw0 ELSE ObjectOf(TheType)]
  /\ torn = {} /\ misused = FALSE

\* h is destroyed if its tag says so, and made again as o: with this tag.
Destroyed(h) == tag[h] # Absent /\ object[h].type # tag[h]
Overwritten(h) == object[h] # Raw0
Remake(h, o) ==
  /\ tag' = [tag EXCEPT ![h] = o.type] /\ object' = [object EXCEPT ![h] = o]
  /\ misused' = (misused \/ Destroyed(h))
  /\ torn' = torn \ {h}

\* An object is made in storage that nothing lives in.
Make(h, o) ==
  /\ tag' = [tag EXCEPT ![h] = o.type] /\ object' = [object EXCEPT ![h] = o]
  /\ misused' = (misused \/ Overwritten(h)) /\ UNCHANGED torn

\* An object is assigned to the one that lives there.
AssignTo(h, o) ==
  /\ object' = [object EXCEPT ![h] = o] /\ misused' = (misused \/ object[h].type # TheType)
  /\ UNCHANGED <<tag, torn>>

MovedFrom(o) == [o EXCEPT !.moved = TRUE]
----
(* optional. *)

\* reset(), = nullptr, and the end of a variable that another begins as.
Reset(h) == Remake(h, Raw0)

\* operator=( U&& ): reset(), then the object is made; if that throws, none is there.
AssignValue(h) == Remake(h, ObjectOf(TheType)) \/ Reset(h)

\* Fault: the flag of the other one is copied whatever is made.
CopyOptionalFlag(h, o) ==
  /\ h # o /\ tag' = [tag EXCEPT ![h] = tag[o]]
  /\ object' = IF tag[o] = TheType THEN [object EXCEPT ![h] = object[o]] ELSE object
  /\ UNCHANGED <<torn, misused>>

\* operator=( const optional& ): assigned, made or reset; an assignment or a
\* construction that throws leaves what was there.
CopyOptional(h, o) ==
  /\ h # o
  /\ \/ /\ tag[h] = TheType /\ tag[o] = TheType /\ AssignTo(h, object[o])
     \/ /\ tag[h] # TheType /\ tag[o] = TheType /\ Make(h, object[o])
     \/ /\ tag[h] = TheType /\ tag[o] # TheType /\ Reset(h)

\* operator=( optional&& ): if both have an object the other one is reset; if only
\* the other has, its object is moved from and stays.
MoveOptional(h, o) ==
  /\ h # o
  /\ \/ /\ tag[h] = TheType /\ tag[o] = TheType /\ misused' = misused /\ torn' = torn
        /\ object' = [object EXCEPT ![h] = object[o], ![o] = Raw0] /\ tag' = [tag EXCEPT ![o] = Absent]
     \/ /\ tag[h] # TheType /\ tag[o] = TheType /\ misused' = (misused \/ Overwritten(h)) /\ torn' = torn
        /\ object' = [object EXCEPT ![h] = object[o], ![o] = MovedFrom(object[o])]
        /\ tag' = [tag EXCEPT ![h] = TheType]
     \/ /\ tag[h] = TheType /\ tag[o] # TheType /\ Reset(h)

\* A new optional from a moved one: the other is reset in every case.
MoveConstructOptional(h, o) ==
  /\ h # o /\ misused' = (misused \/ Destroyed(h)) /\ torn' = torn
  /\ object' = [object EXCEPT ![h] = object[o], ![o] = Raw0]
  /\ tag' = [tag EXCEPT ![h] = tag[o], ![o] = Absent]
----
(* static_variant. *)

\* clear_storage(), the tag, and a copy made in place; if that throws, the tag tells
\* of an object that is not there.
AssignChoice(h, o) ==
  \/ Remake(h, o)
  \/ /\ tag' = [tag EXCEPT ![h] = o.type] /\ object' = [object EXCEPT ![h] = Raw0]
     /\ misused' = (misused \/ Destroyed(h)) /\ torn' = torn \cup {h}

\* = X, or from_variant() by a copy of a new one: of another object, not the one
\* that h holds, which would be destroyed first.
AssignType(h, t) == h \notin torn /\ AssignChoice(h, ObjectOf(t))

CopyChoice(h, o) == h # o /\ {h, o} \intersect torn = {} /\ AssignChoice(h, object[o])

\* operator=( static_variant&& ), or a new one from a moved one.
MoveChoice(h, o) ==
  /\ h # o /\ {h, o} \intersect torn = {} /\ misused' = (misused \/ Destroyed(h)) /\ torn' = torn
  /\ object' = [object EXCEPT ![h] = object[o], ![o] = MovedFrom(object[o])]
  /\ tag' = [tag EXCEPT ![h] = object[o].type]

IpNext ==
  \/ \E h \in Optionals : Reset(h) \/ AssignValue(h)
  \/ \E h, o \in Optionals : CopyOptional(h, o) \/ MoveOptional(h, o) \/ MoveConstructOptional(h, o)
  \/ \E h \in StaticVariants, t \in Types : AssignType(h, t)
  \/ \E h, o \in StaticVariants : CopyChoice(h, o) \/ MoveChoice(h, o)

IpSpec == IpInit /\ [][IpNext]_ipVars
----
(* Properties. *)

\* The object that a flag or a tag tells of is there, and none that it does not
\* tell of: an exception of a copy does not harm an optional.
TagTellsObject == \A h \in Variables \ torn : object[h].type = tag[h]

\* A variable whose assignment threw is the only one that will destroy an object
\* that is not there; nothing is made over an object that lives.
DestroyedOnce == ~misused /\ \A h \in Variables : Destroyed(h) <=> h \in torn

\* optional and static_variant know what they hold, and destroy it once.
StorageIsTrue == TagTellsObject /\ DestroyedOnce
----
(* fc::variant_object, fc::mutable_variant_object and fc::variant_object_builder
   (src/variant_object.cpp, include/fc/variant_object.hpp). A variant_object shares the vector of
   its entries with its copies, which see what is written there; a mutable one owns its vector, and
   holds a null pointer once moved from; a builder appends to the vector of the variant_object it
   hands out. Constructing a variable that holds an object stands for the end of the old one too. *)

CONSTANTS Objects,      \* variables of type variant_object
          Builders,     \* ... of type variant_object_builder
          Mutables,     \* ... of type mutable_variant_object
          Keys, Values, NoValue,
          Moved,        \* the null pointer of a mutable object
          MaxEntries

Shared == Objects \cup Builders
Handles == Shared \cup Mutables

ASSUME VoAssumption ==
  /\ Objects \cap Mutables = {} /\ Builders \cap Mutables = {} /\ Objects \cap Builders = {}
  /\ MaxEntries \in Nat
  /\ \A k \in Keys, v \in Values \cup {NoValue} : Moved # <<>> /\ Moved # <<<<k, v>>>>

VARIABLES entries,      \* what _key_value of a variable points to
          users         \* who points to the same vector as a variant_object or a builder

voVars == <<entries, users>>

dict == entries
D == INSTANCE Dictionaries

VoInit == entries = [h \in Handles |-> <<>>] /\ users = [h \in Shared |-> {h}]

\* The vectors when h gets a new one, takes that of g, and when they swap theirs.
Alone(vectors, h) == [g \in Shared |-> IF g = h THEN {h} ELSE vectors[g] \ {h}]
Joined(vectors, h, g) ==
  [f \in Shared |-> IF f = h \/ f \in vectors[g] THEN vectors[g] \cup {h} ELSE vectors[f] \ {h}]
Swapped(vectors, h, g) ==
  LET other == [f \in Shared |-> IF f = h THEN g ELSE IF f = g THEN h ELSE f]
  IN [f \in Shared |-> {other[e] : e \in vectors[other[f]]}]
----
(* variant_object. *)

Holds(h, d) == entries' = [entries EXCEPT ![h] = d] /\ users' = Alone(users, h)

\* variant_object(), variant_object( key, val ), a new builder.
Construct(h) == \E d \in D!Fresh : Holds(h, d)

\* The copy constructor and the copy assignment; variant_object_builder::get().
CopyShared(o, h) == entries' = [entries EXCEPT ![o] = entries[h]] /\ users' = Joined(users, o, h)

\* The move constructor: a new vector for the source.
MoveConstruct(o, p) == /\ o # p /\ entries' = [entries EXCEPT ![o] = entries[p], ![p] = <<>>]
                       /\ users' = Alone(Joined(users, o, p), p)

\* The move assignment.
MoveAssign(o, p) == /\ entries' = [entries EXCEPT ![o] = entries[p], ![p] = entries[o]]
                    /\ users' = Swapped(users, o, p)

\* variant_object( const mutable_variant_object& ).
ConstructFrom(o, m) == entries[m] # Moved /\ Holds(o, entries[m])

\* variant_object( mutable_variant_object&& ) leaves a null pointer,
\* operator=( mutable_variant_object&& ) an empty vector.
Taken(o, m, left) == /\ entries[m] # Moved
                     /\ entries' = [entries EXCEPT ![o] = entries[m], ![m] = left]
                     /\ users' = Alone(users, o)
ConstructByMove(o, m) == Taken(o, m, Moved)
AssignByMove(o, m) == Taken(o, m, <<>>)

\* The vector h points to is written where it is, for all its users.
Written(h, d) == /\ entries' = [g \in Handles |-> IF g \in users[h] THEN d ELSE entries[g]]
                 /\ UNCHANGED users

\* operator=( const mutable_variant_object& ).
AssignFrom(o, m) == entries[m] # Moved /\ Written(o, entries[m])

\* variant_object_builder::append(), operator().
BuilderAppend(b) == /\ Len(entries[b]) < MaxEntries
                    /\ \E k \in Keys, v \in Values : Written(b, Append(entries[b], D!Entry(k, v)))
----
(* mutable_variant_object. *)

Becomes(m, d) == entries' = [entries EXCEPT ![m] = d] /\ UNCHANGED users

\* mutable_variant_object(), mutable_variant_object( key, val ).
ConstructMutable(m) == \E d \in D!Fresh : Becomes(m, d)

\* The constructor that copies an object of either kind.
CopyMutable(m, h) == m # h /\ entries[h] # Moved /\ Becomes(m, entries[h])

\* The assignments: to the vector itself, which must be there.
AssignMutable(m, h) == entries[m] # Moved /\ entries[h] # Moved /\ Becomes(m, entries[h])

\* The move constructor and the move assignment leave a null pointer.
MoveMutable(m, n) == /\ m # n /\ entries[n] # Moved
                     /\ entries' = [entries EXCEPT ![m] = entries[n], ![n] = Moved]
                     /\ UNCHANGED users

\* find(): the first entry with the key, 0 if there is none.
Found(d, k) == \E i \in DOMAIN d : d[i][1] = k
Find(d, k) == IF Found(d, k) THEN CHOOSE i \in DOMAIN d : d[i][1] = k /\ \A j \in 1..i - 1 : d[j][1] # k ELSE 0

\* Fault: the entry is moved to the end.
SetEntryAnew(d, e) ==
  Append(IF Find(d, e[1]) # 0 THEN RemoveAt(d, Find(d, e[1])) ELSE d, e)

SetEntry(d, e) == IF Find(d, e[1]) # 0 THEN [d EXCEPT ![Find(d, e[1])] = e] ELSE Append(d, e)

\* set(), operator()( key, val ) of a value that is no variant.
SetKey(m) == \E k \in Keys, v \in Values : entries[m] # Moved /\ Becomes(m, SetEntry(entries[m], <<k, v>>))

\* operator()( key, val ) of a variant: no entry is looked for.
AppendEntry(m) == \E k \in Keys, v \in Values : entries[m] # Moved /\ Becomes(m, Append(entries[m], <<k, v>>))

\* operator[]: a null entry if there is none.
Index(m) == \E k \in Keys :
    entries[m] # Moved /\ Find(entries[m], k) = 0 /\ Becomes(m, Append(entries[m], <<k, NoValue>>))

EraseEntry(d, k) == IF Find(d, k) # 0 THEN RemoveAt(d, Find(d, k)) ELSE d

Erase(m) == \E k \in Keys : entries[m] # Moved /\ Becomes(m, EraseEntry(entries[m], k))

\* operator()( object ) of either kind; into itself it changes nothing.
Merge(m, h) == /\ entries[m] # Moved /\ entries[h] # Moved /\ m # h
               /\ Becomes(m, FoldLeft(SetEntry, entries[m], entries[h]))
----
ObjectStep(o) ==
  \/ Construct(o)
  \/ \E h \in Shared : CopyShared(o, h)
  \/ \E p \in Objects : MoveConstruct(o, p) \/ MoveAssign(o, p)
  \/ \E m \in Mutables :
        ConstructFrom(o, m) \/ ConstructByMove(o, m) \/ AssignByMove(o, m) \/ AssignFrom(o, m)

MutableStep(m) ==
  \/ ConstructMutable(m) \/ SetKey(m) \/ AppendEntry(m) \/ Index(m) \/ Erase(m)
  \/ \E h \in Objects \cup Mutables : CopyMutable(m, h) \/ AssignMutable(m, h) \/ Merge(m, h)
  \/ \E n \in Mutables : MoveMutable(m, n)

BuilderStep(b) == Construct(b) \/ BuilderAppend(b)

\* Programs make no dictionary of more than MaxEntries entries.
VoNext == /\ \/ \E o \in Objects : ObjectStep(o)
             \/ \E m \in Mutables : MutableStep(m)
             \/ \E b \in Builders : BuilderStep(b)
          /\ \A m \in Mutables : entries'[m] # Moved => Len(entries'[m]) <= MaxEntries

VoSpec == VoInit /\ [][VoNext]_voVars
----
(* Properties. *)

Lists == UNION {[1..n -> Keys \X (Values \cup {NoValue})] : n \in 0..MaxEntries}
VoTypeOK == /\ entries \in [Handles -> Lists \cup {Moved}]
            /\ \A h \in Shared : entries[h] # Moved
            /\ users \in [Shared -> SUBSET Shared]
            /\ \A h \in Shared : h \in users[h] /\ \A g \in users[h] : users[g] = users[h]

\* variant_object.hpp:18, "This dictionary implements copy-on-write": each variable holds a
\* dictionary of its own, and a call edits the one it is made on and no copy of it.
CopiesOnWrite == D!DcSpec

\* A write through a vector that has other users: they all see the same, and nobody else anything.
WrittenThrough ==
  \E h \in Shared :
    /\ users[h] # {h} /\ entries'[h] \in D!Edits(entries[h]) \cup {entries[m] : m \in Mutables}
    /\ \A g \in Handles : entries'[g] = IF g \in users[h] THEN entries'[h] ELSE entries[g]

\* What holds of it: whatever vectors are shared or handed over, a call edits the dictionary it is
\* made on and no other, unless it writes where it is a vector that still has other users; then
\* these, and these alone, get the same edit.
IsDictionary == D!DcInit /\ [][D!DcNext \/ WrittenThrough]_entries
====

----------------------------- MODULE RouterProofs ----------------------------
(***************************************************************************)
(* What Router guarantees for all texts given to route(), any number of    *)
(* routes and all requests.                                                *)
(***************************************************************************)
EXTENDS Router, UriProofs

-----------------------------------------------------------------------------
(* The table of routes.                                                    *)

\* The methods that calls of route() name.
Names == UNION MethodSets

Entry ==
    [path : Seq(Segment) \ {<< >>}, byMethod : UNION {[D -> Nat] : D \in SUBSET Names},
     global : Nat]

TableTypes ==
    /\ handlers \in Seq(Entry)
    /\ routes \in Seq([path : Seq(Segment), methods : MethodSets])

\* A handler stands in the entry of its own path or of one that is the same.
Stands(entry, id) ==
    /\ id \in DOMAIN routes
    /\ routes[id].path = entry.path \/ Match(entry.path, routes[id].path) = "FULL"

\* What is in an entry was given for it.
EntriesStand ==
    \A i \in DOMAIN handlers :
        /\ handlers[i].global # None =>
                /\ Stands(handlers[i], handlers[i].global)
                /\ routes[handlers[i].global].methods = {}
        /\ \A m \in DOMAIN handlers[i].byMethod :
                /\ Stands(handlers[i], handlers[i].byMethod[m])
                /\ m \in routes[handlers[i].byMethod[m]].methods

\* Entry i has the handler of call id, for what it was given for.
Holds(i, id) ==
    IF routes[id].methods = {} THEN handlers[i].global = id
    ELSE \A m \in routes[id].methods :
            m \in DOMAIN handlers[i].byMethod /\ handlers[i].byMethod[m] = id

\* What was given is in an entry.
NoneDisplaced == \A id \in DOMAIN routes : \E i \in DOMAIN handlers : Holds(i, id)

\* No entry was made while an earlier one was the same: merging finds it.
EntriesApart ==
    \A i, j \in DOMAIN handlers :
        i < j => Match(handlers[i].path, handlers[j].path) # "FULL"

\* An entry has the path of the call that made it, and still what it was given.
EntriesMade ==
    \A i \in DOMAIN handlers :
        \E id \in DOMAIN routes : routes[id].path = handlers[i].path /\ Holds(i, id)

TableInv == TableTypes /\ EntriesStand /\ NoneDisplaced /\ EntriesApart /\ EntriesMade

\* Setting a handler in an entry leaves the rest of it.
LEMMA ExtendedEntry ==
    ASSUME NEW e \in Entry, NEW methods \in MethodSets, NEW id \in Nat,
           NEW x, x = Extended(e, methods, id)
    PROVE  /\ x \in Entry /\ x.path = e.path
           /\ methods = {} => x.global = id /\ x.byMethod = e.byMethod
           /\ methods # {} =>
                /\ x.global = e.global
                /\ DOMAIN x.byMethod = DOMAIN e.byMethod \cup methods
                /\ \A m \in DOMAIN x.byMethod :
                        x.byMethod[m] = IF m \in methods THEN id ELSE e.byMethod[m]
<1>1. PICK D \in SUBSET Names : e.byMethod \in [D -> Nat]
    BY DEF Entry
<1>2. CASE methods = {}
    BY <1>2 DEF Extended, Entry
<1>3. CASE methods # {}
    <2> DEFINE both == WithHandlers(e.byMethod, methods, id)
    <2>1. D \cup methods \in SUBSET Names
        BY DEF Names
    <2>2. /\ both \in [D \cup methods -> Nat] /\ DOMAIN both = D \cup methods
          /\ \A m \in D \cup methods :
                both[m] = IF m \in methods THEN id ELSE e.byMethod[m]
        BY <1>1 DEF WithHandlers
    <2>3. x = [e EXCEPT !.byMethod = both]
        BY <1>3 DEF Extended
    <2> HIDE DEF both
    <2>4. both \in UNION {[E -> Nat] : E \in SUBSET Names}
        BY <2>1, <2>2
    <2>5. x \in Entry /\ x.path = e.path /\ x.global = e.global /\ x.byMethod = both
        BY <2>3, <2>4 DEF Entry
    <2>6. QED
        BY <1>1, <1>3, <2>2, <2>5
<1>4. QED
    BY <1>2, <1>3

\* The entry a call of route() makes before it sets the handlers.
Blank(path) == [path |-> path, byMethod |-> NoMethods, global |-> None]

\* What route() makes of a text is a path, the empty one if it refuses it.
LEMMA PathOfText == \A text \in Texts : Parse(text) \in Seq(Segment)
BY TextsAssumption, ParseMakesPaths

\* A call of route() sets handlers in one entry, the one it finds or a new
\* one, and leaves the others (lines 17-50).
SetsOne(h, e, path, methods) ==
    /\ handlers' \in Seq(Entry) /\ DOMAIN handlers' = DOMAIN handlers \cup {h}
    /\ h \in DOMAIN handlers' /\ handlers'[h] = Extended(e, methods, Len(routes) + 1)
    /\ \A i \in DOMAIN handlers : i # h => handlers'[i] = handlers[i]
    /\ e \in Entry
    /\ \/ /\ h \in DOMAIN handlers /\ e = handlers[h] /\ ~Collides(e, methods)
          /\ Match(e.path, path) = "FULL"
       \/ /\ h \notin DOMAIN handlers /\ e = Blank(path)
          /\ SameAs(path) = {}

\* route sets one entry: that of its path, or a new one at the end.
LEMMA RouteSetsOne ==
    ASSUME TableTypes, NEW text \in Texts, NEW methods \in MethodSets, Route(text, methods)
    PROVE  \E h, e : SetsOne(h, e, Parse(text), methods)
<1> DEFINE path == Parse(text)
           id == Len(routes) + 1
<1>1. /\ handlers \in Seq(Entry) /\ Len(handlers) \in Nat
      /\ DOMAIN handlers = 1 .. Len(handlers)
      /\ \A i \in 1 .. Len(handlers) : handlers[i] \in Entry
    BY LenProperties, ElementOfSeq DEF TableTypes
<1>2. id \in Nat
    BY LenProperties DEF TableTypes
<1>3. path \in Seq(Segment) \ {<< >>}
    BY PathOfText DEF Route, Invalid
<1>4. CASE SameAs(path) # {}
    <2> DEFINE h == Min(SameAs(path))
    <2>1. h \in SameAs(path)
        <3>1. SameAs(path) \in SUBSET Nat
            BY <1>1 DEF SameAs
        <3>2. QED
            BY <1>4, <3>1, LeastPosition
    <2>2. /\ ~Collides(handlers[h], methods)
          /\ handlers' = [handlers EXCEPT ![h] = Extended(handlers[h], methods, id)]
        BY <1>4 DEF Route
    <2> HIDE DEF h
    <2>3. h \in 1 .. Len(handlers) /\ Match(handlers[h].path, path) = "FULL"
        BY <1>1, <2>1 DEF SameAs
    <2>4. Extended(handlers[h], methods, id) \in Entry
        BY <1>1, <1>2, <2>3, ExtendedEntry
    <2> DEFINE x == Extended(handlers[h], methods, id)
    <2>5. x \in Entry /\ handlers' = [handlers EXCEPT ![h] = x]
        BY <2>2, <2>4
    <2> HIDE DEF x
    <2>6. /\ handlers' \in Seq(Entry) /\ Len(handlers') = Len(handlers)
          /\ \A j \in 1 .. Len(handlers) :
                handlers'[j] = IF j = h THEN x ELSE handlers[j]
        BY <1>1, <2>3, <2>5, ExceptSeq
    <2>7. DOMAIN handlers' = 1 .. Len(handlers)
        BY <2>6, LenProperties
    <2>8. SetsOne(h, handlers[h], path, methods)
        BY <1>1, <2>2, <2>3, <2>6, <2>7 DEF SetsOne, x
    <2>9. QED
        BY <2>8
<1>5. CASE SameAs(path) = {}
    <2> DEFINE h == Len(handlers) + 1
    <2>1. Blank(path) \in Entry
        <3>1. NoMethods \in [{} -> Nat] /\ {} \in SUBSET Names
            BY DEF NoMethods
        <3>2. NoMethods \in UNION {[D -> Nat] : D \in SUBSET Names}
            BY <3>1
        <3>3. QED
            BY <1>3, <3>2 DEF Blank, Entry, None
    <2>2. handlers' = Append(handlers, Extended(Blank(path), methods, id))
        BY <1>5 DEF Route, NewEntry, Blank
    <2>3. Extended(Blank(path), methods, id) \in Entry
        BY <1>2, <2>1, ExtendedEntry
    <2> DEFINE x == Extended(Blank(path), methods, id)
    <2>4. x \in Entry /\ handlers' = Append(handlers, x)
        BY <2>2, <2>3
    <2> HIDE DEF x
    <2>5. /\ handlers' \in Seq(Entry) /\ Len(handlers') = h
          /\ \A j \in 1 .. Len(handlers) : handlers'[j] = handlers[j]
          /\ handlers'[h] = x
        BY <1>1, <2>4, AppendProperties
    <2>6. DOMAIN handlers' = 1 .. h
        BY <2>5, LenProperties
    <2>7. SetsOne(h, Blank(path), path, methods)
        BY <1>1, <1>5, <2>1, <2>5, <2>6 DEF SetsOne, x
    <2>8. QED
        BY <2>7
<1>6. QED
    BY <1>4, <1>5

\* The table is empty.
LEMMA InitTable == Init => TableInv
BY DEF Init, TableInv, TableTypes, EntriesStand, NoneDisplaced, EntriesApart, EntriesMade

\* The calls of route() are recorded.
LEMMA RouteRecords ==
    ASSUME TableTypes, NEW text \in Texts, NEW methods \in MethodSets, Route(text, methods)
    PROVE  /\ routes' \in Seq([path : Seq(Segment), methods : MethodSets])
           /\ DOMAIN routes' = DOMAIN routes \cup {Len(routes) + 1}
           /\ \A k \in DOMAIN routes : routes'[k] = routes[k] /\ k # Len(routes) + 1 /\ k # 0
           /\ routes'[Len(routes) + 1].path = Parse(text)
           /\ routes'[Len(routes) + 1].methods = methods
<1> DEFINE rec == [path |-> Parse(text), methods |-> methods]
           R == [path : Seq(Segment), methods : MethodSets]
<1>1. rec \in R /\ routes' = Append(routes, rec) /\ routes \in Seq(R)
    BY PathOfText DEF Route, TableTypes
<1>2. rec.path = Parse(text) /\ rec.methods = methods
    OBVIOUS
<1> HIDE DEF rec, R
<1>3. /\ routes' \in Seq(R) /\ Len(routes') = Len(routes) + 1
      /\ \A k \in 1 .. Len(routes) : routes'[k] = routes[k]
      /\ routes'[Len(routes) + 1] = rec
    BY <1>1, AppendProperties
<1>4. DOMAIN routes = 1 .. Len(routes) /\ DOMAIN routes' = 1 .. Len(routes')
      /\ Len(routes) \in Nat
    BY <1>1, <1>3, LenProperties
<1>5. QED
    BY <1>2, <1>3, <1>4 DEF R

\* route() keeps the table.
LEMMA RouteStep ==
    ASSUME TableInv, NEW text \in Texts, NEW methods \in MethodSets, Route(text, methods)
    PROVE  TableInv'
<1> DEFINE path == Parse(text)
           id == Len(routes) + 1
<1>0. TableTypes /\ EntriesStand /\ NoneDisplaced /\ EntriesApart /\ EntriesMade
    BY DEF TableInv
<1>1. PICK h, e : SetsOne(h, e, path, methods)
    BY <1>0, RouteSetsOne
<1>2. /\ routes' \in Seq([path : Seq(Segment), methods : MethodSets])
      /\ DOMAIN routes' = DOMAIN routes \cup {id}
      /\ \A k \in DOMAIN routes : routes'[k] = routes[k] /\ k # id /\ k # 0
      /\ routes'[id].path = path /\ routes'[id].methods = methods
    BY <1>0, RouteRecords
<1>3. id \in Nat /\ id # 0 /\ path \in Seq(Segment)
    BY <1>0, LenProperties, PathOfText DEF TableTypes
<1>4. /\ handlers \in Seq(Entry) /\ \A i \in DOMAIN handlers : handlers[i] \in Entry
    BY <1>0, LenProperties, ElementOfSeq DEF TableTypes
<1> DEFINE x == handlers'[h]
<1>5. x = Extended(e, methods, id) /\ e \in Entry
    BY <1>1 DEF SetsOne
<1>6. /\ x \in Entry /\ x.path = e.path
      /\ methods = {} => x.global = id /\ x.byMethod = e.byMethod
      /\ methods # {} =>
            /\ x.global = e.global
            /\ DOMAIN x.byMethod = DOMAIN e.byMethod \cup methods
            /\ \A m \in DOMAIN x.byMethod :
                    x.byMethod[m] = IF m \in methods THEN id ELSE e.byMethod[m]
    BY <1>3, <1>5, ExtendedEntry
<1>7. /\ DOMAIN handlers' = DOMAIN handlers \cup {h} /\ h \in DOMAIN handlers'
      /\ \A i \in DOMAIN handlers : i # h => handlers'[i] = handlers[i]
      /\ \/ /\ h \in DOMAIN handlers /\ e = handlers[h] /\ ~Collides(e, methods)
            /\ Match(e.path, path) = "FULL"
         \/ h \notin DOMAIN handlers /\ e = Blank(path) /\ SameAs(path) = {}
    BY <1>1 DEF SetsOne
<1>8. e = Blank(path) => e.path = path /\ e.global = None /\ DOMAIN e.byMethod = {}
    BY DEF Blank, NoMethods
<1>9. TableTypes'
    BY <1>1, <1>2 DEF TableTypes, SetsOne
<1> HIDE DEF x, id, path
<1>10. \A f, k : Stands(f, k) => Stands(f, k)' /\ k # id /\ k # 0
    BY <1>2 DEF Stands
<1>11. EntriesStand'
    <2> SUFFICES ASSUME NEW i \in DOMAIN handlers'
                 PROVE  /\ handlers'[i].global # None =>
                                /\ Stands(handlers[i], handlers[i].global)'
                                /\ routes'[handlers'[i].global].methods = {}
                        /\ \A m \in DOMAIN handlers'[i].byMethod :
                                /\ Stands(handlers[i], handlers[i].byMethod[m])'
                                /\ m \in routes'[handlers'[i].byMethod[m]].methods
        BY DEF EntriesStand
    <2>1. CASE i # h
        <3>1. i \in DOMAIN handlers /\ handlers'[i] = handlers[i]
            BY <1>7, <2>1
        <3>2. /\ handlers[i].global # None =>
                    /\ Stands(handlers[i], handlers[i].global)
                    /\ routes[handlers[i].global].methods = {}
              /\ \A m \in DOMAIN handlers[i].byMethod :
                    /\ Stands(handlers[i], handlers[i].byMethod[m])
                    /\ m \in routes[handlers[i].byMethod[m]].methods
            BY <1>0, <3>1 DEF EntriesStand
        <3>3. QED
            BY <1>2, <3>1, <3>2 DEF Stands
    <2>2. CASE i = h
        <3>1. /\ e.global # None => Stands(e, e.global) /\ routes[e.global].methods = {}
              /\ \A m \in DOMAIN e.byMethod :
                    Stands(e, e.byMethod[m]) /\ m \in routes[e.byMethod[m]].methods
            BY <1>0, <1>7, <1>8 DEF EntriesStand
        <3>2. \A k : Stands(e, k) =>
                    /\ k \in DOMAIN routes' /\ routes'[k] = routes[k]
                    /\ routes'[k].path = x.path \/ Match(x.path, routes'[k].path) = "FULL"
            BY <1>2, <1>6 DEF Stands
        <3>3. /\ id \in DOMAIN routes'
              /\ routes'[id].path = x.path \/ Match(x.path, routes'[id].path) = "FULL"
            BY <1>2, <1>6, <1>7, <1>8
        <3>4. /\ x.global # None =>
                    /\ x.global \in DOMAIN routes'
                    /\ \/ routes'[x.global].path = x.path
                       \/ Match(x.path, routes'[x.global].path) = "FULL"
                    /\ routes'[x.global].methods = {}
            BY <1>2, <1>6, <3>1, <3>2, <3>3
        <3>5. ASSUME NEW m \in DOMAIN x.byMethod
              PROVE  /\ x.byMethod[m] \in DOMAIN routes'
                     /\ \/ routes'[x.byMethod[m]].path = x.path
                        \/ Match(x.path, routes'[x.byMethod[m]].path) = "FULL"
                     /\ m \in routes'[x.byMethod[m]].methods
            <4>1. CASE m \in methods
                <5>1. x.byMethod[m] = id
                    BY <1>6, <4>1
                <5>2. QED
                    BY <1>2, <3>3, <4>1, <5>1
            <4>2. CASE m \notin methods
                <5>1. m \in DOMAIN e.byMethod /\ x.byMethod[m] = e.byMethod[m]
                    BY <1>6, <4>2
                <5>2. QED
                    BY <3>1, <3>2, <5>1
            <4>3. QED
                BY <4>1, <4>2
        <3>6. QED
            BY <2>2, <3>4, <3>5 DEF Stands, x
    <2>3. QED
        BY <2>1, <2>2
<1>12. \A k \in DOMAIN routes, i \in DOMAIN handlers : Holds(i, k) => Holds(i, k)'
    <2> SUFFICES ASSUME NEW k \in DOMAIN routes, NEW i \in DOMAIN handlers, Holds(i, k)
                 PROVE  Holds(i, k)'
        OBVIOUS
    <2>1. routes'[k] = routes[k] /\ k # 0
        BY <1>2
    <2>2. CASE i # h
        BY <1>7, <2>1, <2>2 DEF Holds
    <2>3. CASE i = h
        <3>1. e = handlers[h] /\ ~Collides(e, methods)
            BY <1>7, <2>3
        <3>2. CASE routes[k].methods = {}
            <4>1. e.global = k
                BY <2>3, <3>1, <3>2 DEF Holds
            <4>2. x.global = k
                BY <1>6, <2>1, <3>1, <4>1 DEF Collides, None
            <4>3. QED
                BY <2>1, <2>3, <3>2, <4>2 DEF Holds, x
        <3>3. CASE routes[k].methods # {}
            <4>1. \A m \in routes[k].methods : m \in DOMAIN e.byMethod /\ e.byMethod[m] = k
                BY <2>3, <3>1, <3>3 DEF Holds
            <4>2. \A m \in routes[k].methods : m \in DOMAIN x.byMethod /\ x.byMethod[m] = k
                BY <1>6, <3>1, <4>1 DEF Collides
            <4>3. QED
                BY <2>1, <2>3, <3>3, <4>2 DEF Holds, x
        <3>4. QED
            BY <3>2, <3>3
    <2>4. QED
        BY <2>2, <2>3
<1>13. \A k \in DOMAIN routes' : k = id => Holds(h, k)'
    BY <1>2, <1>6 DEF Holds, x
<1>14. NoneDisplaced'
    <2> SUFFICES ASSUME NEW k \in DOMAIN routes'
                 PROVE  \E i \in DOMAIN handlers' : Holds(i, k)'
        BY DEF NoneDisplaced
    <2>1. CASE k = id
        BY <1>7, <1>13, <2>1
    <2>2. CASE k # id
        <3>1. k \in DOMAIN routes
            BY <1>2, <2>2
        <3>2. PICK i \in DOMAIN handlers : Holds(i, k)
            BY <1>0, <3>1 DEF NoneDisplaced
        <3>3. i \in DOMAIN handlers' /\ Holds(i, k)'
            BY <1>7, <1>12, <3>1, <3>2
        <3>4. QED
            BY <3>3
    <2>3. QED
        BY <2>1, <2>2
<1>15. \A n \in DOMAIN handlers : handlers'[n].path = handlers[n].path
    BY <1>6, <1>7 DEF x
<1>16. EntriesApart'
    <2> SUFFICES ASSUME NEW i \in DOMAIN handlers', NEW j \in DOMAIN handlers', i < j
                 PROVE  Match(handlers'[i].path, handlers'[j].path) # "FULL"
        BY DEF EntriesApart
    <2>1. CASE j \in DOMAIN handlers
        <3>1. i \in DOMAIN handlers
            BY <1>1, <1>4, <2>1, LenProperties DEF SetsOne
        <3>2. QED
            BY <1>0, <1>15, <2>1, <3>1 DEF EntriesApart
    <2>2. CASE j \notin DOMAIN handlers
        <3>1. j = h /\ x.path = path /\ SameAs(path) = {}
            BY <1>6, <1>7, <1>8, <2>2
        <3>2. i \in DOMAIN handlers
            <4>1. i # j
                <5>1. i \in Nat
                    BY <1>9, LenProperties DEF TableTypes
                <5>2. QED
                    BY <5>1
            <4>2. QED
                BY <1>7, <3>1, <4>1
        <3>3. Match(handlers[i].path, path) # "FULL"
            BY <3>1, <3>2 DEF SameAs
        <3>4. QED
            BY <1>15, <3>1, <3>2, <3>3 DEF x
    <2>3. QED
        BY <2>1, <2>2
<1>17. EntriesMade'
    <2> SUFFICES ASSUME NEW i \in DOMAIN handlers'
                 PROVE  \E k \in DOMAIN routes' :
                            routes'[k].path = handlers'[i].path /\ Holds(i, k)'
        BY DEF EntriesMade
    <2>1. CASE i \in DOMAIN handlers
        <3>1. PICK k \in DOMAIN routes : routes[k].path = handlers[i].path /\ Holds(i, k)
            BY <1>0, <2>1 DEF EntriesMade
        <3>2. Holds(i, k)' /\ k \in DOMAIN routes' /\ routes'[k].path = handlers'[i].path
            BY <1>2, <1>12, <1>15, <2>1, <3>1
        <3>3. QED
            BY <3>2
    <2>2. CASE i \notin DOMAIN handlers
        <3>1. i = h /\ x.path = path
            BY <1>6, <1>7, <1>8, <2>2
        <3>2. PICK k \in DOMAIN routes' : k = id
            BY <1>2
        <3>3. Holds(i, k)' /\ routes'[k].path = handlers'[i].path
            BY <1>2, <1>13, <3>1, <3>2 DEF x
        <3>4. QED
            BY <3>3
    <2>3. QED
        BY <2>1, <2>2
<1>18. QED
    BY <1>9, <1>11, <1>14, <1>16, <1>17 DEF TableInv

\* Every step keeps the table.
LEMMA NextTable == TableInv /\ [Next]_vars => TableInv'
<1> SUFFICES ASSUME TableInv, [Next]_vars
             PROVE  TableInv'
    OBVIOUS
<1>1. CASE Next
    BY <1>1, RouteStep DEF Next
<1>2. CASE UNCHANGED vars
    <2>1. handlers' = handlers /\ routes' = routes
        BY <1>2 DEF vars
    <2>2. TableTypes' /\ EntriesApart'
        BY <2>1 DEF TableInv, TableTypes, EntriesApart
    <2>3. EntriesStand'
        BY <2>1 DEF TableInv, EntriesStand, Stands
    <2>4. NoneDisplaced'
        BY <2>1 DEF TableInv, NoneDisplaced, Holds
    <2>5. EntriesMade'
        BY <2>1 DEF TableInv, EntriesMade, Holds
    <2>6. QED
        BY <2>2, <2>3, <2>4, <2>5 DEF TableInv
<1>3. QED
    BY <1>1, <1>2

-----------------------------------------------------------------------------
(* handle.                                                                 *)

\* The paths of entries and of calls are paths.
LEMMA PathsTyped ==
    ASSUME TableTypes
    PROVE  /\ \A i \in DOMAIN handlers :
                i \in Nat /\ i # 0 /\ handlers[i].path \in Seq(Segment)
           /\ \A k \in DOMAIN routes :
                k \in Nat /\ k # 0 /\ routes[k].path \in Seq(Segment)
<1>1. /\ DOMAIN handlers = 1 .. Len(handlers) /\ Len(handlers) \in Nat
      /\ \A i \in 1 .. Len(handlers) : handlers[i] \in Entry
    BY LenProperties, ElementOfSeq DEF TableTypes
<1>2. \A e \in Entry : e.path \in Seq(Segment)
    BY DEF Entry
<1> DEFINE R == [path : Seq(Segment), methods : MethodSets]
<1>3. \A e \in R : e.path \in Seq(Segment)
    OBVIOUS
<1>4. routes \in Seq(R)
    BY DEF TableTypes
<1> HIDE DEF R
<1>5. /\ DOMAIN routes = 1 .. Len(routes) /\ Len(routes) \in Nat
      /\ \A k \in 1 .. Len(routes) : routes[k] \in R
    BY <1>4, LenProperties, ElementOfSeq
<1>6. QED
    BY <1>1, <1>2, <1>3, <1>5

\* When there are entries of a class, matches[] has one of them.
LEMMA LastOfClass ==
    ASSUME TableTypes, NEW class, NEW r, OfClass(class, r) # {}
    PROVE  Matched(class, r) \in OfClass(class, r)
<1> DEFINE found == OfClass(class, r)
           n == Len(handlers)
           back == {n - i : i \in found}
<1>1. DOMAIN handlers = 1 .. n /\ n \in Nat
    BY LenProperties DEF TableTypes
<1>2. found # {} /\ Matched(class, r) = Max(found) /\ found \subseteq 1 .. n
    BY <1>1 DEF Matched, OfClass
<1>3. back \in SUBSET Nat /\ back # {}
    BY <1>1, <1>2
<1> HIDE DEF n
<1>4. PICK b \in back : \A c \in back : b <= c
    <2> HIDE DEF back
    <2>1. QED
        BY <1>3, LeastPosition
<1>5. PICK m \in found : b = n - m
    BY <1>4
<1>6. ASSUME NEW i \in found
      PROVE  m >= i
    <2>1. n - i \in back
        OBVIOUS
    <2>2. n - m <= n - i /\ m \in Nat /\ i \in Nat
        BY <1>2, <1>4, <1>5, <2>1
    <2>3. n \in Nat
        BY <1>1
    <2>4. QED
        BY <2>2, <2>3
<1>7. Max(found) \in found
    BY <1>5, <1>6 DEF Max
<1>8. QED
    BY <1>2, <1>7

\* The entry matches[] has for a class is one of that class.
LEMMA MatchedIsOfClass ==
    ASSUME TableTypes, NEW class, NEW r, Matched(class, r) # 0
    PROVE  /\ Matched(class, r) \in DOMAIN handlers
           /\ Match(handlers[Matched(class, r)].path, r) = class
<1>1. OfClass(class, r) # {}
    BY DEF Matched
<1>2. Matched(class, r) \in OfClass(class, r)
    BY <1>1, LastOfClass
<1>3. QED
    BY <1>2 DEF OfClass

\* The same entry is not the match of two classes.
LEMMA ClassesDiffer ==
    ASSUME TableTypes, NEW r, NEW c \in 1 .. 3, NEW d \in 1 .. 3,
           Matches(r)[c] # 0, Matches(r)[c] = Matches(r)[d]
    PROVE  c = d
<1> DEFINE class(b) == IF b = 1 THEN "FULL" ELSE IF b = 2 THEN "PARAM" ELSE "WILD"
<1>1. \A b \in 1 .. 3 : Matches(r)[b] = Matched(class(b), r)
    BY DEF Matches
<1>2. \A b \in 1 .. 3 :
        Matches(r)[b] # 0 => Match(handlers[Matches(r)[b]].path, r) = class(b)
    <2> HIDE DEF class
    <2>1. QED
        BY <1>1, MatchedIsOfClass
<1>3. class(c) = class(d)
    <2> HIDE DEF class
    <2>1. QED
        BY <1>2
<1>4. QED
    BY <1>3

\* handle() runs a handler of the first class that is able to, and none
\* otherwise.
LEMMA FirstAbleRuns ==
    ASSUME NEW r, NEW method
    PROVE  /\ \A c : c \in Able(Matches(r), method) <=>
                /\ c \in 1 .. 3 /\ Matches(r)[c] # 0
                /\ HandlerOf(handlers[Matches(r)[c]], method)[1] # "none"
           /\ Able(Matches(r), method) # {} =>
                \E first \in Able(Matches(r), method) :
                    /\ \A c \in Able(Matches(r), method) : first <= c
                    /\ Handle(r, method) = Ran(Matches(r)[first], method)
           /\ Able(Matches(r), method) = {} =>
                /\ Handle(r, method).entry = 0
                /\ Handle(r, method).does \in {"404", "405"}
<1> DEFINE able == Able(Matches(r), method)
<1>1. DOMAIN Matches(r) = 1 .. 3
    BY DEF Matches
<1>2. \A c : c \in able <=>
        /\ c \in 1 .. 3 /\ Matches(r)[c] # 0
        /\ HandlerOf(handlers[Matches(r)[c]], method)[1] # "none"
    BY <1>1 DEF Able
<1>3. ASSUME able # {}
      PROVE  \E first \in able :
                /\ \A c \in able : first <= c
                /\ Handle(r, method) = Ran(Matches(r)[first], method)
    <2>1. Handle(r, method) = Ran(Matches(r)[Min(able)], method)
        BY <1>3 DEF Handle
    <2>2. able \in SUBSET Nat
        BY <1>2
    <2> HIDE DEF able
    <2>3. Min(able) \in able /\ \A c \in able : Min(able) <= c
        BY <1>3, <2>2, LeastPosition
    <2>4. QED
        BY <2>1, <2>3
<1>4. able = {} => Handle(r, method) \in {Refused("404"), Refused("405")}
    BY DEF Handle
<1>5. \A status : Refused(status).entry = 0 /\ Refused(status).does = status
    BY DEF Refused
<1>6. QED
    BY <1>2, <1>3, <1>4, <1>5

\* What handle() finds for a request is an entry that matches it.
LEMMA HandleFinds ==
    ASSUME TableTypes, NEW r, NEW method, Handle(r, method).entry # 0
    PROVE  /\ Handle(r, method).entry \in DOMAIN handlers
           /\ Match(handlers[Handle(r, method).entry].path, r) \in {"FULL", "PARAM", "WILD"}
<1> DEFINE matches == Matches(r)
           able == Able(matches, method)
<1>1. /\ DOMAIN matches = 1 .. 3
      /\ matches[1] = Matched("FULL", r) /\ matches[2] = Matched("PARAM", r)
      /\ matches[3] = Matched("WILD", r)
    BY DEF Matches
<1>2. able # {} /\ Handle(r, method) = Ran(matches[Min(able)], method)
    BY DEF Handle, Refused
<1>3. Handle(r, method).entry = matches[Min(able)]
    BY <1>2 DEF Ran
<1>4. able \in SUBSET Nat /\ \A c \in able : c \in 1 .. 3 /\ matches[c] # 0
    BY <1>1 DEF Able
<1> HIDE DEF able
<1>5. Min(able) \in able
    BY <1>2, <1>4, LeastPosition
<1> HIDE DEF matches
<1>6. PICK class \in {"FULL", "PARAM", "WILD"} :
            /\ matches[Min(able)] = Matched(class, r) /\ Matched(class, r) # 0
    <2>1. Min(able) \in 1 .. 3 /\ matches[Min(able)] # 0
        BY <1>4, <1>5
    <2>2. Min(able) = 1 \/ Min(able) = 2 \/ Min(able) = 3
        BY <2>1
    <2>3. QED
        BY <1>1, <2>1, <2>2
<1>7. QED
    BY <1>3, <1>6, MatchedIsOfClass

\* A plain request for a path that has an entry of its own finds that entry
\* first.
LEMMA OwnEntryFirst ==
    ASSUME TableInv, NEW r \in Seq(Segment), IsPlain(r), NEW i \in DOMAIN handlers,
           handlers[i].path = r, NEW method, HandlerOf(handlers[i], method)[1] # "none"
    PROVE  Handle(r, method) = Ran(i, method)
<1>1. \A j \in DOMAIN handlers : handlers[j].path \in Seq(Segment)
    BY PathsTyped DEF TableInv
<1>2. i # 0
    BY PathsTyped DEF TableInv
<1>3. OfClass("FULL", r) = {i}
    <2>1. ASSUME NEW j \in DOMAIN handlers, handlers[j].path = r
          PROVE  j = i
        <3>1. Match(handlers[i].path, handlers[j].path) = "FULL"
            BY <1>1, <2>1, MatchSays
        <3>2. Match(handlers[j].path, handlers[i].path) = "FULL"
            BY <2>1, <3>1
        <3>3. ~(i < j) /\ ~(j < i)
            BY <3>1, <3>2 DEF TableInv, EntriesApart
        <3>4. i \in Nat /\ j \in Nat
            BY PathsTyped DEF TableInv
        <3>5. QED
            BY <3>3, <3>4
    <2>2. QED
        BY <1>1, <2>1, MatchSays DEF OfClass
<1>4. Matched("FULL", r) = i
    <2>1. i \in Nat
        BY LenProperties DEF TableInv, TableTypes
    <2>2. Max({i}) = i
        BY <2>1 DEF Max
    <2>3. QED
        BY <1>3, <2>2 DEF Matched
<1> DEFINE matches == Matches(r)
           able == Able(matches, method)
<1>5. DOMAIN matches = 1 .. 3 /\ matches[1] = i
    BY <1>4 DEF Matches
<1>6. able \in SUBSET Nat /\ 1 \in able /\ \A c \in able : 1 <= c
    BY <1>2, <1>5 DEF Able
<1>7. Handle(r, method) = Ran(matches[Min(able)], method)
    BY <1>6 DEF Handle
<1> HIDE DEF able
<1>8. Min(able) = 1
    <2>1. Min(able) \in able /\ \A c \in able : Min(able) <= c
        BY <1>6, LeastPosition
    <2>2. Min(able) \in Nat /\ Min(able) <= 1 /\ 1 <= Min(able)
        BY <1>6, <2>1
    <2>3. QED
        BY <2>2
<1>9. QED
    BY <1>5, <1>7, <1>8

\* A call of route() stands where its handler can be reached: by name, or for
\* any method when no call for the same path names the method.
LEMMA HeldIsReached ==
    ASSUME TableInv, NEW id \in DOMAIN routes, NEW r \in Seq(Segment), IsPlain(r),
           routes[id].path = r, NEW method, For(id, method)
    PROVE  \E i \in DOMAIN handlers :
                /\ handlers[i].path = r
                /\ HandlerOf(handlers[i], method) = <<"route", id>>
                /\ MethodSeen(handlers[i], method) = method
<1>1. PICK i \in DOMAIN handlers : Holds(i, id)
    BY DEF TableInv, NoneDisplaced
<1>2. handlers[i].path \in Seq(Segment)
    BY PathsTyped DEF TableInv
<1>3. id # 0
    BY PathsTyped DEF TableInv
<1>4. Stands(handlers[i], id) => handlers[i].path = r
    BY <1>2, MatchSays DEF Stands
<1>5. CASE method \in routes[id].methods
    <2>1. method \in DOMAIN handlers[i].byMethod /\ handlers[i].byMethod[method] = id
        BY <1>1, <1>5 DEF Holds
    <2>2. Stands(handlers[i], id)
        BY <2>1 DEF TableInv, EntriesStand
    <2>3. QED
        BY <1>4, <2>1, <2>2 DEF HandlerOf, MethodSeen
<1>6. CASE method \notin routes[id].methods
    <2>1. /\ routes[id].methods = {} /\ handlers[i].global = id
          /\ \A other \in DOMAIN routes :
                ~(routes[other].path = r /\ method \in routes[other].methods)
        BY <1>1, <1>6 DEF For, Holds
    <2>2. Stands(handlers[i], id)
        BY <1>3, <2>1 DEF TableInv, EntriesStand, None
    <2>3. handlers[i].path = r
        BY <1>4, <2>2
    <2>4. method \notin DOMAIN handlers[i].byMethod
        <3> SUFFICES ASSUME method \in DOMAIN handlers[i].byMethod
                     PROVE  FALSE
            OBVIOUS
        <3> DEFINE other == handlers[i].byMethod[method]
        <3>1. Stands(handlers[i], other) /\ method \in routes[other].methods
            BY DEF TableInv, EntriesStand
        <3>2. routes[other].path = r
            <4>1. other \in DOMAIN routes /\ routes[other].path \in Seq(Segment)
                BY <3>1, PathsTyped DEF TableInv, Stands
            <4>2. routes[other].path = r \/ Match(routes[other].path, r) = "FULL"
                BY <2>3, <3>1, <4>1, MatchSymmetric DEF Stands
            <4>3. QED
                BY <4>1, <4>2, MatchSays
        <3>3. QED
            BY <2>1, <3>1, <3>2 DEF Stands
    <2>5. QED
        BY <1>3, <2>1, <2>3, <2>4 DEF HandlerOf, MethodSeen, None
<1>7. QED
    BY <1>5, <1>6

\* For every table, own path and own method answer.
LEMMA ExactAnswers == TableInv => ExactRouteAnswers
<1> SUFFICES ASSUME TableInv, NEW id \in DOMAIN routes, NEW r \in PlainRequests,
                    NEW m \in Methods, routes[id].path = r, For(id, m)
             PROVE  LET done == Handle(r, m)
                    IN  done.does = "route" /\ done.id = id /\ For(id, done.method)
    BY DEF ExactRouteAnswers
<1>1. r \in Seq(Segment) /\ IsPlain(r)
    BY RequestsAssumption DEF PlainRequests
<1>2. PICK i \in DOMAIN handlers :
            /\ handlers[i].path = r
            /\ HandlerOf(handlers[i], m) = <<"route", id>>
            /\ MethodSeen(handlers[i], m) = m
    BY <1>1, HeldIsReached
<1>3. HandlerOf(handlers[i], m)[1] = "route" /\ HandlerOf(handlers[i], m)[2] = id
    BY <1>2
<1>4. Handle(r, m) = Ran(i, m)
    BY <1>1, <1>2, <1>3, OwnEntryFirst
<1>5. /\ Ran(i, m).does = "route" /\ Ran(i, m).id = id /\ Ran(i, m).method = m
    BY <1>2, <1>3 DEF Ran
<1>6. QED
    BY <1>4, <1>5

\* Two paths that differ in the names of their parameters match alike.
LEMMA AlikeMatchAlike ==
    ASSUME NEW p \in Seq(Segment), NEW q \in Seq(Segment), Alike(p, q),
           NEW r \in Seq(Segment), IsPlain(r)
    PROVE  Match(p, r) = Match(q, r)
<1>1. /\ DOMAIN p = 1 .. Len(p) /\ Len(p) \in Nat /\ \A i \in 1 .. Len(p) : p[i] \in Segment
      /\ DOMAIN q = 1 .. Len(q) /\ Len(q) = Len(p) /\ \A i \in 1 .. Len(q) : q[i] \in Segment
      /\ DOMAIN r = 1 .. Len(r) /\ Len(r) \in Nat
      /\ \A i \in 1 .. Len(r) : r[i].kind \in {"lit", "empty"}
      /\ \A i \in 1 .. Len(p) : p[i] = q[i] \/ (p[i].kind = "param" /\ q[i].kind = "param")
    BY LenProperties, ElementOfSeq DEF Alike, IsPlain
<1>2. Wild.kind = "wild" /\ Empty.kind = "empty"
    BY DEF Wild, Empty, Seg
<1>3. /\ Shorter(p, r) = Shorter(q, r) /\ Shorter(r, p) = Shorter(r, q)
      /\ \A i \in 1 .. Shorter(p, r) : i \in 1 .. Len(p) /\ i \in 1 .. Len(r)
      /\ Shorter(r, p) = Shorter(p, r)
    BY <1>1 DEF Shorter
<1>4. ASSUME NEW i \in 1 .. Shorter(p, r)
      PROVE  /\ Settles(p[i], r[i]) <=> Settles(q[i], r[i])
             /\ Wild \in {p[i], r[i]} <=> Wild \in {q[i], r[i]}
             /\ p[i] # r[i] /\ p[i].kind = "param" <=> q[i] # r[i] /\ q[i].kind = "param"
    <2>1. i \in 1 .. Len(p) /\ i \in 1 .. Len(r)
        BY <1>3
    <2>2. CASE p[i] = q[i]
        BY <2>2
    <2>3. CASE p[i].kind = "param" /\ q[i].kind = "param"
        <3>1. /\ p[i] # Wild /\ q[i] # Wild /\ p[i] # Empty /\ q[i] # Empty
              /\ p[i] # r[i] /\ q[i] # r[i]
            BY <1>1, <1>2, <2>1, <2>3
        <3>2. QED
            BY <2>3, <3>1 DEF Settles
    <2>4. QED
        BY <1>1, <2>1, <2>2, <2>3
<1>5. Settled(p, r) = Settled(q, r)
    BY <1>3, <1>4 DEF Settled
<1>6. Params(p, r) = Params(q, r)
    <2>1. HasParam(p, r) <=> HasParam(q, r)
        BY <1>3, <1>4 DEF HasParam
    <2>2. ~HasParam(r, p) /\ ~HasParam(r, q)
        BY <1>1, <1>3 DEF HasParam
    <2>3. HasParam(p, r) = HasParam(q, r) /\ HasParam(r, p) = HasParam(r, q)
        BY <2>1, <2>2 DEF HasParam
    <2>4. QED
        BY <2>3 DEF Params
<1>7. CASE Settled(p, r) # {}
    <2> DEFINE s == Min(Settled(p, r))
    <2>1. s \in 1 .. Shorter(p, r)
        <3>1. Settled(p, r) \in SUBSET Nat
            BY DEF Settled
        <3>2. s \in Settled(p, r)
            BY <1>7, <3>1, LeastPosition
        <3> HIDE DEF s
        <3>3. QED
            BY <3>2 DEF Settled
    <2>2. Verdict(p, r, Settled(p, r)) = Verdict(q, r, Settled(q, r))
        <3> HIDE DEF s
        <3>1. Wild \in {p[s], r[s]} <=> Wild \in {q[s], r[s]}
            BY <1>4, <2>1
        <3>2. QED
            BY <1>5, <3>1 DEF Verdict, s
    <2>3. QED
        BY <1>5, <1>7, <2>2 DEF Match
<1>8. CASE Settled(p, r) = {}
    <2>1. WildBase(p, r) <=> WildBase(q, r)
        <3>1. Len(p) = Len(r) + 1 => (p[Len(p)] = Wild <=> q[Len(q)] = Wild)
            BY <1>1, <1>2
        <3>2. QED
            BY <1>1, <3>1 DEF WildBase
    <2>2. ~WildBase(r, p) /\ ~WildBase(r, q)
        <3>1. Len(r) = Len(p) + 1 => r[Len(r)] # Wild
            BY <1>1, <1>2
        <3>2. QED
            BY <1>1, <3>1 DEF WildBase
    <2>3. QED
        BY <1>1, <1>5, <1>6, <1>8, <2>1, <2>2 DEF Match
<1>9. QED
    BY <1>7, <1>8

\* Two such paths without a "*" are the same to add_route.
LEMMA AlikeIsSame ==
    ASSUME NEW p \in Seq(Segment), NEW q \in Seq(Segment), Alike(p, q), Stars(p) = {}
    PROVE  Match(p, q) = "FULL"
<1>1. /\ DOMAIN p = 1 .. Len(p) /\ Len(p) \in Nat /\ Len(q) = Len(p)
      /\ \A i \in 1 .. Len(p) : p[i] = q[i] \/ (p[i].kind = "param" /\ q[i].kind = "param")
      /\ \A i \in 1 .. Len(p) : p[i] # Wild
    BY LenProperties DEF Alike, Stars
<1>2. Wild.kind = "wild" /\ Empty.kind = "empty"
    BY DEF Wild, Empty, Seg
<1>3. Shorter(p, q) = Len(p) /\ Shorter(q, p) = Len(p)
    BY <1>1 DEF Shorter
<1>4. Settled(p, q) = {}
    <2>1. ASSUME NEW i \in 1 .. Len(p)
          PROVE  ~Settles(p[i], q[i])
        <3>1. CASE p[i] = q[i]
            BY <1>1, <3>1 DEF Settles
        <3>2. CASE p[i].kind = "param" /\ q[i].kind = "param"
            <4>1. Wild \notin {p[i], q[i]} /\ Empty \notin {p[i], q[i]}
                BY <1>2, <3>2
            <4>2. QED
                BY <3>2, <4>1 DEF Settles
        <3>3. QED
            BY <1>1, <3>1, <3>2
    <2>2. QED
        BY <1>3, <2>1 DEF Settled
<1>5. HasParam(p, q) = HasParam(q, p)
    BY <1>1, <1>3 DEF HasParam
<1>6. QED
    BY <1>1, <1>4, <1>5 DEF Match, Params

\* A call of route() stands in an entry of its own path, or of one that is the
\* same.
LEMMA HeldStands ==
    ASSUME TableInv, NEW id \in DOMAIN routes, NEW i \in DOMAIN handlers, Holds(i, id)
    PROVE  Stands(handlers[i], id)
<1>1. CASE routes[id].methods = {}
    <2>1. handlers[i].global = id /\ id # None
        BY <1>1, PathsTyped DEF Holds, TableInv, None
    <2>2. QED
        BY <2>1 DEF TableInv, EntriesStand
<1>2. CASE routes[id].methods # {}
    <2>1. PICK m \in routes[id].methods :
                m \in DOMAIN handlers[i].byMethod /\ handlers[i].byMethod[m] = id
        BY <1>2 DEF Holds
    <2>2. QED
        BY <2>1 DEF TableInv, EntriesStand
<1>3. QED
    BY <1>1, <1>2

\* The entry that matches a request in the way a route does has the handler of
\* that route, unless another path matches in that way too.
LEMMA AloneIsHeld ==
    ASSUME TableInv, ~Crossing, NEW id \in DOMAIN routes, NEW r \in Seq(Segment),
           IsPlain(r), AloneOn(id, r)
    PROVE  LET class == Match(routes[id].path, r)
           IN  Matched(class, r) \in DOMAIN handlers /\ Holds(Matched(class, r), id)
<1> DEFINE path == routes[id].path
           class == Match(path, r)
           j == Matched(class, r)
<1>0. TableTypes /\ EntriesApart
    BY DEF TableInv
<1>1. /\ path \in Seq(Segment)
      /\ \A i \in DOMAIN handlers : i \in Nat /\ handlers[i].path \in Seq(Segment)
    BY <1>0, PathsTyped
<1>2. PICK i \in DOMAIN handlers : Holds(i, id)
    BY DEF TableInv, NoneDisplaced
<1>3. PICK k \in DOMAIN routes : routes[k].path = handlers[i].path
    BY DEF TableInv, EntriesMade
<1>4. Alike(handlers[i].path, path)
    <2>1. Stands(handlers[i], id)
        BY <1>2, HeldStands
    <2>2. CASE path = handlers[i].path
        BY <2>2 DEF Alike
    <2>3. CASE Match(handlers[i].path, path) = "FULL"
        BY <1>3, <2>3 DEF Crossing
    <2>4. QED
        BY <2>1, <2>2, <2>3 DEF Stands
<1>5. i \in OfClass(class, r)
    <2>1. Match(handlers[i].path, r) = class
        BY <1>1, <1>4, AlikeMatchAlike
    <2>2. QED
        BY <2>1 DEF OfClass
<1>6. j \in DOMAIN handlers /\ Match(handlers[j].path, r) = class
    <2>1. j \in OfClass(class, r)
        BY <1>0, <1>5, LastOfClass
    <2>2. QED
        BY <2>1 DEF OfClass
<1> HIDE DEF j
<1>7. PICK maker \in DOMAIN routes :
            routes[maker].path = handlers[j].path /\ Holds(j, maker)
    BY <1>6 DEF TableInv, EntriesMade
<1>8. \/ Alike(handlers[j].path, path) /\ Stars(path) = {}
      \/ maker = id
    BY <1>6, <1>7 DEF AloneOn
<1>9. ASSUME Alike(handlers[j].path, path), Stars(path) = {}
      PROVE  i = j
    <2> DEFINE p == handlers[i].path
               q == handlers[j].path
    <2>1. /\ Len(p) = Len(path) /\ Len(q) = Len(path)
          /\ DOMAIN p = 1 .. Len(p) /\ DOMAIN q = 1 .. Len(q) /\ DOMAIN path = 1 .. Len(path)
          /\ \A n \in 1 .. Len(p) :
                p[n] = path[n] \/ (p[n].kind = "param" /\ path[n].kind = "param")
          /\ \A n \in 1 .. Len(q) :
                q[n] = path[n] \/ (q[n].kind = "param" /\ path[n].kind = "param")
        BY <1>1, <1>4, <1>6, <1>9, LenProperties DEF Alike
    <2>2. p \in Seq(Segment) /\ q \in Seq(Segment)
        BY <1>1, <1>6
    <2> HIDE DEF p, q, path
    <2>3. Alike(p, q) /\ Alike(q, p)
        BY <2>1 DEF Alike
    <2>4. Stars(p) = {} /\ Stars(q) = {}
        <3>1. Wild.kind = "wild"
            BY DEF Wild, Seg
        <3>2. \A n \in 1 .. Len(path) : path[n] # Wild
            BY <1>9, <2>1 DEF Stars
        <3>3. QED
            BY <2>1, <3>1, <3>2 DEF Stars
    <2>5. Match(p, q) = "FULL" /\ Match(q, p) = "FULL"
        BY <2>2, <2>3, <2>4, AlikeIsSame
    <2>6. ~(i < j) /\ ~(j < i) /\ i \in Nat /\ j \in Nat
        BY <1>0, <1>1, <1>6, <2>5 DEF EntriesApart, p, q
    <2>7. QED
        BY <2>6
<1>10. QED
    BY <1>2, <1>6, <1>7, <1>8, <1>9 DEF j

\* A parameter stands before the first star of its pattern.
LEMMA ParamBeforeStar ==
    ASSUME NEW p \in Seq(Segment), NEW i \in ParamsAt(p)
    PROVE  /\ i \in 1 .. Len(p) /\ p[i].kind = "param"
           /\ \A j \in 1 .. i : p[j] # Wild
<1>1. DOMAIN p = 1 .. Len(p) /\ Len(p) \in Nat
    BY LenProperties
<1>2. i \in 1 .. Len(p) /\ p[i].kind = "param" /\ (WildAt(p) = 0 \/ i < WildAt(p))
    BY <1>1 DEF ParamsAt
<1>3. Wild.kind = "wild"
    BY DEF Wild, Seg
<1>4. CASE Stars(p) = {}
    BY <1>1, <1>2, <1>4 DEF Stars
<1>5. CASE Stars(p) # {}
    <2> DEFINE w == Min(Stars(p))
    <2>1. w \in 1 .. Len(p) /\ \A j \in 1 .. Len(p) : j < w => p[j] # Wild
        BY <1>5, StemBeforeStar
    <2>2. WildAt(p) = w
        BY <1>5 DEF WildAt
    <2> HIDE DEF w
    <2>3. i < w
        BY <1>1, <1>2, <2>1, <2>2
    <2>4. QED
        BY <1>1, <1>2, <2>1, <2>3
<1>6. QED
    BY <1>2, <1>4, <1>5

\* Where a pattern that matches has a parameter, the request has a text, or a
\* star of its own before.
LEMMA ParamsFit ==
    ASSUME NEW p \in Seq(Segment), NEW r \in Seq(Segment),
           Match(p, r) \in {"FULL", "PARAM", "WILD"}, NEW i \in ParamsAt(p)
    PROVE  \/ i \in DOMAIN r /\ r[i] # Empty
           \/ \E j \in Stars(r) : j < i
<1> DEFINE n == Shorter(p, r)
           S == Settled(p, r)
<1>0. DOMAIN r = 1 .. Len(r) /\ Len(p) \in Nat /\ Len(r) \in Nat
    BY LenProperties
<1>1. /\ Len(p) \in Nat /\ Len(r) \in Nat
      /\ n \in Nat /\ n <= Len(p) /\ n <= Len(r) /\ (n = Len(p) \/ n = Len(r))
    BY <1>0 DEF Shorter
<1>2. /\ i \in 1 .. Len(p) /\ p[i].kind = "param"
      /\ \A j \in 1 .. i : p[j] # Wild
    BY ParamBeforeStar
<1>3. Wild.kind = "wild" /\ Empty.kind = "empty" /\ Wild # Empty
    BY DEF Wild, Empty, Seg
<1>4. \A j : j \in S <=> j \in 1 .. n /\ Settles(p[j], r[j])
    BY DEF Settled
<1> HIDE DEF n, S
<1>5. ASSUME i \in 1 .. n, i \notin S
      PROVE  i \in DOMAIN r /\ r[i] # Empty
    <2>1. ~Settles(p[i], r[i])
        BY <1>4, <1>5
    <2>2. p[i] # Empty
        BY <1>2, <1>3
    <2>3. r[i] # Empty
        BY <2>1, <2>2 DEF Settles
    <2>4. i \in 1 .. Len(r)
        BY <1>1, <1>5
    <2>5. QED
        BY <1>0, <2>3, <2>4
<1>6. CASE S = {}
    <2>1. Len(p) # Len(r) => WildBase(p, r) \/ WildBase(r, p)
        BY <1>6 DEF Match, S
    <2>2. \/ Len(p) = Len(r) \/ Len(r) = Len(p) + 1
          \/ Len(p) = Len(r) + 1 /\ p[Len(p)] = Wild
        BY <2>1 DEF WildBase
    <2>3. i \in 1 .. Len(p) /\ (p[Len(p)] = Wild => i # Len(p))
        BY <1>2, <1>3
    <2>4. i \in 1 .. n
        BY <1>1, <2>2, <2>3
    <2>5. QED
        BY <1>5, <1>6, <2>4
<1>7. CASE S # {}
    <2> DEFINE k == Min(S)
    <2>1. Wild \in {p[k], r[k]}
        BY <1>7 DEF Match, Verdict, S
    <2>2. S \in SUBSET (1 .. n) /\ S \in SUBSET Nat
        BY <1>4
    <2>3. k \in S /\ \A j \in S : k <= j
        BY <1>7, <2>2, LeastPosition
    <2> HIDE DEF k
    <2>4. k \in 1 .. n
        BY <2>2, <2>3
    <2>5. i \in 1 .. Len(p)
        BY <1>2
    <2>6. CASE i < k
        <3>1. i \in 1 .. n
            BY <1>1, <2>4, <2>5, <2>6
        <3>2. i \notin S
            <4>1. ~(k <= i)
                BY <1>1, <2>4, <2>5, <2>6
            <4>2. QED
                BY <2>3, <4>1
        <3>3. QED
            BY <1>5, <3>1, <3>2
    <2>7. CASE ~(i < k)
        <3>1. k \in 1 .. i /\ k \in 1 .. Len(r) /\ (k < i \/ k = i)
            BY <1>1, <2>4, <2>5, <2>7
        <3>2. r[k] = Wild
            BY <1>2, <2>1, <3>1
        <3>3. k \in DOMAIN r
            BY <1>0, <3>1
        <3>4. k \in Stars(r)
            BY <3>2, <3>3 DEF Stars
        <3>5. CASE k < i
            BY <3>4, <3>5
        <3>6. CASE k = i
            BY <1>3, <3>2, <3>3, <3>6
        <3>7. QED
            BY <3>1, <3>5, <3>6
    <2>8. QED
        BY <2>6, <2>7
<1>8. QED
    BY <1>6, <1>7

\* A better match without the method falls through to the route.
LEMMA FallsThrough == TableInv => FallsThroughToARoute
<1> SUFFICES ASSUME TableInv, ~Crossing, NEW id \in DOMAIN routes, NEW r \in PlainRequests,
                    NEW m \in Methods, Match(routes[id].path, r) # "NO", AloneOn(id, r),
                    routes[id].methods = {} \/ m \in routes[id].methods
             PROVE  Handle(r, m).does \in {"route", "options"}
    BY DEF FallsThroughToARoute
<1> DEFINE class == Match(routes[id].path, r)
           j == Matched(class, r)
<1>1. r \in Seq(Segment) /\ IsPlain(r)
    BY RequestsAssumption DEF PlainRequests
<1>2. j \in DOMAIN handlers /\ Holds(j, id)
    BY <1>1, AloneIsHeld
<1>3. j # 0 /\ id # None
    BY <1>2, PathsTyped DEF TableInv, None
<1>4. HandlerOf(handlers[j], m)[1] = "route"
    <2> HIDE DEF j
    <2>1. m \in DOMAIN handlers[j].byMethod \/ handlers[j].global # None
        BY <1>2, <1>3 DEF Holds
    <2>2. QED
        BY <2>1 DEF HandlerOf
<1>5. class \in {"FULL", "PARAM", "WILD"}
    BY DEF Match, Verdict, Params
<1>6. PICK c \in 1 .. 3 : Matches(r)[c] = j
    BY <1>5 DEF Matches
<1>7. c \in Able(Matches(r), m)
    <2> HIDE DEF j
    <2>1. QED
        BY <1>3, <1>4, <1>6, FirstAbleRuns
<1>8. PICK first \in Able(Matches(r), m) : Handle(r, m) = Ran(Matches(r)[first], m)
    BY <1>7, FirstAbleRuns
<1>9. HandlerOf(handlers[Matches(r)[first]], m)[1] # "none"
    BY <1>8, FirstAbleRuns
<1>10. \A entry : HandlerOf(entry, m)[1] \in {"route", "options", "none"}
    BY DEF HandlerOf
<1>11. Ran(Matches(r)[first], m).does = HandlerOf(handlers[Matches(r)[first]], m)[1]
    BY DEF Ran
<1>12. QED
    BY <1>8, <1>9, <1>10, <1>11

\* The entry that answers OPTIONS by default is the first that matches.
LEMMA AllowServed == TableInv => AllowIsServed
<1> SUFFICES ASSUME TableInv, NEW r \in PlainRequests, Handle(r, "OPTIONS").does = "options",
                    NEW m \in Methods
             PROVE  LET done == Handle(r, "OPTIONS")
                        entry == handlers[done.entry]
                    IN  Handle(r, m).entry = done.entry
                        <=> IF m = "HEAD" THEN {"GET", "HEAD"} \cap DOMAIN entry.byMethod # {}
                            ELSE m \in Allow(entry)
    BY DEF AllowIsServed
<1> DEFINE matches == Matches(r)
           able(method) == Able(matches, method)
<1>1. PICK best \in able("OPTIONS") :
            /\ \A c \in able("OPTIONS") : best <= c
            /\ Handle(r, "OPTIONS") = Ran(matches[best], "OPTIONS")
    BY FirstAbleRuns
<1> DEFINE entry == handlers[matches[best]]
<1>2. Handle(r, "OPTIONS").entry = matches[best] /\ HandlerOf(entry, "OPTIONS")[1] = "options"
    BY <1>1 DEF Ran
<1>3. entry.global = None /\ "OPTIONS" \notin DOMAIN entry.byMethod
    BY <1>2 DEF HandlerOf
<1>4. \A any : HandlerOf(any, "OPTIONS")[1] # "none"
    BY DEF HandlerOf
<1>5. /\ best \in 1 .. 3 /\ matches[best] # 0
      /\ \A c \in 1 .. 3 : matches[c] # 0 => best <= c
    BY <1>1, <1>4, FirstAbleRuns
<1>6. HandlerOf(entry, m)[1] # "none"
        <=> IF m = "HEAD" THEN {"GET", "HEAD"} \cap DOMAIN entry.byMethod # {}
            ELSE m \in Allow(entry)
    <2> HIDE DEF entry
    <2>1. CASE m = "HEAD"
        BY <1>3, <2>1 DEF HandlerOf
    <2>2. CASE m # "HEAD"
        BY <1>3, <2>2 DEF HandlerOf, Allow
    <2>3. QED
        BY <2>1, <2>2
<1>7. ASSUME HandlerOf(entry, m)[1] # "none"
      PROVE  Handle(r, m).entry = matches[best]
    <2>1. best \in able(m)
        BY <1>5, <1>7, FirstAbleRuns
    <2>2. PICK first \in able(m) :
                /\ \A c \in able(m) : first <= c
                /\ Handle(r, m) = Ran(matches[first], m)
        BY <2>1, FirstAbleRuns
    <2>3. first \in 1 .. 3 /\ matches[first] # 0
        BY <2>2, FirstAbleRuns
    <2>4. first = best
        BY <1>5, <2>1, <2>2, <2>3
    <2>5. QED
        BY <2>2, <2>4 DEF Ran
<1>8. ASSUME HandlerOf(entry, m)[1] = "none"
      PROVE  Handle(r, m).entry # matches[best]
    <2>1. CASE able(m) = {}
        BY <1>5, <2>1, FirstAbleRuns
    <2>2. CASE able(m) # {}
        <3>1. PICK first \in able(m) : Handle(r, m) = Ran(matches[first], m)
            BY <2>2, FirstAbleRuns
        <3>2. first \in 1 .. 3 /\ matches[first] # 0 /\ first # best
            BY <1>8, <3>1, FirstAbleRuns
        <3>3. matches[first] # matches[best]
            BY <1>5, <3>2, ClassesDiffer DEF TableInv
        <3>4. QED
            BY <3>1, <3>3 DEF Ran
    <2>3. QED
        BY <2>1, <2>2
<1>9. QED
    BY <1>2, <1>6, <1>7, <1>8

-----------------------------------------------------------------------------
\* The inductive invariant of the table.
THEOREM RouterInvariant == Spec => []TableInv
<1>1. QED
    BY InitTable, NextTable, PTL DEF Spec

\* The table is the record of the calls of route(): nothing stands in it under
\* a path or for a method it was not given for, and no call displaces an
\* earlier one, for all paths and any number of calls (lines 17-50).
THEOREM RouterTable == Spec => []TypeOK
<1>1. TableInv => TypeOK
    <2> SUFFICES ASSUME TableInv
                 PROVE  TypeOK
        OBVIOUS
    <2>1. \A i \in DOMAIN handlers : handlers[i].path \in Seq(Segment) \ {<< >>}
        <3>1. \A e \in Entry : e.path \in Seq(Segment) \ {<< >>}
            BY DEF Entry
        <3>2. QED
            BY <3>1, LenProperties, ElementOfSeq DEF TableInv, TableTypes
    <2>2. QED
        BY <2>1 DEF TypeOK, TableInv, EntriesStand, Stands, NoneDisplaced, Holds
<1>2. QED
    BY <1>1, RouterInvariant, PTL

\* The paths in the table match plain requests as uri.hpp:11-16 says.
THEOREM RouterMatchesAsMeant == Spec => []MatchIsMeaning
<1>1. TableInv => MatchIsMeaning
    BY PathsTyped, MatchMeans, RequestsAssumption
       DEF TableInv, MatchIsMeaning, PlainRequests
<1>2. QED
    BY <1>1, RouterInvariant, PTL

\* Which of two paths in use was registered first, or is the request, makes no
\* difference to match (test/uri.cpp:180).
THEOREM RouterMatchesBothWays == Spec => []MatchBothWays
<1>1. TableInv => MatchBothWays
    BY PathsTyped, MatchSymmetric, RequestsAssumption DEF TableInv, MatchBothWays
<1>2. QED
    BY <1>1, RouterInvariant, PTL

\* No pattern, no merge and no later call of route() takes a request away from
\* the route that has its very path and its method (add_route and handle).
THEOREM RouterAnswersExactRoutes == Spec => []ExactRouteAnswers
BY ExactAnswers, RouterInvariant, PTL

\* run_handler reads behind the segments of a request (line 74) only where the
\* request has a "*" of its own before the parameter, for all tables and all
\* requests, patterns too.
THEOREM RouterFindsParams == Spec => []ParamsAreThere
<1>1. TableInv => ParamsAreThere
    <2> SUFFICES ASSUME TableInv, NEW r \in Requests, NEW m \in Methods,
                        Handle(r, m).entry # 0,
                        NEW i \in ParamsAt(handlers[Handle(r, m).entry].path)
                 PROVE  \/ i \in DOMAIN r /\ r[i] # Empty
                        \/ \E j \in Stars(r) : j < i
        BY DEF ParamsAreThere
    <2> DEFINE entry == Handle(r, m).entry
    <2>1. /\ entry \in DOMAIN handlers
          /\ Match(handlers[entry].path, r) \in {"FULL", "PARAM", "WILD"}
        BY HandleFinds DEF TableInv
    <2>2. handlers[entry].path \in Seq(Segment)
        BY <2>1, PathsTyped DEF TableInv
    <2>3. r \in Seq(Segment)
        BY RequestsAssumption
    <2> HIDE DEF entry
    <2>4. i \in ParamsAt(handlers[entry].path)
        BY DEF entry
    <2>5. QED
        BY <2>1, <2>2, <2>3, <2>4, ParamsFit
<1>2. QED
    BY <1>1, RouterInvariant, PTL

\* A request that a route is meant for, and no other path matches in the same
\* way, finds a handler: a better match without the method is passed over
\* (lines 112-135).
THEOREM RouterFallsThrough == Spec => []FallsThroughToARoute
BY FallsThrough, RouterInvariant, PTL

\* What the default answer to OPTIONS allows is what its entry serves (lines
\* 112-164).
THEOREM RouterAllowsWhatItServes == Spec => []AllowIsServed
BY AllowServed, RouterInvariant, PTL

\* What percent_decode takes off from the left is what the whole text says
\* (lines 15-33 of percent_encoding.cpp), for all strings of bytes.
THEOREM RouterDecodes == Spec => []DecodeIsMeaning
<1>1. DecodeIsMeaning
    <2>1. \A s \in Strings : s \in Seq(Byte)
        BY StringsAssumption
    <2>2. QED
        BY <2>1, DecodeSays DEF DecodeIsMeaning
<1>2. QED
    BY <1>1, PTL

\* A query written with encoded keys and values reads back as the same pairs,
\* and a key finds the value that was written first (lines 50-90 of uri.cpp),
\* for all lists of pairs of strings of bytes.
THEOREM RouterReadsQueriesBack == Spec => []QueryReadsBack
<1>1. ASSUME NEW pairs \in Seq(BytePair)
      PROVE  LET written == FlattenSeq([i \in DOMAIN pairs |->
                     (IF i = 1 THEN << >> ELSE <<Ampersand>>)
                     \o Encode(pairs[i][1]) \o <<Equals>> \o Encode(pairs[i][2])])
             IN  /\ Query(written) = {pairs}
                 /\ \A i \in DOMAIN pairs :
                        \/ QueryParam(pairs, pairs[i][1]) = {pairs[i][2]}
                        \/ \E j \in 1 .. i - 1 : pairs[j][1] = pairs[i][1]
    <2>1. Written(pairs) = FlattenSeq([i \in DOMAIN pairs |->
                (IF i = 1 THEN << >> ELSE <<Ampersand>>)
                \o Encode(pairs[i][1]) \o <<Equals>> \o Encode(pairs[i][2])])
        BY Zenon DEF Written, Piece
    <2>2. Query(Written(pairs)) = {pairs}
        BY QueryDecodes
    <2>3. \A i \in DOMAIN pairs :
                \/ QueryParam(pairs, pairs[i][1]) = {pairs[i][2]}
                \/ \E j \in 1 .. i - 1 : pairs[j][1] = pairs[i][1]
        BY FirstValueFound
    <2>4. QED
        BY <2>1, <2>2, <2>3, Zenon
<1>2. QueryReadsBack
    <2>1. \A pairs \in QueryLists : pairs \in Seq(BytePair)
        BY StringsAssumption DEF BytePair
    <2>2. QED
        BY <1>1, <2>1, Zenon DEF QueryReadsBack
<1>3. QED
    BY <1>2, PTL

=============================================================================

-------------------------------- MODULE Trees --------------------------------
(***************************************************************************)
(* JSON values, the trees they form, and the databases a tree is cut into. *)
(*                                                                         *)
(* A tree maps every path at which there is a value to that value, where   *)
(* an object is a value of its own: its keys are the paths one longer.     *)
(* With each path a tree has all its prefixes.                             *)
(***************************************************************************)
EXTENDS Integers, Sequences, SequencesExt

CONSTANTS
    Keys,   \* the keys objects have
    Tops,   \* the keys of the root that hold databases: vm, dom-store
    Names,  \* the names used below them
    Uuids,  \* the names a file must have to be loaded
    NoFile  \* the content of a file that does not exist

ASSUME NamesAssumption == Uuids \subseteq Names
ASSUME KeysAssumption == Tops \cup Names \subseteq Keys

Paths == Seq(Keys)

-----------------------------------------------------------------------------
(* Values: the kind, and what a value of that kind holds.                  *)

Object == <<"object">>
Null == <<"null">>
String(s) == <<"string", s>>
Bool(b) == <<"bool", b>>
Number(n) == <<"number", n>>
Array(elements) == <<"array">> \o elements

Kind(v) == v[1]
IsArray(v) == Kind(v) = "array"

IsValue(v) ==
    /\ Len(v) \in Nat \ {0} /\ v = [i \in 1 .. Len(v) |-> v[i]]
    /\ Kind(v) \in {"object", "null", "string", "bool", "number", "array"}
    /\ Kind(v) = "object" => v = Object

-----------------------------------------------------------------------------
(* Trees                                                                   *)

\* What has keys is an object.
IsTree(t) ==
    /\ DOMAIN t \subseteq Paths /\ <<>> \in DOMAIN t
    /\ \A q \in DOMAIN t :
         /\ IsValue(t[q])
         /\ q # <<>> => Front(q) \in DOMAIN t /\ t[Front(q)] = Object

\* A whole tree, or that of a database, is an object.
IsObject(t) == IsTree(t) /\ t[<<>>] = Object

EmptyObject == [p \in {<<>>} |-> Object]
Leaf(v) == [p \in {<<>>} |-> v]

Rest(p, q) == SubSeq(q, Len(p) + 1, Len(q))
Below(t, p) == {q \in DOMAIN t : IsPrefix(p, q)}
At(t, p) == [r \in {Rest(p, q) : q \in Below(t, p)} |-> t[p \o r]]
Cut(t, p) == [q \in DOMAIN t \ Below(t, p) |-> t[q]]

\* insert(): whatever was at p is replaced.
Put(t, p, sub) ==
    [q \in (DOMAIN t \ Below(t, p)) \cup {p \o r : r \in DOMAIN sub} |->
        IF IsPrefix(p, q) THEN sub[Rest(p, q)] ELSE t[q]]

\* Mutant: a string is appended as well.
JoinedStrings(old, new) ==
    IF Kind(old) = Kind(new) /\ Kind(old) \in {"array", "string"}
    THEN old \o Tail(new) ELSE new

\* QMJsonArrayUnitePolicy_Append
Joined(old, new) == IF IsArray(old) /\ IsArray(new) THEN old \o Tail(new) ELSE new

(***************************************************************************)
(* unite() with QMJsonReplacementPolicy_Replace: objects are united and    *)
(* arrays appended, any other value of sub replaces what is there.         *)
(***************************************************************************)
Replaced(p, sub, q) == \E r \in DOMAIN sub : sub[r] # Object /\ IsPrefix(p \o r, q)
Unite(t, p, sub) ==
    LET new == {p \o r : r \in DOMAIN sub} IN
    [q \in {q \in DOMAIN t : ~Replaced(p, sub, q)} \cup new |->
        IF q \notin new THEN t[q]
        ELSE IF q \in DOMAIN t THEN Joined(t[q], sub[Rest(p, q)])
        ELSE sub[Rest(p, q)]]

\* The prefixes of p but the root, and what a walk along them meets.
PathsTo(p) == {SubSeq(p, 1, i) : i \in 1..Len(p)}
Missing(t, p) == PathsTo(p) \ DOMAIN t
Blocked(t, p) == \E q \in PathsTo(p) \cap DOMAIN t : t[q] # Object
WithObjects(t, missing) ==
    [q \in DOMAIN t \cup missing |-> IF q \in missing THEN Object ELSE t[q]]

-----------------------------------------------------------------------------
(* Databases: each is named by the path of its object, the main one by     *)
(* that of the root.                                                       *)

Main == <<>>
DbPaths == Tops \X Names
AllDbs == {Main} \cup DbPaths

\* loadChildren(): a file whose name is no uuid is ignored.
Lasting == {d \in AllDbs : d = Main \/ d[2] \in Uuids}

\* lookupDb(): the database a path belongs to.
DbOf(p) == IF Len(p) < 2 \/ p[1] \notin Tops THEN Main ELSE <<p[1], p[2]>>

\* jsonString(): the main database saves neither vm nor dom-store.
MainPart(t) == [q \in {q \in DOMAIN t : q = <<>> \/ q[1] \notin Tops} |-> t[q]]

\* flush(): an empty database has no file.
FileOf(t) == IF t = EmptyObject THEN NoFile ELSE t

\* readFromDisk(): no file reads as an empty object.
Content(file) == IF file = NoFile THEN EmptyObject ELSE file

\* loadTree(), from what each file holds.
TreeOf(file) ==
    LET loaded == {d \in DbPaths \cap Lasting : file[d] # NoFile}
        main == Content(file[Main])
        tops == {<<d[1]>> : d \in loaded}
        children == UNION {{d \o q : q \in DOMAIN file[d]} : d \in loaded} IN
    [q \in DOMAIN main \cup tops \cup children |->
        IF q \in children THEN file[DbOf(q)][Rest(DbOf(q), q)]
        ELSE IF q \in tops THEN Object
        ELSE main[q]]

-----------------------------------------------------------------------------
(* What a client sees a request do.                                        *)

Written(t, p, v) ==
    IF Blocked(t, Front(p)) THEN t
    ELSE Put(WithObjects(t, Missing(t, Front(p))), p, Leaf(v))

Merged(t, p, sub) ==
    IF Blocked(t, p) THEN t ELSE Unite(WithObjects(t, Missing(t, p)), p, sub)

\* The objects a walk to p has created at one time or another, and what there
\* is then.
Begun(t, p) == {{q \in Missing(t, p) : Len(q) <= n} : n \in 1 .. Len(p)} \ {{}}
OnTheWay(t, p) ==
    IF Blocked(t, p) THEN {} ELSE {WithObjects(t, made) : made \in Begun(t, p)}

\* What there is while the value at p is taken out.
Emptied(t, p) == [q \in {q \in DOMAIN t : q = p \/ ~IsPrefix(p, q)} |-> t[q]]

\* The part of the tree that is database d's.
Part(t, d) == IF d = Main THEN MainPart(t)
              ELSE IF d \in DOMAIN t THEN At(t, d) ELSE EmptyObject
=============================================================================

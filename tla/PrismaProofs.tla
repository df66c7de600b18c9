----------------------------- MODULE PrismaProofs -----------------------------
(***************************************************************************)
(* What TLAPS proves of the Prisma adapter: the filter built for a         *)
(* condition selects what CEL allows, for any mapper entries, cells,       *)
(* constants and size of plan. Three parts: the operators (Forms), the     *)
(* tests a plan is made of (Leaves), and the plan.                         *)
(***************************************************************************)
EXTENDS PrismaAdapter, FiniteSetTheorems, SequenceTheorems, TLAPS

-----------------------------------------------------------------------------
(* CEL's three outcomes, and SQL's *)

Tri == {True, False, Err}

LEMMA Constants ==
  /\ True # False /\ True # Err /\ False # Err /\ Null # Undefined /\ Null # Err /\ Undefined # Err
  /\ Undefined \notin Tri /\ Null \notin Tri /\ Unknown = Err
  /\ True.t = "bool" /\ False.t = "bool" /\ Err.t = "error" /\ Null.t = "null" /\ Undefined.t = "undefined"
  /\ Bool(TRUE) = True /\ Bool(FALSE) = False
  /\ \A b : Bool(b) \in {True, False}
BY DEF True, False, Err, Null, Undefined, Tri, Unknown, Bool

LEMMA BoolIs == ASSUME NEW P PROVE (Bool(P) = True <=> P) /\ (Bool(P) = False <=> ~P) /\ Bool(P) \in Tri /\ Bool(P) # Err
BY Constants DEF Bool, Tri

LEMMA Outcome == \A x \in Tri : AsBoolean(x) = x
BY Constants DEF Tri, AsBoolean

LEMMA NotIs ==
  ASSUME NEW x \in Tri
  PROVE  Not(x) \in Tri /\ (Not(x) = True <=> x = False) /\ (Not(x) = False <=> x = True)
         /\ Not(Not(x)) = x
BY Constants, Outcome DEF Not, Tri, Bool

LEMMA AndIs ==
  ASSUME NEW S, S \subseteq Tri
  PROVE  /\ And(S) \in Tri
         /\ And(S) = False <=> False \in S
         /\ And(S) = True <=> \A x \in S : x = True
BY Constants, Outcome DEF And, Junction, Tri, Bool

LEMMA OrIs ==
  ASSUME NEW S, S \subseteq Tri
  PROVE  /\ Or(S) \in Tri
         /\ Or(S) = True <=> True \in S
         /\ Or(S) = False <=> \A x \in S : x = False
BY Constants, Outcome DEF Or, Junction, Tri, Bool

\* Two operands, by their connective.
LEMMA JunctionIs ==
  ASSUME NEW x \in Tri, NEW y \in Tri, NEW op \in Junctions
  PROVE  LET z == Junction(op = "or", {x, y}) IN
         /\ z \in Tri
         /\ op = "and" => (z = True <=> x = True /\ y = True) /\ (z = False <=> x = False \/ y = False)
         /\ op = "or" => (z = True <=> x = True \/ y = True) /\ (z = False <=> x = False /\ y = False)
<1>1. {x, y} \subseteq Tri
  OBVIOUS
<1>2. CASE op = "and"
  <2>1. Junction(op = "or", {x, y}) = And({x, y})
    BY <1>2 DEF And
  <2> QED BY <1>1, <1>2, <2>1, AndIs, Constants
<1>3. CASE op = "or"
  <2>1. Junction(op = "or", {x, y}) = Or({x, y})
    BY <1>3 DEF Or
  <2> QED BY <1>1, <1>3, <2>1, OrIs, Constants
<1> QED BY <1>2, <1>3 DEF Junctions

-----------------------------------------------------------------------------
(* Filters and forms *)

EnvsOf(s) == IF s = "root" THEN {Root} ELSE Rows

\* A filter over the environments E, or a refusal.
FilterOn(E) ==
  [refused : {FALSE}, is : [E -> Tri], odd : SUBSET Disagreements]
    \union [refused : {TRUE}, is : {<<>>}, odd : SUBSET Disagreements]

FormOn(E) ==
  [const : {True, False, Undefined}, macro : BOOLEAN, hopped : BOOLEAN,
   present : [E -> BOOLEAN], nulls : [E -> BOOLEAN], yes : FilterOn(E), no : FilterOn(E)]

\* None of the shapes left out.
Tr(f) == ~f.refused /\ f.odd = {}

LEMMA FilterIs ==
  ASSUME NEW E, NEW f \in FilterOn(E)
  PROVE  /\ f.refused \in BOOLEAN /\ f.odd \subseteq Disagreements
         /\ ~f.refused => f.is \in [E -> Tri]
         /\ ~f.refused => \A e \in E : f.is[e] \in Tri
<1>1. /\ f.refused \in BOOLEAN /\ f.odd \subseteq Disagreements
      /\ ~f.refused => f.is \in [E -> Tri]
  BY DEF FilterOn
<1> QED BY <1>1

LEMMA FilterOf ==
  ASSUME NEW E, NEW is \in [E -> Tri], NEW odd \in SUBSET Disagreements
  PROVE  /\ Filter(is, odd) \in FilterOn(E)
         /\ Filter(is, odd).is = is /\ Filter(is, odd).odd = odd /\ ~Filter(is, odd).refused
BY DEF FilterOn, Filter

LEMMA RefusalIs == \A E : Refusal \in FilterOn(E) /\ Refusal.refused /\ ~Tr(Refusal)
BY DEF FilterOn, Refusal, Tr

LEMMA UnlessIs ==
  ASSUME NEW E, NEW b \in BOOLEAN, NEW is \in [E -> Tri], NEW odd \in SUBSET Disagreements
  PROVE  LET h == Unless(b, Filter(is, odd)) IN
         /\ h \in FilterOn(E) /\ h.refused = b
         /\ Tr(h) => ~b /\ odd = {} /\ h.is = is
BY FilterOf, RefusalIs DEF Unless, Filter, Refusal, Tr

LEMMA JoinIs ==
  ASSUME NEW E, NEW f \in FilterOn(E), NEW g \in FilterOn(E), NEW op \in Junctions
  PROVE  LET h == Join(op, f, g) IN
         /\ h \in FilterOn(E)
         /\ h.refused => f.refused \/ g.refused
         /\ Tr(h) => Tr(f) /\ Tr(g)
         /\ Tr(h) => \A e \in E : h.is[e] = IF op = "or" THEN Or({f.is[e], g.is[e]}) ELSE And({f.is[e], g.is[e]})
<1> DEFINE h == Join(op, f, g)
<1>1. CASE f.refused \/ g.refused
  <2>1. h = Refusal
    BY <1>1 DEF Join, Unless
  <2> QED BY <1>1, <2>1, RefusalIs
<1>2. CASE ~f.refused /\ ~g.refused
  <2> DEFINE is == [e \in E |-> Junction(op = "or", {f.is[e], g.is[e]})]
  <2>1. f.is \in [E -> Tri] /\ g.is \in [E -> Tri] /\ f.odd \union g.odd \in SUBSET Disagreements
    BY <1>2, FilterIs
  <2>2. \A e \in E : Junction(op = "or", {f.is[e], g.is[e]}) \in Tri
    BY <2>1, JunctionIs
  <2>3. is \in [E -> Tri]
    BY <2>2
  <2>4. h = Filter(is, f.odd \union g.odd)
    BY <1>2, <2>1 DEF Join, Unless
  <2>5. \A e \in E : is[e] = IF op = "or" THEN Or({f.is[e], g.is[e]}) ELSE And({f.is[e], g.is[e]})
    <3>1. CASE op = "or"
      BY <3>1 DEF Or
    <3>2. CASE op = "and"
      BY <3>2 DEF And
    <3> QED BY <3>1, <3>2 DEF Junctions
  <2> HIDE DEF is
  <2>6. h \in FilterOn(E) /\ h.is = is /\ h.odd = f.odd \union g.odd /\ ~h.refused
    BY <2>1, <2>3, <2>4, FilterOf
  <2> QED BY <1>2, <2>5, <2>6 DEF Tr
<1> QED BY <1>1, <1>2, FilterIs

\* The two connectives on filters.
LEMMA JoinAnd ==
  ASSUME NEW E, NEW f \in FilterOn(E), NEW g \in FilterOn(E), Tr(Join("and", f, g)), NEW e \in E
  PROVE  LET y == Join("and", f, g).is[e] IN
         /\ y \in Tri /\ f.is[e] \in Tri /\ g.is[e] \in Tri
         /\ y = True <=> f.is[e] = True /\ g.is[e] = True
         /\ y = False <=> f.is[e] = False \/ g.is[e] = False
<1>1. Tr(f) /\ Tr(g) /\ Join("and", f, g).is[e] = And({f.is[e], g.is[e]})
  BY JoinIs DEF Junctions
<1>2. f.is[e] \in Tri /\ g.is[e] \in Tri
  BY <1>1, FilterIs DEF Tr
<1> QED BY <1>1, <1>2, AndIs

LEMMA JoinOr ==
  ASSUME NEW E, NEW f \in FilterOn(E), NEW g \in FilterOn(E), Tr(Join("or", f, g)), NEW e \in E
  PROVE  LET y == Join("or", f, g).is[e] IN
         /\ y \in Tri /\ f.is[e] \in Tri /\ g.is[e] \in Tri
         /\ y = True <=> f.is[e] = True \/ g.is[e] = True
         /\ y = False <=> f.is[e] = False /\ g.is[e] = False
<1>1. Tr(f) /\ Tr(g) /\ Join("or", f, g).is[e] = Or({f.is[e], g.is[e]})
  BY JoinIs DEF Junctions
<1>2. f.is[e] \in Tri /\ g.is[e] \in Tri
  BY <1>1, FilterIs DEF Tr
<1> QED BY <1>1, <1>2, OrIs

LEMMA NegateIs ==
  ASSUME NEW E, NEW f \in FilterOn(E)
  PROVE  LET h == Negate(f) IN
         /\ h \in FilterOn(E) /\ (h.refused <=> f.refused)
         /\ ~f.refused => h.odd = f.odd
         /\ Tr(h) <=> Tr(f)
         /\ Tr(h) => \A e \in E : /\ h.is[e] \in Tri /\ f.is[e] \in Tri
                                  /\ h.is[e] = True <=> f.is[e] = False
                                  /\ h.is[e] = False <=> f.is[e] = True
<1> DEFINE h == Negate(f)
<1>1. CASE f.refused
  <2>1. h = Refusal
    BY <1>1 DEF Negate, Unless
  <2> QED BY <1>1, <2>1, RefusalIs, FilterIs DEF Tr, Refusal
<1>2. CASE ~f.refused
  <2> DEFINE is == [e \in E |-> Not(f.is[e])]
  <2>1. f.is \in [E -> Tri] /\ f.odd \in SUBSET Disagreements
    BY <1>2, FilterIs
  <2>2. \A e \in E : f.is[e] \in Tri /\ Not(f.is[e]) \in Tri
                     /\ (Not(f.is[e]) = True <=> f.is[e] = False) /\ (Not(f.is[e]) = False <=> f.is[e] = True)
    BY <2>1, NotIs
  <2>3. h = Filter(is, f.odd)
    BY <1>2, <2>1 DEF Negate, Unless
  <2>4. is \in [E -> Tri] /\ \A e \in E : is[e] = Not(f.is[e])
    BY <2>2
  <2> HIDE DEF is
  <2>5. h \in FilterOn(E) /\ h.is = is /\ h.odd = f.odd /\ ~h.refused
    BY <2>1, <2>4, <2>3, FilterOf
  <2> QED BY <1>2, <2>4, <2>2, <2>5 DEF Tr
<1> QED BY <1>1, <1>2, FilterIs

-----------------------------------------------------------------------------
(* What a form is worth, of a condition whose value is v and which a row may be lost of where g *)

\* The filters prove that the condition holds, and find where it does. The negation of a filter
\* that was built of macros has forgotten their errors.
TrueSide(f, v, g, e) ==
  /\ Tr(f.yes) => /\ f.yes.is[e] = True => v[e] = True
                  /\ v[e] = True /\ ~g[e] => f.yes.is[e] = True
  /\ Tr(f.no) => /\ f.no.is[e] = False /\ ~f.macro /\ f.present[e] => v[e] = True
                 /\ v[e] = True /\ ~g[e] => f.no.is[e] = False

\* They prove that it is false, and find where it is.
FalseSide(f, v, g, e) ==
  /\ Tr(f.no) => /\ f.no.is[e] = True => v[e] = False
                 /\ v[e] = False /\ ~g[e] => f.no.is[e] = True
  /\ Tr(f.yes) => /\ f.yes.is[e] = False /\ ~f.macro /\ f.present[e] => v[e] = False
                  /\ v[e] = False /\ ~g[e] => f.yes.is[e] = False

\* A constant is the same everywhere and both its filters say it.
ConstantOK(f, e) ==
  f.const # Undefined =>
    /\ ~f.yes.refused /\ ~f.no.refused /\ ~f.macro /\ f.present[e]
    /\ f.yes.is[e] = f.const /\ f.no.is[e] = Not(f.const) /\ f.yes.odd = f.no.odd

\* Only a hop can be absent, and there the row may be lost.
HopsOK(f, g, e) == (~f.hopped => f.present[e]) /\ (~f.present[e] => g[e])

\* At a related row nothing is absent, and only the NULL of a column that was recorded errs.
RowOK(f, g, e) ==
  /\ ~f.macro /\ ~f.hopped
  /\ f.nulls[e] => g[e]
  /\ ~f.nulls[e] => (Tr(f.yes) => f.yes.is[e] # Err) /\ (Tr(f.no) => f.no.is[e] # Err)

FormOK(s, p, f, v, g) ==
  /\ f \in FormOn(EnvsOf(s))
  /\ \A e \in EnvsOf(s) :
       /\ ConstantOK(f, e) /\ HopsOK(f, g, e)
       /\ s # "root" => RowOK(f, g, e)
       /\ p # "negative" => TrueSide(f, v, g, e)
       /\ p # "positive" => FalseSide(f, v, g, e)

Verdicts(s, v, g) == v \in [EnvsOf(s) -> Tri] /\ g \in [EnvsOf(s) -> BOOLEAN]

FormsOK(s, v, g, fs) == Verdicts(s, v, g) /\ \A p \in Polarities : FormOK(s, p, fs[p], v, g)

LEMMA FormIs ==
  ASSUME NEW E, NEW f \in FormOn(E)
  PROVE  /\ f.const \in {True, False, Undefined} /\ f.macro \in BOOLEAN /\ f.hopped \in BOOLEAN
         /\ f.present \in [E -> BOOLEAN] /\ f.nulls \in [E -> BOOLEAN]
         /\ f.yes \in FilterOn(E) /\ f.no \in FilterOn(E)
BY DEF FormOn

LEMMA OppositeIs ==
  ASSUME NEW p \in Polarities
  PROVE  /\ Opposite(p) \in Polarities
         /\ p # "negative" <=> Opposite(p) # "positive"
         /\ p # "positive" <=> Opposite(p) # "negative"
         /\ Opposite(p) = "unfixed" <=> p = "unfixed"
BY DEF Polarities, Opposite

\* What is known of a value passes to another, where the two agree on what can be found.
LEMMA Refines ==
  ASSUME NEW s, NEW p, NEW f, NEW v, NEW g, NEW w, NEW h, FormOK(s, p, f, v, g),
         \A e \in EnvsOf(s) :
           /\ g[e] => h[e]
           /\ p # "negative" => (v[e] = True => w[e] = True) /\ (w[e] = True /\ ~h[e] => v[e] = True)
           /\ p # "positive" => (v[e] = False => w[e] = False) /\ (w[e] = False /\ ~h[e] => v[e] = False)
  PROVE  FormOK(s, p, f, w, h)
<1> SUFFICES ASSUME NEW e \in EnvsOf(s)
             PROVE  /\ ConstantOK(f, e) /\ HopsOK(f, h, e)
                    /\ s # "root" => RowOK(f, h, e)
                    /\ p # "negative" => TrueSide(f, w, h, e)
                    /\ p # "positive" => FalseSide(f, w, h, e)
  BY DEF FormOK
<1>1. /\ ConstantOK(f, e) /\ HopsOK(f, g, e)
      /\ s # "root" => RowOK(f, g, e)
      /\ p # "negative" => TrueSide(f, v, g, e)
      /\ p # "positive" => FalseSide(f, v, g, e)
  BY DEF FormOK
<1>2. HopsOK(f, h, e) /\ (s # "root" => RowOK(f, h, e))
  BY <1>1 DEF HopsOK, RowOK
<1>3. p # "negative" => TrueSide(f, w, h, e)
  BY <1>1 DEF TrueSide
<1>4. p # "positive" => FalseSide(f, w, h, e)
  BY <1>1 DEF FalseSide
<1> QED BY <1>1, <1>2, <1>3, <1>4

\* NotForm
LEMMA NegatedForm ==
  ASSUME NEW s, NEW p \in Polarities, NEW f, NEW v, NEW g, NEW w, Verdicts(s, v, g),
         FormOK(s, Opposite(p), f, v, g), \A e \in EnvsOf(s) : w[e] = Not(v[e])
  PROVE  FormOK(s, p, NotForm(f), w, g)
<1> DEFINE n == NotForm(f)
<1>1. f \in FormOn(EnvsOf(s))
  BY DEF FormOK
<1>2. /\ n \in FormOn(EnvsOf(s))
      /\ n.yes = f.no /\ n.no = f.yes /\ n.macro = f.macro /\ n.hopped = f.hopped
      /\ n.present = f.present /\ n.nulls = f.nulls
      /\ n.const = IF f.const = Undefined THEN Undefined ELSE Not(f.const)
  <2>1. (IF f.const = Undefined THEN Undefined ELSE Not(f.const)) \in {True, False, Undefined}
    BY <1>1, FormIs, NotIs, Constants DEF Tri
  <2> QED BY <1>1, <2>1 DEF NotForm, FormOn
<1> SUFFICES ASSUME NEW e \in EnvsOf(s)
             PROVE  /\ ConstantOK(n, e) /\ HopsOK(n, g, e)
                    /\ s # "root" => RowOK(n, g, e)
                    /\ p # "negative" => TrueSide(n, w, g, e)
                    /\ p # "positive" => FalseSide(n, w, g, e)
  BY <1>2 DEF FormOK
<1>3. /\ ConstantOK(f, e) /\ HopsOK(f, g, e)
      /\ s # "root" => RowOK(f, g, e)
      /\ p # "positive" => TrueSide(f, v, g, e)
      /\ p # "negative" => FalseSide(f, v, g, e)
  BY OppositeIs DEF FormOK
<1>4. v[e] \in Tri /\ (w[e] = True <=> v[e] = False) /\ (w[e] = False <=> v[e] = True)
  BY NotIs DEF Verdicts
<1> HIDE DEF n
<1>5. ConstantOK(n, e)
  <2>1. f.const # Undefined => f.const \in Tri
    BY <1>1, FormIs DEF Tri
  <2> QED BY <1>2, <1>3, <2>1, NotIs DEF ConstantOK
<1>6. HopsOK(n, g, e) /\ (s # "root" => RowOK(n, g, e))
  BY <1>2, <1>3 DEF HopsOK, RowOK
<1>7. p # "negative" => TrueSide(n, w, g, e)
  BY <1>2, <1>3, <1>4 DEF TrueSide, FalseSide
<1>8. p # "positive" => FalseSide(n, w, g, e)
  BY <1>2, <1>3, <1>4 DEF TrueSide, FalseSide
<1> QED BY <1>5, <1>6, <1>7, <1>8

-----------------------------------------------------------------------------
(* Junctions *)

LEMMA CombinedIs ==
  ASSUME NEW E, NEW fs, fs \subseteq FormOn(E), fs # {}, NEW y \in FilterOn(E)
  PROVE  LET c == Combined(fs, y) IN
         /\ c \in FormOn(E) /\ c.const = Undefined /\ c.yes = y /\ c.no = y
         /\ c.macro <=> \E f \in fs : f.macro
         /\ c.hopped <=> \E f \in fs : f.hopped
         /\ \A e \in E : (c.present[e] <=> \A f \in fs : f.present[e]) /\ (c.nulls[e] <=> \E f \in fs : f.nulls[e])
<1> DEFINE envs == DOMAIN (CHOOSE f \in fs : TRUE).present
           present == [e \in envs |-> \A f \in fs : f.present[e]]
           nulls == [e \in envs |-> \E f \in fs : f.nulls[e]]
<1>1. envs = E
  <2>1. (CHOOSE f \in fs : TRUE) \in FormOn(E)
    OBVIOUS
  <2> QED BY <2>1, FormIs
<1>2. present \in [E -> BOOLEAN] /\ nulls \in [E -> BOOLEAN]
  BY <1>1
<1>3. \A e \in E : (present[e] <=> \A f \in fs : f.present[e]) /\ (nulls[e] <=> \E f \in fs : f.nulls[e])
  BY <1>1
<1>4. Combined(fs, y) =
        [const |-> Undefined, macro |-> \E f \in fs : f.macro, hopped |-> \E f \in fs : f.hopped,
         present |-> present, nulls |-> nulls, yes |-> y, no |-> y]
  BY DEF Combined
<1> HIDE DEF present, nulls
<1> QED BY <1>2, <1>3, <1>4 DEF FormOn

LEMMA CombinedPair ==
  ASSUME NEW E, NEW f \in FormOn(E), NEW g \in FormOn(E), NEW y \in FilterOn(E)
  PROVE  LET c == Combined({f, g}, y) IN
         /\ c \in FormOn(E) /\ c.const = Undefined /\ c.yes = y /\ c.no = y
         /\ c.macro <=> f.macro \/ g.macro
         /\ c.hopped <=> f.hopped \/ g.hopped
         /\ \A e \in E : (c.present[e] <=> f.present[e] /\ g.present[e]) /\ (c.nulls[e] <=> f.nulls[e] \/ g.nulls[e])
<1>1. PICK fs : fs = {f, g}
  OBVIOUS
<1>2. fs \subseteq FormOn(E) /\ fs # {}
  BY <1>1
<1>3. LET c == Combined(fs, y) IN
         /\ c \in FormOn(E) /\ c.const = Undefined /\ c.yes = y /\ c.no = y
         /\ c.macro <=> \E h \in fs : h.macro
         /\ c.hopped <=> \E h \in fs : h.hopped
         /\ \A e \in E : (c.present[e] <=> \A h \in fs : h.present[e]) /\ (c.nulls[e] <=> \E h \in fs : h.nulls[e])
  BY <1>2, CombinedIs
<1>4. \A h : h \in fs <=> h = f \/ h = g
  BY <1>1
<1>5. LET c == Combined(fs, y) IN
         /\ c \in FormOn(E) /\ c.const = Undefined /\ c.yes = y /\ c.no = y
         /\ c.macro <=> f.macro \/ g.macro
         /\ c.hopped <=> f.hopped \/ g.hopped
         /\ \A e \in E : (c.present[e] <=> f.present[e] /\ g.present[e]) /\ (c.nulls[e] <=> f.nulls[e] \/ g.nulls[e])
  BY <1>3, <1>4
<1> QED BY <1>1, <1>5

LEMMA BuildJunctionIs ==
  ASSUME NEW E, NEW f \in FormOn(E), NEW g \in FormOn(E), NEW op \in Junctions
  PROVE  LET b == BuildJunction(op, f, g) IN
         /\ b \in FormOn(E) /\ b.const = Undefined
         /\ b.macro <=> f.macro \/ g.macro
         /\ b.hopped <=> f.hopped \/ g.hopped
         /\ \A e \in E : (b.present[e] <=> f.present[e] /\ g.present[e]) /\ (b.nulls[e] <=> f.nulls[e] \/ g.nulls[e])
         /\ b.yes = Join(op, f.yes, g.yes)
         /\ b.no = IF b.macro \/ b.hopped THEN Join(Dual(op), f.no, g.no) ELSE Negate(b.yes)
<1>1. PICK y \in FilterOn(E) : y = Join(op, f.yes, g.yes)
  BY FormIs, JoinIs
<1> DEFINE c == Combined({f, g}, y)
           no == IF c.macro \/ c.hopped THEN Join(Dual(op), f.no, g.no) ELSE Negate(c.yes)
<1>2. /\ c \in FormOn(E) /\ c.const = Undefined /\ c.yes = y /\ c.no = y
      /\ c.macro <=> f.macro \/ g.macro
      /\ c.hopped <=> f.hopped \/ g.hopped
      /\ \A e \in E : (c.present[e] <=> f.present[e] /\ g.present[e]) /\ (c.nulls[e] <=> f.nulls[e] \/ g.nulls[e])
  BY CombinedPair, ZenonT(60)
<1>3. Dual(op) \in Junctions
  BY DEF Junctions, Dual
<1>4. no \in FilterOn(E)
  BY <1>1, <1>2, <1>3, FormIs, JoinIs, NegateIs
<1>5. BuildJunction(op, f, g) = [c EXCEPT !.no = no]
  BY <1>1, <1>2 DEF BuildJunction
<1> HIDE DEF c
<1> QED BY <1>1, <1>2, <1>4, <1>5 DEF FormOn

\* z joins x and y.
Joins(op, z, x, y) ==
  /\ x \in Tri /\ y \in Tri /\ z \in Tri
  /\ op = "and" => (z = True <=> x = True /\ y = True) /\ (z = False <=> x = False \/ y = False)
  /\ op = "or" => (z = True <=> x = True \/ y = True) /\ (z = False <=> x = False /\ y = False)

LEMMA JoinJoins ==
  ASSUME NEW E, NEW f \in FilterOn(E), NEW g \in FilterOn(E), NEW op \in Junctions, Tr(Join(op, f, g)), NEW e \in E
  PROVE  Tr(f) /\ Tr(g) /\ Joins(op, Join(op, f, g).is[e], f.is[e], g.is[e])
<1>1. Tr(f) /\ Tr(g)
  BY JoinIs
<1>2. CASE op = "and"
  BY <1>1, <1>2, JoinAnd DEF Joins
<1>3. CASE op = "or"
  BY <1>1, <1>3, JoinOr DEF Joins
<1> QED BY <1>1, <1>2, <1>3 DEF Junctions

LEMMA BuiltJunction ==
  ASSUME NEW op \in Junctions, NEW s, NEW p, NEW f, NEW g, NEW v, NEW w, NEW gv, NEW gw, NEW u, NEW h,
         FormOK(s, p, f, v, gv), FormOK(s, p, g, w, gw),
         \A e \in EnvsOf(s) : Joins(op, u[e], v[e], w[e]) /\ (h[e] <=> gv[e] \/ gw[e])
  PROVE  FormOK(s, p, BuildJunction(op, f, g), u, h)
<1> DEFINE b == BuildJunction(op, f, g)
           E == EnvsOf(s)
<1>1. f \in FormOn(E) /\ g \in FormOn(E)
  BY DEF FormOK
<1>2. /\ f.yes \in FilterOn(E) /\ f.no \in FilterOn(E) /\ g.yes \in FilterOn(E) /\ g.no \in FilterOn(E)
  BY <1>1, FormIs
<1>3. /\ b \in FormOn(E) /\ b.const = Undefined
      /\ b.macro <=> f.macro \/ g.macro
      /\ b.hopped <=> f.hopped \/ g.hopped
      /\ \A e \in E : (b.present[e] <=> f.present[e] /\ g.present[e]) /\ (b.nulls[e] <=> f.nulls[e] \/ g.nulls[e])
      /\ b.yes = Join(op, f.yes, g.yes)
      /\ b.no = IF b.macro \/ b.hopped THEN Join(Dual(op), f.no, g.no) ELSE Negate(b.yes)
  BY <1>1, BuildJunctionIs
<1> HIDE DEF b, E
<1> SUFFICES ASSUME NEW e \in E
             PROVE  /\ ConstantOK(b, e) /\ HopsOK(b, h, e)
                    /\ s # "root" => RowOK(b, h, e)
                    /\ p # "negative" => TrueSide(b, u, h, e)
                    /\ p # "positive" => FalseSide(b, u, h, e)
  BY <1>3 DEF FormOK, E, b
<1>4. /\ HopsOK(f, gv, e) /\ HopsOK(g, gw, e)
      /\ s # "root" => RowOK(f, gv, e) /\ RowOK(g, gw, e)
      /\ p # "negative" => TrueSide(f, v, gv, e) /\ TrueSide(g, w, gw, e)
      /\ p # "positive" => FalseSide(f, v, gv, e) /\ FalseSide(g, w, gw, e)
  BY DEF FormOK, E
<1>5. Joins(op, u[e], v[e], w[e]) /\ (h[e] <=> gv[e] \/ gw[e])
  BY DEF E
<1>6. Tr(b.yes) => Tr(f.yes) /\ Tr(g.yes) /\ Joins(op, b.yes.is[e], f.yes.is[e], g.yes.is[e])
  BY <1>2, <1>3, JoinJoins
<1>7. ASSUME b.macro \/ b.hopped, Tr(b.no)
      PROVE  Tr(f.no) /\ Tr(g.no) /\ Joins(Dual(op), b.no.is[e], f.no.is[e], g.no.is[e])
  BY <1>2, <1>3, <1>7, JoinJoins DEF Junctions, Dual
<1>8. ASSUME ~b.macro, ~b.hopped, Tr(b.no)
      PROVE  /\ Tr(b.yes) /\ b.no.is[e] \in Tri
             /\ b.no.is[e] = True <=> b.yes.is[e] = False
             /\ b.no.is[e] = False <=> b.yes.is[e] = True
  <2>1. b.no = Negate(b.yes) /\ b.yes \in FilterOn(E)
    BY <1>3, <1>8, FormIs
  <2> QED BY <2>1, <1>8, NegateIs
<1>9. ConstantOK(b, e)
  BY <1>3 DEF ConstantOK
<1>10. HopsOK(b, h, e)
  BY <1>3, <1>4, <1>5 DEF HopsOK
<1>11. ASSUME s # "root" PROVE RowOK(b, h, e)
  <2>1. ~b.macro /\ ~b.hopped /\ (b.nulls[e] => h[e])
    BY <1>3, <1>4, <1>5, <1>11 DEF RowOK
  <2>2. ASSUME ~b.nulls[e], Tr(b.yes) PROVE b.yes.is[e] # Err
    <3>1. f.yes.is[e] \in {True, False} /\ g.yes.is[e] \in {True, False}
      BY <1>3, <1>4, <1>6, <1>11, <2>2 DEF RowOK, Joins, Tri
    <3> QED BY <1>6, <2>2, <3>1, Constants DEF Joins, Junctions
  <2>3. ASSUME ~b.nulls[e], Tr(b.no) PROVE b.no.is[e] # Err
    <3>1. b.yes.is[e] # Err /\ b.yes.is[e] \in Tri
      BY <1>6, <1>8, <2>1, <2>2, <2>3 DEF Joins
    <3> QED BY <1>8, <2>1, <2>3, <3>1, Constants DEF Tri
  <2> QED BY <2>1, <2>2, <2>3 DEF RowOK
<1>12. ASSUME p # "negative" PROVE TrueSide(b, u, h, e)
  <2>1. TrueSide(f, v, gv, e) /\ TrueSide(g, w, gw, e)
    BY <1>4, <1>12
  <2>2. ASSUME Tr(b.yes)
        PROVE  /\ b.yes.is[e] = True => u[e] = True
               /\ u[e] = True /\ ~h[e] => b.yes.is[e] = True
    BY <1>5, <1>6, <2>1, <2>2 DEF TrueSide, Joins, Junctions
  <2>3. ASSUME Tr(b.no)
        PROVE  /\ b.no.is[e] = False /\ ~b.macro /\ b.present[e] => u[e] = True
               /\ u[e] = True /\ ~h[e] => b.no.is[e] = False
    <3>1. CASE b.macro \/ b.hopped
      BY <1>3, <1>5, <1>7, <2>1, <2>3, <3>1 DEF TrueSide, Joins, Junctions, Dual
    <3>2. CASE ~b.macro /\ ~b.hopped
      BY <1>8, <2>2, <2>3, <3>2
    <3> QED BY <3>1, <3>2
  <2> QED BY <2>2, <2>3 DEF TrueSide
<1>13. ASSUME p # "positive" PROVE FalseSide(b, u, h, e)
  <2>1. FalseSide(f, v, gv, e) /\ FalseSide(g, w, gw, e)
    BY <1>4, <1>13
  <2>2. ASSUME Tr(b.yes)
        PROVE  /\ b.yes.is[e] = False /\ ~b.macro /\ b.present[e] => u[e] = False
               /\ u[e] = False /\ ~h[e] => b.yes.is[e] = False
    BY <1>3, <1>5, <1>6, <2>1, <2>2 DEF FalseSide, Joins, Junctions
  <2>3. ASSUME Tr(b.no)
        PROVE  /\ b.no.is[e] = True => u[e] = False
               /\ u[e] = False /\ ~h[e] => b.no.is[e] = True
    <3>1. CASE b.macro \/ b.hopped
      BY <1>5, <1>7, <2>1, <2>3, <3>1 DEF FalseSide, Joins, Junctions, Dual
    <3>2. CASE ~b.macro /\ ~b.hopped
      <4>1. b.present[e]
        BY <1>10, <3>2 DEF HopsOK
      <4> QED BY <1>8, <2>2, <2>3, <3>2, <4>1
    <3> QED BY <3>1, <3>2
  <2> QED BY <2>2, <2>3 DEF FalseSide
<1> QED BY <1>9, <1>10, <1>11, <1>12, <1>13

\* All of a form but what it says.
ShapeOK(s, f, g) ==
  /\ f \in FormOn(EnvsOf(s))
  /\ \A e \in EnvsOf(s) : ConstantOK(f, e) /\ HopsOK(f, g, e) /\ (s # "root" => RowOK(f, g, e))

LEMMA OddIs ==
  ASSUME NEW E, NEW f \in FormOn(E), NEW odd \in SUBSET Disagreements
  PROVE  LET o == Odd(f, odd) IN
         /\ o \in FormOn(E)
         /\ o.const = f.const /\ o.macro = f.macro /\ o.hopped = f.hopped
         /\ o.present = f.present /\ o.nulls = f.nulls
         /\ o.yes = [f.yes EXCEPT !.odd = @ \union odd] /\ o.no = [f.no EXCEPT !.odd = @ \union odd]
<1>1. /\ [f.yes EXCEPT !.odd = @ \union odd] \in FilterOn(E)
      /\ [f.no EXCEPT !.odd = @ \union odd] \in FilterOn(E)
  <2>1. \A h \in FilterOn(E) : [h EXCEPT !.odd = @ \union odd] \in FilterOn(E)
    BY DEF FilterOn
  <2> QED BY <2>1, FormIs
<1> QED BY <1>1 DEF Odd, FormOn

LEMMA OddFilter ==
  ASSUME NEW E, NEW f \in FilterOn(E), NEW odd \in SUBSET Disagreements
  PROVE  LET o == [f EXCEPT !.odd = @ \union odd] IN
         /\ o.is = f.is /\ o.refused = f.refused /\ o.odd = f.odd \union odd
         /\ Tr(o) => Tr(f) /\ odd = {}
BY DEF FilterOn, Tr

LEMMA OddOK ==
  ASSUME NEW s, NEW p, NEW f, NEW v, NEW g, NEW odd \in SUBSET Disagreements, ShapeOK(s, f, g),
         odd = {} => FormOK(s, p, f, v, g)
  PROVE  FormOK(s, p, Odd(f, odd), v, g)
<1> DEFINE o == Odd(f, odd)
           E == EnvsOf(s)
<1>1. f \in FormOn(E) /\ f.yes \in FilterOn(E) /\ f.no \in FilterOn(E)
  BY FormIs DEF ShapeOK
<1>2. /\ o \in FormOn(E)
      /\ o.const = f.const /\ o.macro = f.macro /\ o.hopped = f.hopped
      /\ o.present = f.present /\ o.nulls = f.nulls
      /\ o.yes.is = f.yes.is /\ o.no.is = f.no.is
      /\ o.yes.refused = f.yes.refused /\ o.no.refused = f.no.refused
      /\ o.yes.odd = f.yes.odd \union odd /\ o.no.odd = f.no.odd \union odd
      /\ Tr(o.yes) => Tr(f.yes) /\ odd = {}
      /\ Tr(o.no) => Tr(f.no) /\ odd = {}
  <2>1. /\ o \in FormOn(E)
        /\ o.const = f.const /\ o.macro = f.macro /\ o.hopped = f.hopped
        /\ o.present = f.present /\ o.nulls = f.nulls
        /\ o.yes = [f.yes EXCEPT !.odd = @ \union odd] /\ o.no = [f.no EXCEPT !.odd = @ \union odd]
    BY <1>1, OddIs
  <2>2. \A h \in {f.yes, f.no} : LET k == [h EXCEPT !.odd = @ \union odd] IN
          /\ k.is = h.is /\ k.refused = h.refused /\ k.odd = h.odd \union odd
          /\ Tr(k) => Tr(h) /\ odd = {}
    BY <1>1, OddFilter
  <2> QED BY <2>1, <2>2
<1> HIDE DEF o, E
<1> SUFFICES ASSUME NEW e \in E
             PROVE  /\ ConstantOK(o, e) /\ HopsOK(o, g, e)
                    /\ s # "root" => RowOK(o, g, e)
                    /\ p # "negative" => TrueSide(o, v, g, e)
                    /\ p # "positive" => FalseSide(o, v, g, e)
  BY <1>2 DEF FormOK, E, o
<1>3. ConstantOK(f, e) /\ HopsOK(f, g, e) /\ (s # "root" => RowOK(f, g, e))
  BY DEF ShapeOK, E
<1>4. odd = {} => (p # "negative" => TrueSide(f, v, g, e)) /\ (p # "positive" => FalseSide(f, v, g, e))
  BY DEF FormOK, E
<1>5. ConstantOK(o, e) /\ HopsOK(o, g, e)
  BY <1>2, <1>3 DEF ConstantOK, HopsOK
<1>6. s # "root" => RowOK(o, g, e)
  BY <1>2, <1>3 DEF RowOK
<1>7. (p # "negative" => TrueSide(o, v, g, e)) /\ (p # "positive" => FalseSide(o, v, g, e))
  <2>1. CASE odd = {}
    BY <1>2, <1>4, <2>1 DEF TrueSide, FalseSide
  <2>2. CASE odd # {}
    BY <1>2, <2>2 DEF TrueSide, FalseSide
  <2> QED BY <2>1, <2>2
<1> QED BY <1>5, <1>6, <1>7

LEMMA ShapeOf ==
  ASSUME NEW s, NEW p, NEW f, NEW v, NEW g, NEW h, FormOK(s, p, f, v, g), \A e \in EnvsOf(s) : g[e] => h[e]
  PROVE  ShapeOK(s, f, h)
<1> SUFFICES ASSUME NEW e \in EnvsOf(s) PROVE HopsOK(f, h, e) /\ (s # "root" => RowOK(f, h, e))
  BY DEF ShapeOK, FormOK
<1>1. HopsOK(f, g, e) /\ (s # "root" => RowOK(f, g, e))
  BY DEF FormOK
<1> QED BY <1>1 DEF HopsOK, RowOK

\* What a constant says is so, where a trusted form says it.
LEMMA ConstantSays ==
  ASSUME NEW s, NEW p, NEW f, NEW v, NEW g, FormOK(s, p, f, v, g), f.const # Undefined,
         f.yes.odd = {}, NEW e \in EnvsOf(s)
  PROVE  /\ p # "negative" => /\ f.const = True => v[e] = True
                              /\ f.const = False => v[e] # True \/ g[e]
         /\ p # "positive" => /\ f.const = False => v[e] = False
                              /\ f.const = True => v[e] # False \/ g[e]
<1>1. f.const \in {True, False}
  BY FormIs DEF FormOK
<1>2. /\ Tr(f.yes) /\ Tr(f.no) /\ ~f.macro /\ f.present[e] /\ f.yes.is[e] = f.const
      /\ f.const = True => f.no.is[e] = False
      /\ f.const = False => f.no.is[e] = True
  BY <1>1, NotIs DEF FormOK, ConstantOK, Tr, Tri
<1>3. (p # "negative" => TrueSide(f, v, g, e)) /\ (p # "positive" => FalseSide(f, v, g, e))
  BY DEF FormOK
<1> QED BY <1>2, <1>3, Constants DEF TrueSide, FalseSide

\* Where the constant is right, so is the form.
LEMMA ConstantForm ==
  ASSUME NEW s, NEW p, NEW f, NEW v, NEW g, ShapeOK(s, f, g), f.const # Undefined,
         f.yes.odd = {} => \A e \in EnvsOf(s) :
           /\ p # "negative" => /\ f.const = True => v[e] = True
                                /\ f.const = False => v[e] # True \/ g[e]
           /\ p # "positive" => /\ f.const = False => v[e] = False
                                /\ f.const = True => v[e] # False \/ g[e]
  PROVE  FormOK(s, p, f, v, g)
<1> SUFFICES ASSUME NEW e \in EnvsOf(s)
             PROVE  (p # "negative" => TrueSide(f, v, g, e)) /\ (p # "positive" => FalseSide(f, v, g, e))
  BY DEF FormOK, ShapeOK
<1>1. f.const \in {True, False}
  BY FormIs DEF ShapeOK
<1>2. /\ f.yes.is[e] = f.const /\ f.yes.odd = f.no.odd
      /\ f.const = True => f.no.is[e] = False
      /\ f.const = False => f.no.is[e] = True
  BY <1>1, NotIs DEF ShapeOK, ConstantOK, Tri
<1>3. CASE f.yes.odd = {}
  BY <1>1, <1>2, <1>3, Constants DEF TrueSide, FalseSide
<1>4. CASE f.yes.odd # {}
  BY <1>2, <1>4 DEF TrueSide, FalseSide, Tr
<1> QED BY <1>3, <1>4

\* What joins holds of either order.
LEMMA JoinsCommute == \A op, z, x, y : Joins(op, z, x, y) => Joins(op, z, y, x)
BY DEF Joins

\* A constant that decides the junction.
LEMMA DominantForm ==
  ASSUME NEW op \in Junctions, NEW s, NEW p, NEW f, NEW v, NEW w, NEW gv, NEW gw, NEW u, NEW h,
         FormOK(s, p, f, v, gv), f.const = Bool(op = "or"),
         \A e \in EnvsOf(s) : Joins(op, u[e], v[e], w[e]) /\ (h[e] <=> gv[e] \/ gw[e])
  PROVE  FormOK(s, p, f, u, h)
<1>1. ShapeOK(s, f, h) /\ f.const # Undefined
  BY ShapeOf, Constants
<1>2. ASSUME f.yes.odd = {}, NEW e \in EnvsOf(s)
      PROVE  /\ p # "negative" => /\ f.const = True => u[e] = True
                                  /\ f.const = False => u[e] # True \/ h[e]
             /\ p # "positive" => /\ f.const = False => u[e] = False
                                  /\ f.const = True => u[e] # False \/ h[e]
  <2>1. /\ p # "negative" => /\ f.const = True => v[e] = True
                             /\ f.const = False => v[e] # True \/ gv[e]
        /\ p # "positive" => /\ f.const = False => v[e] = False
                             /\ f.const = True => v[e] # False \/ gv[e]
    BY <1>1, <1>2, ConstantSays
  <2>2. Joins(op, u[e], v[e], w[e]) /\ (h[e] <=> gv[e] \/ gw[e])
    BY <1>2
  <2>3. CASE op = "or"
    <3>1. f.const = True
      BY <2>3, Constants
    <3> QED BY <2>1, <2>2, <2>3, <3>1, Constants DEF Joins
  <2>4. CASE op = "and"
    <3>1. f.const = False
      BY <2>4, Constants
    <3> QED BY <2>1, <2>2, <2>4, <3>1, Constants DEF Joins
  <2> QED BY <2>3, <2>4 DEF Junctions
<1> QED BY <1>1, <1>2, ConstantForm

\* One that drops out of it.
LEMMA SharedForm ==
  ASSUME NEW op \in Junctions, NEW s, NEW p, NEW f, NEW g, NEW v, NEW w, NEW gv, NEW gw, NEW u, NEW h,
         FormOK(s, p, f, v, gv), FormOK(s, p, g, w, gw), f.const # Undefined, f.const # Bool(op = "or"),
         \A e \in EnvsOf(s) : Joins(op, u[e], v[e], w[e]) /\ (h[e] <=> gv[e] \/ gw[e])
  PROVE  FormOK(s, p, Sharing(g, f), u, h)
<1> DEFINE odd == f.yes.odd \union f.no.odd
<1>1. odd \in SUBSET Disagreements
  BY FormIs, FilterIs DEF FormOK
<1>2. ShapeOK(s, g, h)
  BY ShapeOf
<1>3. ASSUME odd = {} PROVE FormOK(s, p, g, u, h)
  <2> SUFFICES ASSUME NEW e \in EnvsOf(s)
               PROVE  /\ gw[e] => h[e]
                      /\ p # "negative" => (w[e] = True => u[e] = True) /\ (u[e] = True /\ ~h[e] => w[e] = True)
                      /\ p # "positive" => (w[e] = False => u[e] = False) /\ (u[e] = False /\ ~h[e] => w[e] = False)
    BY Refines
  <2>1. f.yes.odd = {}
    BY <1>3
  <2>2. /\ p # "negative" => /\ f.const = True => v[e] = True
                             /\ f.const = False => v[e] # True \/ gv[e]
        /\ p # "positive" => /\ f.const = False => v[e] = False
                             /\ f.const = True => v[e] # False \/ gv[e]
    BY <2>1, ConstantSays
  <2>3. Joins(op, u[e], v[e], w[e]) /\ (h[e] <=> gv[e] \/ gw[e])
    OBVIOUS
  <2>4. f.const \in {True, False}
    BY FormIs DEF FormOK
  <2>5. CASE op = "or"
    <3>1. f.const = False
      BY <2>4, <2>5, Constants
    <3> QED BY <2>2, <2>3, <2>5, <3>1, Constants DEF Joins, Tri
  <2>6. CASE op = "and"
    <3>1. f.const = True
      BY <2>4, <2>6, Constants
    <3> QED BY <2>2, <2>3, <2>6, <3>1, Constants DEF Joins, Tri
  <2> QED BY <2>5, <2>6 DEF Junctions
<1>4. FormOK(s, p, Odd(g, odd), u, h)
  BY <1>1, <1>2, <1>3, OddOK
<1> QED BY <1>4 DEF Sharing

\* JunctionForm
LEMMA JunctionFormOK ==
  ASSUME NEW op \in Junctions, NEW s, NEW p, NEW f, NEW g, NEW v, NEW w, NEW gv, NEW gw, NEW u, NEW h,
         FormOK(s, p, f, v, gv), FormOK(s, p, g, w, gw),
         \A e \in EnvsOf(s) : Joins(op, u[e], v[e], w[e]) /\ (h[e] <=> gv[e] \/ gw[e])
  PROVE  FormOK(s, p, JunctionForm(op, f, g), u, h)
<1>1. \A e \in EnvsOf(s) : Joins(op, u[e], w[e], v[e]) /\ (h[e] <=> gw[e] \/ gv[e])
  BY JoinsCommute
<1> DEFINE dominant == Bool(op = "or")
<1>2. CASE f.const = dominant
  <2>1. JunctionForm(op, f, g) = f
    BY <1>2 DEF JunctionForm
  <2> QED BY <1>2, <2>1, DominantForm
<1>3. CASE f.const # dominant /\ g.const = dominant
  <2>1. JunctionForm(op, f, g) = g
    BY <1>3 DEF JunctionForm
  <2> QED BY <1>1, <1>3, <2>1, DominantForm
<1>4. CASE f.const # dominant /\ g.const # dominant /\ f.const # Undefined
  <2>1. JunctionForm(op, f, g) = Sharing(g, f)
    BY <1>4 DEF JunctionForm
  <2> QED BY <1>4, <2>1, SharedForm
<1>5. CASE f.const # dominant /\ g.const # dominant /\ f.const = Undefined /\ g.const # Undefined
  <2>1. JunctionForm(op, f, g) = Sharing(f, g)
    BY <1>5 DEF JunctionForm
  <2> QED BY <1>1, <1>5, <2>1, SharedForm
<1>6. CASE f.const = Undefined /\ g.const = Undefined /\ f.const # dominant
  <2>1. JunctionForm(op, f, g) = BuildJunction(op, f, g)
    BY <1>6 DEF JunctionForm
  <2> QED BY <2>1, BuiltJunction
<1> QED BY <1>2, <1>3, <1>4, <1>5, <1>6

-----------------------------------------------------------------------------
(* Constants, and forms built of what a filter says of each environment *)

LEMMA ConstantIs ==
  ASSUME NEW E, NEW b \in {True, False}, NEW odd \in SUBSET Disagreements
  PROVE  LET f == Constant(E, b, odd) IN
         /\ f \in FormOn(E) /\ f.const = b /\ ~f.macro /\ ~f.hopped
         /\ ~f.yes.refused /\ ~f.no.refused /\ f.yes.odd = odd /\ f.no.odd = odd
         /\ \A e \in E : f.present[e] /\ ~f.nulls[e] /\ f.yes.is[e] = b /\ f.no.is[e] = Not(b)
<1>1. PICK is : is = [e \in E |-> b]
  OBVIOUS
<1>2. PICK isnt : isnt = [e \in E |-> Not(b)]
  OBVIOUS
<1>3. is \in [E -> Tri] /\ isnt \in [E -> Tri]
  BY <1>1, <1>2, NotIs DEF Tri
<1>4. PICK yes \in FilterOn(E) : yes = Filter(is, odd)
  BY <1>3, FilterOf
<1>5. yes.is = is /\ yes.odd = odd /\ ~yes.refused
  BY <1>3, <1>4, FilterOf
<1>6. PICK no \in FilterOn(E) : no = Filter(isnt, odd)
  BY <1>3, FilterOf
<1>7. no.is = isnt /\ no.odd = odd /\ ~no.refused
  BY <1>3, <1>6, FilterOf
<1>8. Negate(yes) = no
  BY <1>1, <1>2, <1>5, <1>6 DEF Negate, Unless
<1>9. PICK present \in [E -> BOOLEAN] : present = [e \in E |-> TRUE]
  OBVIOUS
<1>10. PICK nulls \in [E -> BOOLEAN] : nulls = [e \in E |-> FALSE]
  OBVIOUS
<1>11. Constant(E, b, odd) =
         [const |-> b, macro |-> FALSE, hopped |-> FALSE, present |-> present, nulls |-> nulls,
          yes |-> yes, no |-> no]
  <2>1. PICK form : form = Form(b, present, nulls, yes)
    OBVIOUS
  <2>2. form = [const |-> b, macro |-> FALSE, hopped |-> FALSE, present |-> present, nulls |-> nulls,
                yes |-> yes, no |-> yes]
    BY <2>1 DEF Form
  <2>3. Constant(E, b, odd) = [form EXCEPT !.no = Negate(@)]
    BY <1>1, <1>4, <1>9, <1>10, <2>1 DEF Constant
  <2>4. Constant(E, b, odd) = [form EXCEPT !.no = no]
    BY <1>8, <2>2, <2>3
  <2> QED BY <2>2, <2>4
<1>12. LET f == Constant(E, b, odd) IN
         /\ f \in FormOn(E) /\ f.const = b /\ ~f.macro /\ ~f.hopped
         /\ f.present = present /\ f.nulls = nulls /\ f.yes = yes /\ f.no = no
  BY <1>11 DEF FormOn
<1> QED BY <1>1, <1>2, <1>5, <1>7, <1>9, <1>10, <1>12

LEMMA ConstantShape ==
  ASSUME NEW s, NEW b \in {True, False}, NEW odd \in SUBSET Disagreements, NEW g
  PROVE  LET f == Constant(EnvsOf(s), b, odd) IN
         ShapeOK(s, f, g) /\ f.const = b /\ f.const # Undefined /\ f.yes.odd = odd
<1>1. PICK E : E = EnvsOf(s)
  OBVIOUS
<1>2. PICK f : f = Constant(E, b, odd)
  OBVIOUS
<1>3. /\ f \in FormOn(E) /\ f.const = b /\ ~f.macro /\ ~f.hopped
      /\ ~f.yes.refused /\ ~f.no.refused /\ f.yes.odd = odd /\ f.no.odd = odd
      /\ \A e \in E : f.present[e] /\ ~f.nulls[e] /\ f.yes.is[e] = b /\ f.no.is[e] = Not(b)
  BY <1>2, ConstantIs
<1>4. Not(b) # Err /\ b # Err /\ b # Undefined
  BY Constants, NotIs DEF Tri
<1>5. ASSUME NEW e \in E PROVE ConstantOK(f, e) /\ HopsOK(f, g, e) /\ (s # "root" => RowOK(f, g, e))
  BY <1>4, <1>3 DEF ConstantOK, HopsOK, RowOK
<1>6. ShapeOK(s, f, g)
  BY <1>1, <1>5, <1>3 DEF ShapeOK
<1> QED BY <1>1, <1>2, <1>4, <1>6, <1>3

\* y is worth v, where a row may be lost under g and lies behind no absent hop.
CellOK(y, v, g, reached) ==
  /\ y \in Tri
  /\ y = True => v = True
  /\ v = True /\ ~g => y = True
  /\ y = False /\ reached => v = False
  /\ v = False /\ ~g => y = False

LEMMA RequiringHopsIs ==
  ASSUME NEW E, NEW f \in FormOn(E), NEW h \in FilterOn(E)
  PROVE  LET r == RequiringHops(f, h) IN
         /\ r \in FilterOn(E)
         /\ Tr(r) => Tr(h)
         /\ Tr(r) => \A e \in E : /\ r.is[e] \in Tri /\ h.is[e] \in Tri
                                  /\ r.is[e] = True <=> (f.hopped => f.present[e]) /\ h.is[e] = True
                                  /\ r.is[e] = False <=> (f.hopped /\ ~f.present[e]) \/ h.is[e] = False
<1>1. CASE ~f.hopped
  <2>1. RequiringHops(f, h) = h
    BY <1>1 DEF RequiringHops
  <2>2. Tr(h) => \A e \in E : h.is[e] \in Tri
    BY FilterIs DEF Tr
  <2> QED BY <1>1, <2>1, <2>2
<1>2. CASE f.hopped
  <2>1. f.present \in [E -> BOOLEAN]
    BY FormIs
  <2> DEFINE is == [e \in E |-> Bool(f.present[e])]
  <2>2. \A e \in E : Bool(f.present[e]) \in Tri /\ (Bool(f.present[e]) = True <=> f.present[e])
                     /\ (Bool(f.present[e]) = False <=> ~f.present[e])
    BY BoolIs
  <2>3. is \in [E -> Tri] /\ \A e \in E : (is[e] = True <=> f.present[e]) /\ (is[e] = False <=> ~f.present[e])
    BY <2>2
  <2>4. [e \in DOMAIN f.present |-> Bool(f.present[e])] = is
    BY <2>1
  <2> HIDE DEF is
  <2>5. PICK hops \in FilterOn(E) : hops = Filter(is, {}) /\ hops.is = is
    BY <2>3, FilterOf
  <2>6. RequiringHops(f, h) = Join("and", hops, h)
    BY <1>2, <2>4, <2>5 DEF RequiringHops
  <2>7. "and" \in Junctions
    BY DEF Junctions
  <2>8. Join("and", hops, h) \in FilterOn(E) /\ (Tr(Join("and", hops, h)) => Tr(h))
    BY <2>7, JoinIs
  <2>9. Tr(Join("and", hops, h)) => \A e \in E : Joins("and", Join("and", hops, h).is[e], is[e], h.is[e])
    BY <2>5, <2>7, JoinJoins
  <2> QED BY <1>2, <2>3, <2>6, <2>8, <2>9 DEF Joins
<1> QED BY <1>1, <1>2

\* A filter whose negation is its complement, wherever the hops lead.
NegationOf(n, f, E) ==
  /\ n \in FilterOn(E)
  /\ Tr(n) => /\ Tr(f.yes) /\ ~f.macro
              /\ \A e \in E : /\ n.is[e] \in Tri
                              /\ n.is[e] = True <=> (f.hopped => f.present[e]) /\ f.yes.is[e] = False
                              /\ n.is[e] = False <=> (f.hopped /\ ~f.present[e]) \/ f.yes.is[e] = True

LEMMA FormOfCells ==
  ASSUME NEW s, NEW p, NEW f \in FormOn(EnvsOf(s)), NEW n, NEW v, NEW g,
         f.const = Undefined, NegationOf(n, f, EnvsOf(s)),
         \A e \in EnvsOf(s) :
           /\ HopsOK(f, g, e)
           /\ Tr(f.yes) => CellOK(f.yes.is[e], v[e], g[e], ~f.macro /\ f.present[e])
           /\ s # "root" => /\ ~f.macro /\ ~f.hopped /\ (f.nulls[e] => g[e])
                            /\ Tr(f.yes) /\ f.yes.is[e] = Err => f.nulls[e]
  PROVE  FormOK(s, p, [f EXCEPT !.no = n], v, g)
<1> DEFINE E == EnvsOf(s)
           r == [f EXCEPT !.no = n]
<1>1. n \in FilterOn(E)
  BY DEF NegationOf
<1>2. /\ r \in FormOn(E) /\ r.const = Undefined /\ r.macro = f.macro /\ r.hopped = f.hopped
      /\ r.present = f.present /\ r.nulls = f.nulls /\ r.yes = f.yes /\ r.no = n
  BY <1>1 DEF FormOn
<1> HIDE DEF r, E
<1> SUFFICES ASSUME NEW e \in E
             PROVE  /\ ConstantOK(r, e) /\ HopsOK(r, g, e)
                    /\ s # "root" => RowOK(r, g, e)
                    /\ TrueSide(r, v, g, e)
                    /\ FalseSide(r, v, g, e)
  BY <1>2 DEF FormOK, E, r
<1>3. /\ HopsOK(f, g, e)
      /\ Tr(f.yes) => CellOK(f.yes.is[e], v[e], g[e], ~f.macro /\ f.present[e])
      /\ s # "root" => /\ ~f.macro /\ ~f.hopped /\ (f.nulls[e] => g[e])
                       /\ Tr(f.yes) /\ f.yes.is[e] = Err => f.nulls[e]
  BY DEF E
<1>4. Tr(n) => /\ Tr(f.yes) /\ ~f.macro
               /\ n.is[e] \in Tri
               /\ n.is[e] = True <=> (f.hopped => f.present[e]) /\ f.yes.is[e] = False
               /\ n.is[e] = False <=> (f.hopped /\ ~f.present[e]) \/ f.yes.is[e] = True
  BY DEF NegationOf, E
<1>5. ConstantOK(r, e) /\ HopsOK(r, g, e)
  BY <1>2, <1>3 DEF ConstantOK, HopsOK
<1>6. ASSUME s # "root" PROVE RowOK(r, g, e)
  <2>1. Tr(f.yes) /\ ~f.nulls[e] => f.yes.is[e] # Err /\ f.yes.is[e] \in Tri
    BY <1>3, <1>6 DEF CellOK
  <2>2. Tr(n) /\ ~f.nulls[e] => n.is[e] # Err
    BY <1>3, <1>4, <1>6, <2>1, Constants DEF Tri
  <2> QED BY <1>2, <1>3, <1>6, <2>1, <2>2 DEF RowOK
<1>7. TrueSide(r, v, g, e)
  BY <1>2, <1>3, <1>4 DEF TrueSide, CellOK, HopsOK
<1>8. FalseSide(r, v, g, e)
  BY <1>2, <1>3, <1>4 DEF FalseSide, CellOK, HopsOK
<1> QED BY <1>5, <1>6, <1>7, <1>8

LEMMA NegateRequiringHopsIs ==
  ASSUME NEW E, NEW f \in FormOn(E)
  PROVE  LET n == RequiringHops(f, Negate(f.yes)) IN
         /\ NegateRequiringHops(f) = [f EXCEPT !.no = n]
         /\ n \in FilterOn(E)
         /\ ~f.macro => NegationOf(n, f, E)
<1>1. NegateRequiringHops(f) = [f EXCEPT !.no = RequiringHops(f, Negate(f.yes))]
  BY DEF NegateRequiringHops
<1>2. PICK h : h = Negate(f.yes)
  OBVIOUS
<1>3. f.yes \in FilterOn(E)
  BY FormIs
<1>4. /\ h \in FilterOn(E) /\ (Tr(h) <=> Tr(f.yes))
      /\ Tr(h) => \A e \in E : /\ h.is[e] = True <=> f.yes.is[e] = False
                               /\ h.is[e] = False <=> f.yes.is[e] = True
  BY <1>2, <1>3, NegateIs
<1>5. RequiringHops(f, h) \in FilterOn(E) /\ (~f.macro => NegationOf(RequiringHops(f, h), f, E))
  BY <1>4, RequiringHopsIs DEF NegationOf
<1> QED BY <1>1, <1>2, <1>5

-----------------------------------------------------------------------------
(* Conditionals *)

LEMMA IfThenElseIs ==
  ASSUME NEW c \in Tri, NEW a \in Tri, NEW b \in Tri
  PROVE  LET u == IfThenElse(c, a, b) IN
         /\ u \in Tri
         /\ u = True <=> (c = True /\ a = True) \/ (c = False /\ b = True)
         /\ u = False <=> (c = True /\ a = False) \/ (c = False /\ b = False)
<1>1. CASE c = Err
  BY <1>1, Outcome, Constants DEF IfThenElse, Tri
<1>2. CASE c = True
  BY <1>2, Outcome, Constants DEF IfThenElse, Tri
<1>3. CASE c = False
  BY <1>3, Outcome, Constants DEF IfThenElse, Tri
<1> QED BY <1>1, <1>2, <1>3 DEF Tri

\* What a guarded conditional says of what its filters say.
Guards(t, cy, cn, x, y) ==
  /\ t \in Tri /\ cy \in Tri /\ cn \in Tri /\ x \in Tri /\ y \in Tri
  /\ t = True <=> \/ cy = True /\ x = True
                  \/ cn = True /\ y = True
                  \/ cy = True /\ cn = True
  /\ t = False <=> /\ cy = False \/ x = False
                   /\ cn = False \/ y = False
                   /\ cy = False \/ cn = False

LEMMA GuardedTernaryIs ==
  ASSUME NEW E, NEW c \in FormOn(E), NEW x \in FilterOn(E), NEW y \in FilterOn(E)
  PROVE  LET t == GuardedTernary(c, x, y) IN
         /\ t \in FilterOn(E)
         /\ Tr(t) => /\ Tr(c.yes) /\ Tr(c.no) /\ Tr(x) /\ Tr(y)
                     /\ \A e \in E : Guards(t.is[e], c.yes.is[e], c.no.is[e], x.is[e], y.is[e])
<1>1. c.yes \in FilterOn(E) /\ c.no \in FilterOn(E) /\ "and" \in Junctions /\ "or" \in Junctions
  BY FormIs DEF Junctions
<1>2. PICK l \in FilterOn(E) : l = Join("and", c.yes, x)
  BY <1>1, JoinIs
<1>3. PICK m \in FilterOn(E) : m = Join("and", c.no, y)
  BY <1>1, JoinIs
<1>4. PICK n \in FilterOn(E) : n = Join("and", c.yes, c.no)
  BY <1>1, JoinIs
<1>5. PICK k \in FilterOn(E) : k = Join("or", m, n)
  BY <1>1, JoinIs
<1>6. PICK t \in FilterOn(E) : t = Join("or", l, k)
  BY <1>1, JoinIs
<1>7. GuardedTernary(c, x, y) = t
  BY <1>2, <1>3, <1>4, <1>5, <1>6 DEF GuardedTernary
<1>8. ASSUME Tr(t), NEW e \in E
      PROVE  /\ Tr(c.yes) /\ Tr(c.no) /\ Tr(x) /\ Tr(y)
             /\ Guards(t.is[e], c.yes.is[e], c.no.is[e], x.is[e], y.is[e])
  <2>1. Tr(l) /\ Tr(k) /\ Joins("or", t.is[e], l.is[e], k.is[e])
    BY <1>1, <1>6, <1>8, JoinJoins
  <2>2. Tr(m) /\ Tr(n) /\ Joins("or", k.is[e], m.is[e], n.is[e])
    BY <1>1, <1>5, <1>8, <2>1, JoinJoins
  <2>3. Tr(c.yes) /\ Tr(x) /\ Joins("and", l.is[e], c.yes.is[e], x.is[e])
    BY <1>1, <1>2, <1>8, <2>1, JoinJoins
  <2>4. Tr(c.no) /\ Tr(y) /\ Joins("and", m.is[e], c.no.is[e], y.is[e])
    BY <1>1, <1>3, <1>8, <2>2, JoinJoins
  <2>5. Joins("and", n.is[e], c.yes.is[e], c.no.is[e])
    BY <1>1, <1>4, <1>8, <2>2, JoinJoins
  <2> QED BY <2>1, <2>2, <2>3, <2>4, <2>5 DEF Joins, Guards
<1>9. Tr(t) => Tr(c.yes) /\ Tr(c.no) /\ Tr(x) /\ Tr(y)
  <2>1. Tr(t) => Tr(l) /\ Tr(k)
    BY <1>1, <1>6, JoinIs
  <2>2. Tr(k) => Tr(m) /\ Tr(n)
    BY <1>1, <1>5, JoinIs
  <2>3. Tr(l) => Tr(c.yes) /\ Tr(x)
    BY <1>1, <1>2, JoinIs
  <2>4. Tr(m) => Tr(c.no) /\ Tr(y)
    BY <1>1, <1>3, JoinIs
  <2> QED BY <2>1, <2>2, <2>3, <2>4
<1> QED BY <1>7, <1>8, <1>9

LEMMA CombinedTriple ==
  ASSUME NEW E, NEW c \in FormOn(E), NEW a \in FormOn(E), NEW b \in FormOn(E), NEW y \in FilterOn(E),
         NEW fs, \A x : x \in fs <=> x = c \/ x = a \/ x = b
  PROVE  LET f == Combined(fs, y) IN
         /\ f \in FormOn(E) /\ f.const = Undefined /\ f.yes = y
         /\ f.macro <=> c.macro \/ a.macro \/ b.macro
         /\ f.hopped <=> c.hopped \/ a.hopped \/ b.hopped
         /\ \A e \in E : /\ f.present[e] <=> c.present[e] /\ a.present[e] /\ b.present[e]
                         /\ f.nulls[e] <=> c.nulls[e] \/ a.nulls[e] \/ b.nulls[e]
<1>1. fs \subseteq FormOn(E) /\ fs # {}
  OBVIOUS
<1>2. LET f == Combined(fs, y) IN
         /\ f \in FormOn(E) /\ f.const = Undefined /\ f.yes = y
         /\ f.macro <=> \E h \in fs : h.macro
         /\ f.hopped <=> \E h \in fs : h.hopped
         /\ \A e \in E : (f.present[e] <=> \A h \in fs : h.present[e]) /\ (f.nulls[e] <=> \E h \in fs : h.nulls[e])
  BY <1>1, CombinedIs
<1> QED BY <1>2

\* What an environment knows of an operand that was not settled.
Unfixed(f, v, g, e) == HopsOK(f, g, e) /\ TrueSide(f, v, g, e) /\ FalseSide(f, v, g, e)

LEMMA UnfixedIs ==
  ASSUME NEW s, NEW f, NEW v, NEW g, FormOK(s, "unfixed", f, v, g), NEW e \in EnvsOf(s)
  PROVE  Unfixed(f, v, g, e) /\ (s # "root" => RowOK(f, g, e))
BY DEF FormOK, Unfixed

\* The verdicts of a conditional.
Chooses(u, c, a, b) ==
  /\ u \in Tri
  /\ u = True <=> (c = True /\ a = True) \/ (c = False /\ b = True)
  /\ u = False <=> (c = True /\ a = False) \/ (c = False /\ b = False)

\* TernaryForm
LEMMA TernaryFormOK ==
  ASSUME NEW s, NEW p, NEW c, NEW a, NEW b, NEW vc, NEW va, NEW vb, NEW gc, NEW ga, NEW gb, NEW u, NEW h,
         FormOK(s, "unfixed", c, vc, gc), FormOK(s, "unfixed", a, va, ga), FormOK(s, "unfixed", b, vb, gb),
         \A e \in EnvsOf(s) : Chooses(u[e], vc[e], va[e], vb[e]) /\ (h[e] <=> gc[e] \/ ga[e] \/ gb[e])
  PROVE  FormOK(s, p, TernaryForm(c, a, b), u, h) /\ TernaryForm(c, a, b).const = Undefined
<1>1. PICK E : E = EnvsOf(s)
  OBVIOUS
<1>2. c \in FormOn(E) /\ a \in FormOn(E) /\ b \in FormOn(E)
  BY <1>1 DEF FormOK
<1>3. a.yes \in FilterOn(E) /\ b.yes \in FilterOn(E)
  BY <1>2, FormIs
<1>4. PICK t \in FilterOn(E) : t = GuardedTernary(c, a.yes, b.yes)
  BY <1>2, <1>3, GuardedTernaryIs
<1>5. Tr(t) => /\ Tr(c.yes) /\ Tr(c.no) /\ Tr(a.yes) /\ Tr(b.yes)
               /\ \A e \in E : Guards(t.is[e], c.yes.is[e], c.no.is[e], a.yes.is[e], b.yes.is[e])
  BY <1>2, <1>3, <1>4, GuardedTernaryIs
<1>6. PICK fs : fs = {c, a, b}
  OBVIOUS
<1>7. \A x : x \in fs <=> x = c \/ x = a \/ x = b
  BY <1>6
<1>8. PICK f : f = Combined(fs, t)
  OBVIOUS
<1>9. /\ f \in FormOn(E) /\ f.const = Undefined /\ f.yes = t
      /\ f.macro <=> c.macro \/ a.macro \/ b.macro
      /\ f.hopped <=> c.hopped \/ a.hopped \/ b.hopped
      /\ \A e \in E : /\ f.present[e] <=> c.present[e] /\ a.present[e] /\ b.present[e]
                      /\ f.nulls[e] <=> c.nulls[e] \/ a.nulls[e] \/ b.nulls[e]
  BY <1>7, <1>2, <1>8, CombinedTriple
<1>10. PICK n \in FilterOn(E) : n = RequiringHops(f, Negate(f.yes))
  BY <1>9, NegateRequiringHopsIs
<1>11. NegateRequiringHops(f) = [f EXCEPT !.no = n] /\ (~f.macro => NegationOf(n, f, E))
  BY <1>9, <1>10, NegateRequiringHopsIs
<1>12. PICK odd : odd = {s_1 \in {"ternaryMacro"} : f.macro}
  OBVIOUS
<1>13. odd \in SUBSET Disagreements /\ (odd = {} <=> ~f.macro)
  BY <1>12 DEF Disagreements
<1>14. PICK k \in FilterOn(E) : k = [n EXCEPT !.odd = @ \union odd]
  BY <1>13 DEF FilterOn
<1>15. k.is = n.is /\ (Tr(k) => Tr(n) /\ odd = {})
  BY <1>13, <1>14, OddFilter
<1>16. NegationOf(k, f, E)
  BY <1>11, <1>13, <1>14, <1>15 DEF NegationOf
<1>17. TernaryForm(c, a, b) = [f EXCEPT !.no = k]
  <2>1. PICK r : r = [f EXCEPT !.no = n]
    OBVIOUS
  <2>2. r.no = n /\ [r EXCEPT !.no = k] = [f EXCEPT !.no = k]
    BY <1>9, <2>1 DEF FormOn
  <2>3. TernaryForm(c, a, b) = [r EXCEPT !.no.odd = @ \union odd]
    BY <1>6, <1>4, <1>8, <1>11, <1>12, <2>1 DEF TernaryForm
  <2>4. [r EXCEPT !.no.odd = @ \union odd] = [r EXCEPT !.no = [r.no EXCEPT !.odd = @ \union odd]]
    OBVIOUS
  <2> QED BY <1>14, <2>2, <2>3, <2>4
<1>18. ASSUME NEW e \in E
       PROVE  /\ HopsOK(f, h, e)
              /\ Tr(f.yes) => CellOK(f.yes.is[e], u[e], h[e], ~f.macro /\ f.present[e])
              /\ s # "root" => /\ ~f.macro /\ ~f.hopped /\ (f.nulls[e] => h[e])
                               /\ Tr(f.yes) /\ f.yes.is[e] = Err => f.nulls[e]
  <2>1. /\ Unfixed(c, vc, gc, e) /\ Unfixed(a, va, ga, e) /\ Unfixed(b, vb, gb, e)
        /\ s # "root" => RowOK(c, gc, e) /\ RowOK(a, ga, e) /\ RowOK(b, gb, e)
    BY <1>1, UnfixedIs
  <2>2. Chooses(u[e], vc[e], va[e], vb[e]) /\ (h[e] <=> gc[e] \/ ga[e] \/ gb[e])
    BY <1>1
  <2>3. HopsOK(f, h, e)
    BY <1>9, <2>1, <2>2 DEF HopsOK, Unfixed
  <2>4. ASSUME Tr(t)
        PROVE  Tr(c.yes) /\ Tr(c.no) /\ Tr(a.yes) /\ Tr(b.yes)
               /\ Guards(t.is[e], c.yes.is[e], c.no.is[e], a.yes.is[e], b.yes.is[e])
    BY <1>5, <2>4
  <2>5. ASSUME Tr(t)
        PROVE  /\ t.is[e] = True => u[e] = True
               /\ u[e] = True /\ ~gc[e] /\ ~ga[e] /\ ~gb[e] => t.is[e] = True
               /\ t.is[e] = False /\ ~c.macro /\ ~a.macro /\ ~b.macro /\ c.present[e] /\ a.present[e] /\ b.present[e]
                    => u[e] = False
               /\ u[e] = False /\ ~gc[e] /\ ~ga[e] /\ ~gb[e] => t.is[e] = False
    BY <2>1, <2>2, <2>4, <2>5, Constants DEF Unfixed, Guards, TrueSide, FalseSide, Chooses
  <2>6. Tr(f.yes) => CellOK(f.yes.is[e], u[e], h[e], ~f.macro /\ f.present[e])
    BY <1>9, <2>2, <2>4, <2>5 DEF CellOK, Guards
  <2>7. ASSUME s # "root"
        PROVE  /\ ~f.macro /\ ~f.hopped /\ (f.nulls[e] => h[e])
               /\ Tr(f.yes) /\ f.yes.is[e] = Err => f.nulls[e]
    <3>1. ~f.macro /\ ~f.hopped /\ (f.nulls[e] => h[e])
      BY <1>9, <2>1, <2>2, <2>7 DEF RowOK
    <3>2. ASSUME Tr(t), ~f.nulls[e] PROVE t.is[e] # Err
      <4>1. /\ c.yes.is[e] \in {True, False} /\ c.no.is[e] \in {True, False}
            /\ a.yes.is[e] \in {True, False} /\ b.yes.is[e] \in {True, False}
        BY <1>9, <2>1, <2>4, <2>7, <3>2 DEF RowOK, Guards, Tri
      <4> QED BY <2>4, <3>2, <4>1, Constants DEF Guards
    <3> QED BY <1>9, <3>1, <3>2
  <2> QED BY <2>3, <2>6, <2>7
<1>19. FormOK(s, p, [f EXCEPT !.no = k], u, h)
  BY <1>1, <1>9, <1>16, <1>18, FormOfCells
<1>20. [f EXCEPT !.no = k].const = Undefined
  BY <1>9 DEF FormOn
<1> QED BY <1>17, <1>19, <1>20

\* ComparedTernaryForm, at the root
LEMMA ComparedTernaryFormOK ==
  ASSUME NEW p, NEW c, NEW a, NEW b, NEW vc, NEW va, NEW vb, NEW gc, NEW ga, NEW gb, NEW u, NEW h,
         FormOK("root", "unfixed", c, vc, gc), FormOK("root", "unfixed", a, va, ga),
         FormOK("root", "unfixed", b, vb, gb),
         \A e \in {Root} : Chooses(u[e], vc[e], va[e], vb[e]) /\ (h[e] <=> gc[e] \/ ga[e] \/ gb[e])
  PROVE  FormOK("root", p, ComparedTernaryForm(c, a, b), u, h) /\ ComparedTernaryForm(c, a, b).const = Undefined
<1>1. PICK E : E = {Root} /\ E = EnvsOf("root")
  BY DEF EnvsOf
<1>2. c \in FormOn(E) /\ a \in FormOn(E) /\ b \in FormOn(E)
  BY <1>1 DEF FormOK
<1>3. a.yes \in FilterOn(E) /\ b.yes \in FilterOn(E) /\ a.no \in FilterOn(E) /\ b.no \in FilterOn(E)
  BY <1>2, FormIs
<1>4. PICK t \in FilterOn(E) : t = GuardedTernary(c, a.yes, b.yes)
  BY <1>2, <1>3, GuardedTernaryIs
<1>5. PICK n \in FilterOn(E) : n = GuardedTernary(c, a.no, b.no)
  BY <1>2, <1>3, GuardedTernaryIs
<1>6. Tr(t) => /\ Tr(c.yes) /\ Tr(c.no) /\ Tr(a.yes) /\ Tr(b.yes)
               /\ \A e \in E : Guards(t.is[e], c.yes.is[e], c.no.is[e], a.yes.is[e], b.yes.is[e])
  BY <1>2, <1>3, <1>4, GuardedTernaryIs
<1>7. Tr(n) => /\ Tr(c.yes) /\ Tr(c.no) /\ Tr(a.no) /\ Tr(b.no)
               /\ \A e \in E : Guards(n.is[e], c.yes.is[e], c.no.is[e], a.no.is[e], b.no.is[e])
  BY <1>2, <1>3, <1>5, GuardedTernaryIs
<1>8. PICK fs : fs = {c, a, b}
  OBVIOUS
<1>9. \A x : x \in fs <=> x = c \/ x = a \/ x = b
  BY <1>8
<1>10. PICK d : d = Combined(fs, t)
  OBVIOUS
<1>11. /\ d \in FormOn(E) /\ d.const = Undefined /\ d.yes = t
       /\ d.macro <=> c.macro \/ a.macro \/ b.macro
       /\ d.hopped <=> c.hopped \/ a.hopped \/ b.hopped
       /\ \A e \in E : d.present[e] <=> c.present[e] /\ a.present[e] /\ b.present[e]
  BY <1>9, <1>2, <1>10, CombinedTriple
<1>12. PICK f : f = [d EXCEPT !.no = n]
  OBVIOUS
<1>13. /\ f \in FormOn(E) /\ f.const = Undefined /\ f.yes = t /\ f.no = n /\ f.macro = d.macro
       /\ f.hopped = d.hopped /\ f.present = d.present
  BY <1>11, <1>12 DEF FormOn
<1>14. ComparedTernaryForm(c, a, b) = f
  BY <1>8, <1>4, <1>5, <1>10, <1>12 DEF ComparedTernaryForm
<1>15. ASSUME NEW e \in E
       PROVE  ConstantOK(f, e) /\ HopsOK(f, h, e) /\ TrueSide(f, u, h, e) /\ FalseSide(f, u, h, e)
  <2>1. Unfixed(c, vc, gc, e) /\ Unfixed(a, va, ga, e) /\ Unfixed(b, vb, gb, e)
    BY <1>1, UnfixedIs
  <2>2. Chooses(u[e], vc[e], va[e], vb[e]) /\ (h[e] <=> gc[e] \/ ga[e] \/ gb[e])
    BY <1>1
  <2>3. ASSUME Tr(t)
        PROVE  /\ t.is[e] = True => u[e] = True
               /\ u[e] = True /\ ~gc[e] /\ ~ga[e] /\ ~gb[e] => t.is[e] = True
               /\ t.is[e] = False /\ ~c.macro /\ ~a.macro /\ ~b.macro /\ c.present[e] /\ a.present[e] /\ b.present[e]
                    => u[e] = False
               /\ u[e] = False /\ ~gc[e] /\ ~ga[e] /\ ~gb[e] => t.is[e] = False
    <3>1. Guards(t.is[e], c.yes.is[e], c.no.is[e], a.yes.is[e], b.yes.is[e]) /\ Tr(c.yes) /\ Tr(c.no) /\ Tr(a.yes) /\ Tr(b.yes)
      BY <1>6, <2>3
    <3> QED BY <2>1, <2>2, <3>1, Constants DEF Unfixed, Guards, TrueSide, FalseSide, Chooses
  <2>4. ASSUME Tr(n)
        PROVE  /\ n.is[e] = True => u[e] = False
               /\ u[e] = False /\ ~gc[e] /\ ~ga[e] /\ ~gb[e] => n.is[e] = True
               /\ n.is[e] = False /\ ~c.macro /\ ~a.macro /\ ~b.macro /\ c.present[e] /\ a.present[e] /\ b.present[e]
                    => u[e] = True
               /\ u[e] = True /\ ~gc[e] /\ ~ga[e] /\ ~gb[e] => n.is[e] = False
    <3>1. Guards(n.is[e], c.yes.is[e], c.no.is[e], a.no.is[e], b.no.is[e]) /\ Tr(c.yes) /\ Tr(c.no) /\ Tr(a.no) /\ Tr(b.no)
      BY <1>7, <2>4
    <3> QED BY <2>1, <2>2, <3>1, Constants DEF Unfixed, Guards, TrueSide, FalseSide, Chooses
  <2>5. ConstantOK(f, e) /\ HopsOK(f, h, e)
    BY <1>11, <1>13, <2>1, <2>2 DEF ConstantOK, HopsOK, Unfixed
  <2>6. TrueSide(f, u, h, e)
    BY <1>11, <1>13, <2>2, <2>3, <2>4 DEF TrueSide
  <2>7. FalseSide(f, u, h, e)
    BY <1>11, <1>13, <2>2, <2>3, <2>4 DEF FalseSide
  <2> QED BY <2>5, <2>6, <2>7
<1>16. FormOK("root", p, f, u, h)
  BY <1>1, <1>13, <1>15 DEF FormOK
<1> QED BY <1>13, <1>14, <1>16

-----------------------------------------------------------------------------
(* Macros *)

LEMMA CollectionIs ==
  ASSUME NEW coll \in Collection
  PROVE  /\ coll.far \in BOOLEAN /\ coll.reached \in BOOLEAN /\ coll.rows \subseteq Rows
         /\ ~coll.far => coll.reached
         /\ ~coll.reached => coll.rows = {}
BY DEF Collection

\* Neither of two conditions.
LEMMA NeitherIs ==
  ASSUME NEW x \in {True, False}, NEW y \in {True, False}
  PROVE  LET z == And({Not(x), Not(y)}) IN
         z \in Tri /\ (z = True <=> x = False /\ y = False) /\ (z = False <=> x = True \/ y = True)
<1>1. /\ Not(x) \in Tri /\ (Not(x) = True <=> x = False) /\ (Not(x) = False <=> x = True)
      /\ Not(y) \in Tri /\ (Not(y) = True <=> y = False) /\ (Not(y) = False <=> y = True)
  BY NotIs DEF Tri
<1>2. PICK S : S = {Not(x), Not(y)}
  OBVIOUS
<1>3. S \subseteq Tri /\ \A z : z \in S <=> z = Not(x) \/ z = Not(y)
  BY <1>1, <1>2
<1>4. /\ And(S) \in Tri
      /\ And(S) = False <=> False \in S
      /\ And(S) = True <=> \A z \in S : z = True
  BY <1>3, AndIs
<1> QED BY <1>1, <1>2, <1>3, <1>4, Constants

\* The form of a macro before its filters are known.
MacroBase(coll) ==
  [Form(Undefined, [e \in {Root} |-> coll.reached], [e \in {Root} |-> FALSE], Refusal)
     EXCEPT !.macro = TRUE, !.hopped = coll.far]

LEMMA MacroBaseIs ==
  ASSUME NEW coll \in Collection
  PROVE  LET f == MacroBase(coll) IN
         /\ f \in FormOn({Root}) /\ f.const = Undefined /\ f.macro /\ f.yes = Refusal /\ f.no = Refusal
         /\ f.hopped <=> coll.far
         /\ f.present[Root] <=> coll.reached
<1>1. coll.far \in BOOLEAN /\ coll.reached \in BOOLEAN
  BY CollectionIs
<1>2. PICK present \in [{Root} -> BOOLEAN] : present = [e \in {Root} |-> coll.reached]
  BY <1>1
<1>3. PICK nulls \in [{Root} -> BOOLEAN] : nulls = [e \in {Root} |-> FALSE]
  OBVIOUS
<1>4. PICK none \in FilterOn({Root}) : none = Refusal
  BY RefusalIs
<1>5. PICK f : f = Form(Undefined, present, nulls, none)
  OBVIOUS
<1>6. /\ f \in FormOn({Root}) /\ f.const = Undefined /\ f.yes = none /\ f.no = none
      /\ f.present = present
  BY <1>5 DEF Form, FormOn
<1>7. PICK g : g = [f EXCEPT !.macro = TRUE, !.hopped = coll.far]
  OBVIOUS
<1>8. /\ g \in FormOn({Root}) /\ g.const = Undefined /\ g.macro /\ g.yes = none /\ g.no = none
      /\ g.hopped <=> coll.far
      /\ g.present = present
  BY <1>1, <1>6, <1>7 DEF FormOn
<1>9. MacroBase(coll) = g
  BY <1>2, <1>3, <1>4, <1>5, <1>7 DEF MacroBase
<1>10. g.present[Root] <=> coll.reached
  BY <1>1, <1>2, <1>8
<1> QED BY <1>4, <1>8, <1>9, <1>10

\* Whether a condition is met by a row of the collection.
LEMMA SomeIs ==
  ASSUME NEW coll, NEW is
  PROVE  LET x == Some(coll, is) IN
         /\ x \in {True, False}
         /\ x = True <=> \E r \in coll.rows : is[r] = True
         /\ x = False <=> \A r \in coll.rows : is[r] # True
BY BoolIs, Constants DEF Some

\* The three tests that a macro is built of.
LEMMA MacroTests ==
  ASSUME NEW coll \in Collection, NEW body \in FormOn(Rows), Tr(body.yes)
  PROVE  LET is == body.yes.is
             holds == Some(coll, is)
             null == Bool(\E r \in coll.rows : body.nulls[r])
             fails == Some(coll, [r \in Rows |-> Not(is[r])])
         IN
         /\ holds \in {True, False} /\ null \in {True, False} /\ fails \in {True, False}
         /\ holds = True <=> \E r \in coll.rows : is[r] = True
         /\ null = True <=> \E r \in coll.rows : body.nulls[r]
         /\ fails = True <=> \E r \in coll.rows : is[r] = False
<1>1. PICK is : is = body.yes.is
  OBVIOUS
<1>2. body.yes \in FilterOn(Rows) /\ ~body.yes.refused
  BY FormIs DEF Tr
<1>3. is \in [Rows -> Tri]
  BY <1>1, <1>2, FilterIs
<1>4. \A r \in Rows : Not(is[r]) = True <=> is[r] = False
  BY <1>3, NotIs
<1>5. PICK not : not = [r \in Rows |-> Not(is[r])]
  OBVIOUS
<1>6. \A r \in coll.rows : not[r] = True <=> is[r] = False
  BY <1>4, <1>5, CollectionIs
<1>7. /\ Some(coll, not) \in {True, False}
      /\ Some(coll, not) = True <=> \E r \in coll.rows : is[r] = False
  BY <1>6, SomeIs
<1>8. /\ Some(coll, is) \in {True, False}
      /\ Some(coll, is) = True <=> \E r \in coll.rows : is[r] = True
  BY SomeIs
<1>9. LET null == Bool(\E r \in coll.rows : body.nulls[r]) IN
      null \in {True, False} /\ (null = True <=> \E r \in coll.rows : body.nulls[r])
  BY BoolIs, Constants
<1> QED BY <1>1, <1>5, <1>7, <1>8, <1>9

\* b is what BuildMacro makes of a body.
BuiltMacro(b, op, coll, body) ==
  LET is == body.yes.is IN
  /\ b \in FormOn({Root}) /\ b.const = Undefined /\ b.macro
  /\ b.hopped <=> coll.far
  /\ b.present[Root] <=> coll.reached
  /\ Tr(b.yes) \/ Tr(b.no) => Tr(body.yes)
  /\ Tr(b.yes) /\ op = "exists" =>
       /\ b.yes.is[Root] = True <=> \E r \in coll.rows : is[r] = True
       /\ b.yes.is[Root] = False <=> \A r \in coll.rows : is[r] # True
  /\ Tr(b.no) /\ op = "exists" =>
       /\ b.no.is[Root] = True <=> coll.reached /\ \A r \in coll.rows : is[r] # True /\ ~body.nulls[r]
       /\ b.no.is[Root] = False <=> ~coll.reached \/ \E r \in coll.rows : is[r] = True \/ body.nulls[r]
  /\ Tr(b.yes) /\ op = "all" =>
       /\ b.yes.is[Root] = True <=> coll.reached /\ \A r \in coll.rows : is[r] # False /\ ~body.nulls[r]
       /\ b.yes.is[Root] = False <=> ~coll.reached \/ \E r \in coll.rows : is[r] = False \/ body.nulls[r]
  /\ Tr(b.no) /\ op = "all" =>
       /\ b.no.is[Root] = True <=> \E r \in coll.rows : is[r] = False
       /\ b.no.is[Root] = False <=> \A r \in coll.rows : is[r] # False

LEMMA BuildMacroIs ==
  ASSUME NEW op \in {"exists", "all"}, NEW coll \in Collection, NEW body \in FormOn(Rows)
  PROVE  BuiltMacro(BuildMacro(op, coll, body), op, coll, body)
<1>1. PICK form : form = MacroBase(coll)
  OBVIOUS
<1>2. /\ form \in FormOn({Root}) /\ form.const = Undefined /\ form.macro /\ form.yes = Refusal /\ form.no = Refusal
      /\ form.hopped <=> coll.far
      /\ form.present[Root] <=> coll.reached
  BY <1>1, MacroBaseIs
<1>3. [Form(Undefined, [e \in {Root} |-> coll.reached], [e \in {Root} |-> FALSE], Refusal)
         EXCEPT !.macro = TRUE, !.hopped = coll.far] = form
  BY <1>1 DEF MacroBase
<1>4. CASE body.yes.refused
  <2>1. BuildMacro(op, coll, body) = form
    BY <1>3, <1>4 DEF BuildMacro
  <2> QED BY <1>2, <2>1, RefusalIs DEF BuiltMacro
<1>5. CASE ~body.yes.refused
  <2>1. body.yes \in FilterOn(Rows) /\ body.yes.odd \in SUBSET Disagreements
    BY FormIs, FilterIs
  <2> DEFINE At(is) == Unless(body.yes.refused, Filter([e \in {Root} |-> is], body.yes.odd))
  <2>2. \A x \in Tri : /\ At(x) \in FilterOn({Root}) /\ At(x).is[Root] = x
                       /\ Tr(At(x)) => Tr(body.yes)
    <3> SUFFICES ASSUME NEW x \in Tri
                 PROVE  At(x) \in FilterOn({Root}) /\ At(x).is[Root] = x /\ (Tr(At(x)) => Tr(body.yes))
      OBVIOUS
    <3>1. PICK is \in [{Root} -> Tri] : is = [e \in {Root} |-> x]
      OBVIOUS
    <3>2. At(x) = Filter(is, body.yes.odd)
      BY <1>5, <3>1 DEF Unless
    <3>3. At(x) \in FilterOn({Root}) /\ At(x).is = is /\ At(x).odd = body.yes.odd
      BY <2>1, <3>2, FilterOf
    <3> QED BY <1>5, <3>1, <3>3 DEF Tr
  <2>3. PICK holds : holds = Some(coll, body.yes.is)
    OBVIOUS
  <2>4. PICK null : null = Bool(\E r \in coll.rows : body.nulls[r])
    OBVIOUS
  <2>5. PICK fails : fails = Some(coll, [r \in Rows |-> Not(body.yes.is[r])])
    OBVIOUS
  <2>6. holds \in {True, False} /\ null \in {True, False} /\ fails \in {True, False}
    BY <2>3, <2>4, <2>5, SomeIs, Constants
  <2>7. PICK calm : calm = And({Not(holds), Not(null)})
    OBVIOUS
  <2>8. PICK sound : sound = And({Not(fails), Not(null)})
    OBVIOUS
  <2>9. /\ calm \in Tri /\ (calm = True <=> holds = False /\ null = False)
        /\ calm = False <=> holds = True \/ null = True
        /\ sound \in Tri /\ (sound = True <=> fails = False /\ null = False)
        /\ sound = False <=> fails = True \/ null = True
    BY <2>6, <2>7, <2>8, NeitherIs
  <2>10. BuildMacro(op, coll, body) =
           IF op = "exists"
           THEN [form EXCEPT !.yes = At(holds), !.no = RequiringHops(form, At(calm))]
           ELSE [form EXCEPT !.yes = RequiringHops(form, At(sound)), !.no = At(fails)]
    BY <1>3, <1>5, <2>3, <2>4, <2>5, <2>7, <2>8 DEF BuildMacro
  <2>11. holds \in Tri /\ fails \in Tri
    BY <2>6 DEF Tri
  <2>12. Tr(body.yes) =>
           /\ holds = True <=> \E r \in coll.rows : body.yes.is[r] = True
           /\ null = True <=> \E r \in coll.rows : body.nulls[r]
           /\ fails = True <=> \E r \in coll.rows : body.yes.is[r] = False
    BY <2>3, <2>4, <2>5, MacroTests
  <2> HIDE DEF At
  <2>13. CASE op = "exists"
    <3>1. PICK yes \in FilterOn({Root}) : yes = At(holds)
      BY <2>2, <2>11
    <3>2. PICK quiet \in FilterOn({Root}) : quiet = At(calm)
      BY <2>2, <2>9
    <3>3. PICK no \in FilterOn({Root}) : no = RequiringHops(form, quiet)
      BY <1>2, RequiringHopsIs
    <3>4. /\ Tr(no) => Tr(quiet)
          /\ Tr(no) => /\ no.is[Root] = True <=> (form.hopped => form.present[Root]) /\ quiet.is[Root] = True
                       /\ no.is[Root] = False <=> (form.hopped /\ ~form.present[Root]) \/ quiet.is[Root] = False
      BY <1>2, <3>3, RequiringHopsIs
    <3>5. PICK b : b = [form EXCEPT !.yes = yes, !.no = no] /\ BuildMacro(op, coll, body) = b
      BY <2>10, <2>13, <3>1, <3>2, <3>3
    <3>6. /\ yes.is[Root] = holds /\ quiet.is[Root] = calm
          /\ Tr(yes) => Tr(body.yes)
          /\ Tr(quiet) => Tr(body.yes)
      BY <2>2, <2>9, <2>11, <3>1, <3>2
    <3>7. /\ b \in FormOn({Root}) /\ b.const = Undefined /\ b.macro /\ b.yes = yes /\ b.no = no
          /\ b.hopped <=> coll.far
          /\ b.present[Root] <=> coll.reached
      BY <1>2, <3>5 DEF FormOn
    <3>8. coll.far \/ coll.reached
      BY CollectionIs
    <3>9. Tr(yes) => /\ yes.is[Root] = True <=> \E r \in coll.rows : body.yes.is[r] = True
                     /\ yes.is[Root] = False <=> \A r \in coll.rows : body.yes.is[r] # True
      BY <2>6, <2>12, <3>6, Constants
    <3>10. Tr(no) =>
             /\ no.is[Root] = True <=> coll.reached /\ \A r \in coll.rows : body.yes.is[r] # True /\ ~body.nulls[r]
             /\ no.is[Root] = False <=> ~coll.reached \/ \E r \in coll.rows : body.yes.is[r] = True \/ body.nulls[r]
      BY <1>2, <2>6, <2>9, <2>12, <3>4, <3>6, <3>8, Constants
    <3>11. op # "all"
      BY <2>13
    <3> QED BY <3>4, <3>5, <3>6, <3>7, <3>9, <3>10, <3>11 DEF BuiltMacro
  <2>14. CASE op = "all"
    <3>1. PICK no \in FilterOn({Root}) : no = At(fails)
      BY <2>2, <2>11
    <3>2. PICK quiet \in FilterOn({Root}) : quiet = At(sound)
      BY <2>2, <2>9
    <3>3. PICK yes \in FilterOn({Root}) : yes = RequiringHops(form, quiet)
      BY <1>2, RequiringHopsIs
    <3>4. /\ Tr(yes) => Tr(quiet)
          /\ Tr(yes) => /\ yes.is[Root] = True <=> (form.hopped => form.present[Root]) /\ quiet.is[Root] = True
                        /\ yes.is[Root] = False <=> (form.hopped /\ ~form.present[Root]) \/ quiet.is[Root] = False
      BY <1>2, <3>3, RequiringHopsIs
    <3>5. PICK b : b = [form EXCEPT !.yes = yes, !.no = no] /\ BuildMacro(op, coll, body) = b
      BY <2>10, <2>14, <3>1, <3>2, <3>3
    <3>6. /\ no.is[Root] = fails /\ quiet.is[Root] = sound
          /\ Tr(no) => Tr(body.yes)
          /\ Tr(quiet) => Tr(body.yes)
      BY <2>2, <2>9, <2>11, <3>1, <3>2
    <3>7. /\ b \in FormOn({Root}) /\ b.const = Undefined /\ b.macro /\ b.yes = yes /\ b.no = no
          /\ b.hopped <=> coll.far
          /\ b.present[Root] <=> coll.reached
      BY <1>2, <3>5 DEF FormOn
    <3>8. coll.far \/ coll.reached
      BY CollectionIs
    <3>9. Tr(no) => /\ no.is[Root] = True <=> \E r \in coll.rows : body.yes.is[r] = False
                    /\ no.is[Root] = False <=> \A r \in coll.rows : body.yes.is[r] # False
      BY <2>6, <2>12, <3>6, Constants
    <3>10. Tr(yes) =>
             /\ yes.is[Root] = True <=> coll.reached /\ \A r \in coll.rows : body.yes.is[r] # False /\ ~body.nulls[r]
             /\ yes.is[Root] = False <=> ~coll.reached \/ \E r \in coll.rows : body.yes.is[r] = False \/ body.nulls[r]
      BY <1>2, <2>6, <2>9, <2>12, <3>4, <3>6, <3>8, Constants
    <3>11. op # "exists"
      BY <2>14
    <3> QED BY <3>4, <3>5, <3>6, <3>7, <3>9, <3>10, <3>11 DEF BuiltMacro
  <2> QED BY <2>13, <2>14
<1> QED BY <1>4, <1>5

\* u is the verdict of a macro over rows whose verdicts are v.
Ranges(op, coll, u, v) ==
  /\ u \in Tri
  /\ ~coll.reached => u = Err
  /\ coll.reached /\ op = "exists" => /\ u = True <=> \E r \in coll.rows : v[r] = True
                                      /\ u = False <=> \A r \in coll.rows : v[r] = False
  /\ coll.reached /\ op = "all" => /\ u = True <=> \A r \in coll.rows : v[r] = True
                                   /\ u = False <=> \E r \in coll.rows : v[r] = False

\* What is known of the body at the rows of the collection.
Body(p, f, v, g, coll) ==
  /\ f \in FormOn(Rows)
  /\ \A r \in coll.rows :
       /\ RowOK(f, g, r) /\ ConstantOK(f, r) /\ f.present[r]
       /\ v[r] \in Tri
       /\ Tr(f.yes) => f.yes.is[r] \in Tri
       /\ p # "negative" => TrueSide(f, v, g, r)
       /\ p # "positive" => FalseSide(f, v, g, r)

LEMMA BodyIs ==
  ASSUME NEW s, s # "root", NEW p, NEW f, NEW v, NEW g, NEW coll \in Collection,
         FormOK(s, p, f, v, g), Verdicts(s, v, g)
  PROVE  Body(p, f, v, g, coll)
<1>1. EnvsOf(s) = Rows
  BY DEF EnvsOf
<1>2. f \in FormOn(Rows) /\ coll.rows \subseteq Rows
  BY <1>1, CollectionIs DEF FormOK
<1> SUFFICES ASSUME NEW r \in coll.rows
             PROVE  /\ RowOK(f, g, r) /\ ConstantOK(f, r) /\ f.present[r]
                    /\ v[r] \in Tri
                    /\ Tr(f.yes) => f.yes.is[r] \in Tri
                    /\ p # "negative" => TrueSide(f, v, g, r)
                    /\ p # "positive" => FalseSide(f, v, g, r)
  BY <1>2 DEF Body
<1>3. r \in EnvsOf(s)
  BY <1>1, <1>2
<1>4. /\ RowOK(f, g, r) /\ ConstantOK(f, r) /\ HopsOK(f, g, r)
      /\ p # "negative" => TrueSide(f, v, g, r)
      /\ p # "positive" => FalseSide(f, v, g, r)
  BY <1>3 DEF FormOK
<1>5. f.present[r] /\ v[r] \in Tri
  BY <1>3, <1>4 DEF HopsOK, RowOK, Verdicts
<1>6. Tr(f.yes) => f.yes.is[r] \in Tri
  BY <1>2, <1>3, <1>1, FormIs, FilterIs DEF Tr
<1> QED BY <1>4, <1>5, <1>6

LEMMA BuildMacroOK ==
  ASSUME NEW op \in {"exists", "all"}, NEW coll \in Collection, NEW p, NEW f, NEW v, NEW g, NEW u, NEW h,
         Body(p, f, v, g, coll), Ranges(op, coll, u[Root], v),
         h[Root] <=> ~coll.reached \/ \E r \in coll.rows : g[r]
  PROVE  FormOK("root", p, BuildMacro(op, coll, f), u, h)
<1>1. PICK b : b = BuildMacro(op, coll, f)
  OBVIOUS
<1>2. f \in FormOn(Rows)
  BY DEF Body
<1> DEFINE is == f.yes.is
<1>3. f \in FormOn(Rows) /\ (coll.reached \/ coll.rows = {}) /\ (coll.far \/ coll.reached)
  BY CollectionIs DEF Body
<1>4. /\ b \in FormOn({Root}) /\ b.const = Undefined /\ b.macro
      /\ b.hopped <=> coll.far
      /\ b.present[Root] <=> coll.reached
      /\ Tr(b.yes) \/ Tr(b.no) => Tr(f.yes)
      /\ Tr(b.yes) /\ op = "exists" =>
           /\ b.yes.is[Root] = True <=> \E r \in coll.rows : is[r] = True
           /\ b.yes.is[Root] = False <=> \A r \in coll.rows : is[r] # True
      /\ Tr(b.no) /\ op = "exists" =>
           /\ b.no.is[Root] = True <=> coll.reached /\ \A r \in coll.rows : is[r] # True /\ ~f.nulls[r]
           /\ b.no.is[Root] = False <=> ~coll.reached \/ \E r \in coll.rows : is[r] = True \/ f.nulls[r]
      /\ Tr(b.yes) /\ op = "all" =>
           /\ b.yes.is[Root] = True <=> coll.reached /\ \A r \in coll.rows : is[r] # False /\ ~f.nulls[r]
           /\ b.yes.is[Root] = False <=> ~coll.reached \/ \E r \in coll.rows : is[r] = False \/ f.nulls[r]
      /\ Tr(b.no) /\ op = "all" =>
           /\ b.no.is[Root] = True <=> \E r \in coll.rows : is[r] = False
           /\ b.no.is[Root] = False <=> \A r \in coll.rows : is[r] # False
  <2>1. BuiltMacro(b, op, coll, f)
    BY <1>1, <1>2, BuildMacroIs
  <2> QED BY <2>1 DEF BuiltMacro
<1>5. ConstantOK(b, Root) /\ HopsOK(b, h, Root)
  BY <1>3, <1>4 DEF ConstantOK, HopsOK
\* What the filter of the body says of a row.
<1>6. ASSUME Tr(f.yes), NEW r \in coll.rows
      PROVE  /\ is[r] \in Tri /\ (~f.nulls[r] => is[r] # Err) /\ (f.nulls[r] => g[r])
             /\ p # "negative" => (is[r] = True => v[r] = True) /\ (v[r] = True /\ ~g[r] => is[r] = True)
             /\ p # "positive" => (is[r] = False => v[r] = False) /\ (v[r] = False /\ ~g[r] => is[r] = False)
  BY <1>6 DEF Body, RowOK, TrueSide, FalseSide
<1>7. ASSUME p # "negative" PROVE TrueSide(b, u, h, Root)
  <2>1. CASE op = "exists"
    <3>1. ASSUME Tr(b.yes)
          PROVE  /\ b.yes.is[Root] = True => u[Root] = True
                 /\ u[Root] = True /\ ~h[Root] => b.yes.is[Root] = True
      BY <1>3, <1>4, <1>6, <1>7, <2>1, <3>1 DEF Ranges
    <3>2. ASSUME Tr(b.no), u[Root] = True, ~h[Root] PROVE b.no.is[Root] = False
      <4>1. PICK r \in coll.rows : v[r] = True
        BY <2>1, <3>2 DEF Ranges
      <4>2. is[r] = True
        BY <1>4, <1>6, <1>7, <3>2, <4>1
      <4> QED BY <1>4, <2>1, <3>2, <4>2
    <3> QED BY <1>4, <3>1, <3>2 DEF TrueSide
  <2>2. CASE op = "all"
    <3>1. ASSUME Tr(b.yes)
          PROVE  /\ b.yes.is[Root] = True => u[Root] = True
                 /\ u[Root] = True /\ ~h[Root] => b.yes.is[Root] = True
      <4>1. ASSUME b.yes.is[Root] = True PROVE u[Root] = True
        <5>1. coll.reached /\ \A r \in coll.rows : is[r] # False /\ ~f.nulls[r]
          BY <1>4, <2>2, <3>1, <4>1
        <5>2. \A r \in coll.rows : is[r] = True
          BY <1>4, <1>6, <3>1, <5>1 DEF Tri
        <5> QED BY <1>4, <1>6, <1>7, <2>2, <3>1, <5>1, <5>2 DEF Ranges
      <4>2. ASSUME u[Root] = True, ~h[Root] PROVE b.yes.is[Root] = True
        <5>1. coll.reached /\ \A r \in coll.rows : v[r] = True /\ ~g[r]
          BY <2>2, <4>2 DEF Ranges
        <5>2. \A r \in coll.rows : is[r] = True /\ ~f.nulls[r]
          BY <1>4, <1>6, <1>7, <3>1, <5>1
        <5> QED BY <1>4, <2>2, <3>1, <5>1, <5>2, Constants
      <4> QED BY <4>1, <4>2
    <3>2. ASSUME Tr(b.no), u[Root] = True, ~h[Root] PROVE b.no.is[Root] = False
      <4>1. \A r \in coll.rows : v[r] = True /\ ~g[r]
        BY <2>2, <3>2 DEF Ranges
      <4>2. \A r \in coll.rows : is[r] = True
        BY <1>4, <1>6, <1>7, <3>2, <4>1
      <4> QED BY <1>4, <2>2, <3>2, <4>2, Constants
    <3> QED BY <1>4, <3>1, <3>2 DEF TrueSide
  <2> QED BY <2>1, <2>2
<1>8. ASSUME p # "positive" PROVE FalseSide(b, u, h, Root)
  <2>1. CASE op = "exists"
    <3>1. ASSUME Tr(b.no)
          PROVE  /\ b.no.is[Root] = True => u[Root] = False
                 /\ u[Root] = False /\ ~h[Root] => b.no.is[Root] = True
      <4>1. ASSUME b.no.is[Root] = True PROVE u[Root] = False
        <5>1. coll.reached /\ \A r \in coll.rows : is[r] # True /\ ~f.nulls[r]
          BY <1>4, <2>1, <3>1, <4>1
        <5>2. \A r \in coll.rows : is[r] = False
          BY <1>4, <1>6, <3>1, <5>1 DEF Tri
        <5> QED BY <1>4, <1>6, <1>8, <2>1, <3>1, <5>1, <5>2 DEF Ranges
      <4>2. ASSUME u[Root] = False, ~h[Root] PROVE b.no.is[Root] = True
        <5>1. coll.reached /\ \A r \in coll.rows : v[r] = False /\ ~g[r]
          BY <2>1, <4>2 DEF Ranges
        <5>2. \A r \in coll.rows : is[r] = False /\ ~f.nulls[r]
          BY <1>4, <1>6, <1>8, <3>1, <5>1
        <5> QED BY <1>4, <2>1, <3>1, <5>1, <5>2, Constants
      <4> QED BY <4>1, <4>2
    <3>2. ASSUME Tr(b.yes), u[Root] = False, ~h[Root] PROVE b.yes.is[Root] = False
      <4>1. \A r \in coll.rows : v[r] = False /\ ~g[r]
        BY <2>1, <3>2 DEF Ranges
      <4>2. \A r \in coll.rows : is[r] = False
        BY <1>4, <1>6, <1>8, <3>2, <4>1
      <4> QED BY <1>4, <2>1, <3>2, <4>2, Constants
    <3> QED BY <1>4, <3>1, <3>2 DEF FalseSide
  <2>2. CASE op = "all"
    <3>1. ASSUME Tr(b.no)
          PROVE  /\ b.no.is[Root] = True => u[Root] = False
                 /\ u[Root] = False /\ ~h[Root] => b.no.is[Root] = True
      BY <1>3, <1>4, <1>6, <1>8, <2>2, <3>1 DEF Ranges
    <3>2. ASSUME Tr(b.yes), u[Root] = False, ~h[Root] PROVE b.yes.is[Root] = False
      <4>1. PICK r \in coll.rows : v[r] = False
        BY <2>2, <3>2 DEF Ranges
      <4>2. is[r] = False
        BY <1>4, <1>6, <1>8, <3>2, <4>1
      <4> QED BY <1>4, <2>2, <3>2, <4>2
    <3> QED BY <1>4, <3>1, <3>2 DEF FalseSide
  <2> QED BY <2>1, <2>2
<1> QED BY <1>1, <1>4, <1>5, <1>7, <1>8 DEF FormOK, EnvsOf

\* A body that is constant, at a row of the collection.
LEMMA ConstantBody ==
  ASSUME NEW p, NEW f, NEW v, NEW g, NEW coll \in Collection, Body(p, f, v, g, coll), f.const # Undefined,
         f.yes.odd = {}, NEW r \in coll.rows
  PROVE  /\ f.const \in {True, False}
         /\ p # "negative" => /\ f.const = True => v[r] = True
                              /\ f.const = False => v[r] # True \/ g[r]
         /\ p # "positive" => /\ f.const = False => v[r] = False
                              /\ f.const = True => v[r] # False \/ g[r]
<1>1. /\ f \in FormOn(Rows) /\ RowOK(f, g, r) /\ ConstantOK(f, r) /\ f.present[r]
      /\ p # "negative" => TrueSide(f, v, g, r)
      /\ p # "positive" => FalseSide(f, v, g, r)
  BY DEF Body
<1>2. /\ Tr(f.yes) /\ Tr(f.no) /\ ~f.macro
      /\ f.yes.is[r] = f.const /\ f.no.is[r] = Not(f.const)
  BY <1>1 DEF ConstantOK, Tr
<1>3. f.const \in {True, False}
  BY <1>1, FormIs
<1> QED BY <1>1, <1>2, <1>3, Constants DEF TrueSide, FalseSide

\* The form of a macro that is left with the size of the collection.
LEMMA SizeForm ==
  ASSUME NEW coll \in Collection, NEW y \in {True, False}, NEW p, NEW w, NEW h, NEW m,
         ~coll.reached => y = False /\ h[Root],
         w[Root] = IF coll.reached THEN y ELSE Err,
         m = NegateRequiringHops(
               [Form(Undefined, [e \in {Root} |-> coll.reached], [e \in {Root} |-> FALSE],
                     Filter([e \in {Root} |-> y], {}))
                  EXCEPT !.hopped = coll.far])
  PROVE  FormOK("root", p, m, w, h)
<1>1. y \in Tri
  BY DEF Tri
<1>2. PICK is \in [{Root} -> Tri] : is = [e \in {Root} |-> y]
  BY <1>1
<1>3. PICK filter : filter = Filter(is, {})
  OBVIOUS
<1>4. filter \in FilterOn({Root}) /\ filter.is = is /\ Tr(filter)
  BY <1>3, FilterOf DEF Tr
<1>5. PICK form : form = [Form(Undefined, [e \in {Root} |-> coll.reached], [e \in {Root} |-> FALSE], filter)
                            EXCEPT !.hopped = coll.far]
  OBVIOUS
<1>6. /\ coll.far \in BOOLEAN /\ coll.reached \in BOOLEAN /\ (coll.far \/ coll.reached)
  BY CollectionIs
<1>7. /\ form \in FormOn({Root}) /\ form.const = Undefined /\ ~form.macro /\ form.yes = filter
      /\ form.hopped <=> coll.far
      /\ form.present[Root] <=> coll.reached
  BY <1>4, <1>5, <1>6 DEF Form, FormOn
<1>8. PICK n : n = RequiringHops(form, Negate(form.yes))
  OBVIOUS
<1>9. NegateRequiringHops(form) = [form EXCEPT !.no = n] /\ NegationOf(n, form, {Root})
  BY <1>7, <1>8, NegateRequiringHopsIs
<1>10. EnvsOf("root") = {Root}
  BY DEF EnvsOf
<1>11. HopsOK(form, h, Root)
  BY <1>6, <1>7 DEF HopsOK
<1>12. CellOK(form.yes.is[Root], w[Root], h[Root], ~form.macro /\ form.present[Root])
  <2>1. form.yes.is[Root] = y
    BY <1>2, <1>4, <1>7
  <2>2. coll.reached => w[Root] = y
    OBVIOUS
  <2>3. ~coll.reached => w[Root] = Err /\ y = False
    OBVIOUS
  <2> QED BY <1>1, <1>7, <2>1, <2>2, <2>3, Constants DEF CellOK
<1>13. FormOK("root", p, [form EXCEPT !.no = n], w, h)
  BY <1>7, <1>9, <1>10, <1>11, <1>12, FormOfCells
<1> QED BY <1>2, <1>3, <1>5, <1>9, <1>13

\* FoldedMacro
LEMMA FoldedMacroOK ==
  ASSUME NEW op \in {"exists", "all"}, NEW coll \in Collection, NEW p, NEW f, NEW v, NEW g, NEW u, NEW h,
         Body(p, f, v, g, coll), Ranges(op, coll, u[Root], v), f.const # Undefined,
         h[Root] <=> ~coll.reached \/ \E r \in coll.rows : g[r]
  PROVE  LET m == FoldedMacro(op, coll, f.const = True) IN
         /\ ShapeOK("root", m, h)
         /\ f.yes.odd = {} => FormOK("root", p, m, u, h)
<1>1. PICK m : m = FoldedMacro(op, coll, f.const = True)
  OBVIOUS
<1>2. /\ coll.far \in BOOLEAN /\ coll.reached \in BOOLEAN /\ (coll.far \/ coll.reached)
      /\ ~coll.reached => coll.rows = {}
  BY CollectionIs
<1>3. EnvsOf("root") = {Root}
  BY DEF EnvsOf
<1>4. f.const \in {True, False} /\ True # False
  BY FormIs, Constants DEF Body
<1>5. ASSUME f.yes.odd = {}, NEW r \in coll.rows
      PROVE  /\ p # "negative" => /\ f.const = True => v[r] = True
                                  /\ f.const = False => v[r] # True \/ g[r]
             /\ p # "positive" => /\ f.const = False => v[r] = False
                                  /\ f.const = True => v[r] # False \/ g[r]
  BY <1>5, ConstantBody
<1>6. CASE (op = "exists") <=> (f.const = True)
  <2>1. PICK P : P <=> ((coll.rows # {}) <=> (f.const = True))
    OBVIOUS
  <2>2. PICK y \in {True, False} : y = Bool(coll.reached /\ P)
    BY BoolIs, Constants
  <2>3. PICK w : w = [e \in {Root} |-> IF coll.reached THEN y ELSE Err]
    OBVIOUS
  <2>4. m = NegateRequiringHops(
              [Form(Undefined, [e \in {Root} |-> coll.reached], [e \in {Root} |-> FALSE],
                    Filter([e \in {Root} |-> y], {}))
                 EXCEPT !.hopped = coll.far])
    <3>1. ((coll.rows # {}) = (f.const = True)) <=> P
      BY <2>1
    <3>2. Bool(coll.reached /\ (coll.rows # {}) = (f.const = True)) = y
      BY <2>2, <3>1 DEF Bool
    <3> QED BY <1>1, <1>6, <3>2 DEF FoldedMacro
  <2>5. /\ w[Root] = IF coll.reached THEN y ELSE Err
        /\ coll.reached => (y = True <=> P) /\ (y = False <=> ~P)
        /\ ~coll.reached => y = False /\ h[Root]
    BY <2>2, <2>3, BoolIs
  <2>6. FormOK("root", p, m, w, h)
    BY <2>4, <2>5, SizeForm
  <2>7. ShapeOK("root", m, h)
    BY <2>6, ShapeOf
  <2>8. ASSUME f.yes.odd = {} PROVE FormOK("root", p, m, u, h)
    <3>1. coll.reached => (w[Root] = True <=> P) /\ (w[Root] = False <=> ~P)
      BY <2>5
    <3>2. ~coll.reached => w[Root] = Err /\ u[Root] = Err /\ h[Root]
      BY <2>5 DEF Ranges
    <3>3. ASSUME p # "negative", coll.reached
          PROVE  (w[Root] = True => u[Root] = True) /\ (u[Root] = True /\ ~h[Root] => w[Root] = True)
      <4>1. CASE op = "exists"
        BY <1>4, <1>5, <1>6, <2>1, <2>8, <3>1, <3>3, <4>1 DEF Ranges
      <4>2. CASE op = "all"
        BY <1>4, <1>5, <1>6, <2>1, <2>8, <3>1, <3>3, <4>2 DEF Ranges
      <4> QED BY <4>1, <4>2
    <3>4. ASSUME p # "positive", coll.reached
          PROVE  (w[Root] = False => u[Root] = False) /\ (u[Root] = False /\ ~h[Root] => w[Root] = False)
      <4>1. CASE op = "exists"
        BY <1>4, <1>5, <1>6, <2>1, <2>8, <3>1, <3>4, <4>1 DEF Ranges
      <4>2. CASE op = "all"
        BY <1>4, <1>5, <1>6, <2>1, <2>8, <3>1, <3>4, <4>2 DEF Ranges
      <4> QED BY <4>1, <4>2
    <3>5. /\ p # "negative" => (w[Root] = True => u[Root] = True) /\ (u[Root] = True /\ ~h[Root] => w[Root] = True)
          /\ p # "positive" => (w[Root] = False => u[Root] = False) /\ (u[Root] = False /\ ~h[Root] => w[Root] = False)
      BY <3>2, <3>3, <3>4, Constants
    <3> QED BY <1>3, <2>6, <3>5, Refines
  <2> QED BY <1>1, <2>7, <2>8
<1>7. CASE ~((op = "exists") <=> (f.const = True))
  <2>1. PICK odd \in SUBSET Disagreements : odd = {s \in {"foldedChain"} : coll.far}
    BY DEF Disagreements
  <2>2. PICK b \in {True, False} : b = Bool(op = "all")
    BY BoolIs, Constants
  <2>3. m = Constant({Root}, b, odd)
    BY <1>1, <1>7, <2>1, <2>2 DEF FoldedMacro
  <2>4. ShapeOK("root", m, h) /\ m.const = b /\ m.const # Undefined /\ m.yes.odd = odd
    <3>1. m = Constant(EnvsOf("root"), b, odd)
      BY <1>3, <2>3
    <3> QED BY <3>1, ConstantShape
  <2>5. ASSUME f.yes.odd = {} PROVE FormOK("root", p, m, u, h)
    <3>1. ASSUME m.yes.odd = {}
          PROVE  /\ p # "negative" => /\ m.const = True => u[Root] = True
                                      /\ m.const = False => u[Root] # True \/ h[Root]
                 /\ p # "positive" => /\ m.const = False => u[Root] = False
                                      /\ m.const = True => u[Root] # False \/ h[Root]
      <4>1. coll.reached
        BY <1>2, <2>1, <2>4, <3>1
      <4>2. (op = "all" <=> m.const = True) /\ (op = "exists" <=> m.const = False)
        BY <2>2, <2>4, BoolIs, Constants
      <4>3. CASE op = "exists"
        BY <1>4, <1>5, <1>7, <2>5, <4>1, <4>2, <4>3 DEF Ranges
      <4>4. CASE op = "all"
        BY <1>4, <1>5, <1>7, <2>5, <4>1, <4>2, <4>4 DEF Ranges
      <4> QED BY <4>3, <4>4
    <3> QED BY <1>3, <2>4, <3>1, ConstantForm
  <2> QED BY <1>1, <2>4, <2>5
<1> QED BY <1>6, <1>7

\* MacroForm
LEMMA MacroFormOK ==
  ASSUME NEW op \in {"exists", "all"}, NEW coll \in Collection, NEW p, NEW f, NEW v, NEW g, NEW u, NEW h,
         Body(p, f, v, g, coll), Ranges(op, coll, u[Root], v),
         h[Root] <=> ~coll.reached \/ \E r \in coll.rows : g[r]
  PROVE  FormOK("root", p, MacroForm(op, coll, f), u, h)
<1>1. CASE f.const = Undefined
  <2>1. MacroForm(op, coll, f) = BuildMacro(op, coll, f)
    BY <1>1 DEF MacroForm
  <2> QED BY <2>1, BuildMacroOK
<1>2. CASE f.const # Undefined
  <2>1. PICK m : m = FoldedMacro(op, coll, f.const = True)
    OBVIOUS
  <2>2. PICK odd : odd = f.yes.odd \union f.no.odd
    OBVIOUS
  <2>3. MacroForm(op, coll, f) = Odd(m, odd)
    BY <1>2, <2>1, <2>2 DEF MacroForm
  <2>4. ShapeOK("root", m, h) /\ (f.yes.odd = {} => FormOK("root", p, m, u, h))
    BY <1>2, <2>1, FoldedMacroOK
  <2>5. odd \in SUBSET Disagreements
    BY <2>2, FormIs, FilterIs DEF Body
  <2>6. odd = {} => f.yes.odd = {}
    BY <2>2
  <2> QED BY <2>3, <2>4, <2>5, <2>6, OddOK
<1> QED BY <1>1, <1>2

\* A macro over a body that is right.
LEMMA MacroOK ==
  ASSUME NEW op \in {"exists", "all"}, NEW coll \in Collection, NEW s, s # "root", NEW p, NEW f, NEW v, NEW g,
         NEW u, NEW h, FormOK(s, p, f, v, g), Verdicts(s, v, g), Ranges(op, coll, u[Root], v),
         ~coll.reached \/ (\E r \in coll.rows : g[r]) => h[Root]
  PROVE  FormOK("root", p, MacroForm(op, coll, f), u, h)
<1>1. Body(p, f, v, g, coll)
  BY BodyIs
<1>2. PICK k : k = [e \in {Root} |-> ~coll.reached \/ \E r \in coll.rows : g[r]]
  OBVIOUS
<1>3. k[Root] <=> ~coll.reached \/ \E r \in coll.rows : g[r]
  BY <1>2
<1>4. FormOK("root", p, MacroForm(op, coll, f), u, k)
  BY <1>1, <1>3, MacroFormOK
<1>5. \A e \in EnvsOf("root") : k[e] => h[e]
  BY <1>3 DEF EnvsOf
<1> QED BY <1>4, <1>5, Refines

LEMMA MacroVerdict ==
  ASSUME NEW op \in {"exists", "all"}, NEW coll \in Collection, NEW v \in [Rows -> Tri]
  PROVE  \E u \in [{Root} -> Tri] : Ranges(op, coll, u[Root], v)
<1>1. PICK S : S = {v[r] : r \in coll.rows}
  OBVIOUS
<1>2. S \subseteq Tri
  BY <1>1, CollectionIs
<1>3. PICK x : x = IF ~coll.reached THEN Err ELSE IF op = "exists" THEN Or(S) ELSE And(S)
  OBVIOUS
<1>4. x \in Tri
  <2>1. Or(S) \in Tri /\ And(S) \in Tri
    BY <1>2, AndIs, OrIs
  <2>2. Err \in Tri
    BY DEF Tri
  <2> QED BY <1>3, <2>1, <2>2
<1>5. PICK u \in [{Root} -> Tri] : u = [e \in {Root} |-> x]
  BY <1>4
<1>6. coll.reached /\ op = "exists" => /\ x = True <=> \E r \in coll.rows : v[r] = True
                                       /\ x = False <=> \A r \in coll.rows : v[r] = False
  BY <1>1, <1>2, <1>3, OrIs, SMTT(30)
<1>7. coll.reached /\ op = "all" => /\ x = True <=> \A r \in coll.rows : v[r] = True
                                    /\ x = False <=> \E r \in coll.rows : v[r] = False
  BY <1>1, <1>2, <1>3, AndIs
<1>8. Ranges(op, coll, x, v)
  BY <1>3, <1>4, <1>6, <1>7 DEF Ranges
<1>9. u[Root] = x
  BY <1>5
<1> QED BY <1>8, <1>9

LEMMA JunctionJoins ==
  ASSUME NEW op \in Junctions, NEW x \in Tri, NEW y \in Tri
  PROVE  Joins(op, Junction(op = "or", {x, y}), x, y)
BY JunctionIs DEF Joins

LEMMA JunctionVerdict ==
  ASSUME NEW op \in Junctions, NEW E, NEW v \in [E -> Tri], NEW w \in [E -> Tri]
  PROVE  \E u \in [E -> Tri] : \A e \in E : Joins(op, u[e], v[e], w[e])
<1>1. PICK u : u = [e \in E |-> Junction(op = "or", {v[e], w[e]})]
  OBVIOUS
<1>2. \A e \in E : Junction(op = "or", {v[e], w[e]}) \in Tri
  BY JunctionIs
<1>3. u \in [E -> Tri]
  BY <1>1, <1>2
<1>4. ASSUME NEW e \in E PROVE Joins(op, u[e], v[e], w[e])
  <2>1. u[e] = Junction(op = "or", {v[e], w[e]})
    BY <1>1
  <2> QED BY <2>1, JunctionIs DEF Joins
<1> QED BY <1>3, <1>4

\* u is the verdict of a macro that errs where a row does, and never denies.
Total(coll, u, v) == u # False /\ (u = True <=> coll.reached /\ \A r \in coll.rows : v[r] # Err)

\* The macro that carries the error of building a list: its body is a condition or its negation.
LEMMA TotalMacro ==
  ASSUME NEW coll \in Collection, NEW s, s # "root", NEW p \in Polarities, NEW f, NEW o, NEW v, NEW g, NEW h,
         Verdicts(s, v, g), FormOK(s, p, f, v, g), FormOK(s, Opposite(p), o, v, g),
         ~coll.reached \/ (\E r \in coll.rows : g[r]) => h[Root]
  PROVE  \E u \in [{Root} -> Tri] :
           /\ FormOK("root", p, MacroForm("all", coll, JunctionForm("or", f, NotForm(o))), u, h)
           /\ Total(coll, u[Root], v)
<1>1. EnvsOf(s) = Rows /\ coll.rows \subseteq Rows
  BY CollectionIs DEF EnvsOf
<1>2. v \in [Rows -> Tri] /\ g \in [Rows -> BOOLEAN]
  BY <1>1 DEF Verdicts
<1>3. PICK n \in [Rows -> Tri] : \A r \in Rows : n[r] = Not(v[r])
  <2>1. [r \in Rows |-> Not(v[r])] \in [Rows -> Tri]
    BY <1>2, NotIs
  <2> QED BY <2>1
<1>4. FormOK(s, p, NotForm(o), n, g)
  BY <1>1, <1>3, NegatedForm
<1>5. PICK w \in [Rows -> Tri] : \A r \in Rows : Joins("or", w[r], v[r], n[r])
  BY <1>2, <1>3, JunctionVerdict DEF Junctions
<1>6. FormOK(s, p, JunctionForm("or", f, NotForm(o)), w, g)
  BY <1>1, <1>4, <1>5, JunctionFormOK DEF Junctions
<1>7. \A r \in Rows : (w[r] = True <=> v[r] # Err) /\ w[r] # False
  BY <1>2, <1>3, <1>5, NotIs, Constants DEF Joins, Tri
<1>8. PICK u \in [{Root} -> Tri] : Ranges("all", coll, u[Root], w)
  BY MacroVerdict
<1>9. Verdicts(s, w, g)
  BY <1>1, <1>2 DEF Verdicts
<1>10. FormOK("root", p, MacroForm("all", coll, JunctionForm("or", f, NotForm(o))), u, h)
  BY <1>6, <1>8, <1>9, MacroOK
<1>11. Total(coll, u[Root], v)
  BY <1>1, <1>7, <1>8, Constants DEF Ranges, Total
<1> QED BY <1>10, <1>11

-----------------------------------------------------------------------------
(* Lists derived of related rows *)

\* DerivedList, under one polarity: matches is what a row must meet, body what its value is.
DerivedForm(coll, matches, body, opposite) ==
  JunctionForm("and", MacroForm("exists", coll, matches),
    MacroForm("all", coll, JunctionForm("or", body, NotForm(opposite))))

\* What is left out with an odd form says what it said.
LEMMA OddSays ==
  ASSUME NEW E, NEW f \in FormOn(E), NEW odd \in SUBSET Disagreements
  PROVE  /\ Odd(f, odd).macro <=> f.macro
         /\ Odd(f, odd).no.is = f.no.is /\ (Tr(Odd(f, odd).no) => Tr(f.no))
<1> DEFINE o == Odd(f, odd)
<1>1. /\ o \in FormOn(E)
      /\ o.const = f.const /\ o.macro = f.macro /\ o.hopped = f.hopped
      /\ o.present = f.present /\ o.nulls = f.nulls
      /\ o.yes = [f.yes EXCEPT !.odd = @ \union odd] /\ o.no = [f.no EXCEPT !.odd = @ \union odd]
  BY OddIs
<1> HIDE DEF o
<1>2. f.no \in FilterOn(E)
  BY FormIs
<1>3. o.no.is = f.no.is /\ (Tr(o.no) => Tr(f.no))
  BY <1>1, <1>2, OddFilter
<1> QED BY <1>1, <1>3 DEF o

\* j is a macro as f is, and denies only where f does.
KeepsDenial(j, f) ==
  f.const = Undefined /\ f.macro =>
    /\ Tr(j.yes) \/ Tr(j.no) => j.macro
    /\ Tr(j.no) /\ j.no.is[Root] = True => Tr(f.no) /\ f.no.is[Root] = True

\* A junction with a second macro that never denies keeps the denial of the first.
LEMMA FirstDenies ==
  ASSUME NEW p, p # "positive", NEW f, NEW v, NEW g, NEW w, NEW x, NEW h,
         FormOK("root", p, f, v, g), FormOK("root", p, w, x, h), x[Root] # False
  PROVE  KeepsDenial(JunctionForm("and", f, w), f)
<1> SUFFICES ASSUME f.const = Undefined, f.macro
             PROVE  LET j == JunctionForm("and", f, w) IN
                    /\ Tr(j.yes) \/ Tr(j.no) => j.macro
                    /\ Tr(j.no) /\ j.no.is[Root] = True => Tr(f.no) /\ f.no.is[Root] = True
  BY DEF KeepsDenial
<1>1. PICK j : j = JunctionForm("and", f, w)
  OBVIOUS
<1>2. PICK E : E = {Root} /\ E = EnvsOf("root")
  BY DEF EnvsOf
<1>3. f \in FormOn(E) /\ w \in FormOn(E) /\ ConstantOK(w, Root) /\ FalseSide(w, x, h, Root)
  BY <1>2 DEF FormOK
<1>4. Bool("and" = "or") = False /\ f.const # False
  BY Constants
<1>5. CASE w.const = False
  <2>1. j = w
    BY <1>1, <1>4, <1>5, Constants DEF JunctionForm
  <2>2. Tr(w.yes) \/ Tr(w.no) => w.yes.odd = {}
    BY <1>3, <1>5, Constants DEF ConstantOK, Tr
  <2>3. w.yes.odd # {}
    BY <1>2, <1>5, ConstantSays, Constants
  <2> QED BY <1>1, <2>1, <2>2, <2>3
<1>6. CASE w.const # False /\ w.const # Undefined
  <2>1. PICK odd \in SUBSET Disagreements : odd = w.yes.odd \union w.no.odd
    BY <1>3, FormIs, FilterIs
  <2>2. j = Odd(f, odd)
    BY <1>1, <1>4, <1>6, <2>1 DEF JunctionForm, Sharing
  <2>3. /\ j.macro <=> f.macro
        /\ j.no.is = f.no.is /\ (Tr(j.no) => Tr(f.no))
    BY <1>3, <2>2, OddSays
  <2> QED BY <1>1, <2>3
<1>7. CASE w.const = Undefined
  <2>1. j = BuildJunction("and", f, w)
    BY <1>1, <1>4, <1>7, Constants DEF JunctionForm
  <2>2. "and" \in Junctions /\ "or" \in Junctions /\ Dual("and") = "or"
    BY DEF Junctions, Dual
  <2>3. j.macro /\ (j.no = IF j.macro \/ j.hopped THEN Join(Dual("and"), f.no, w.no) ELSE Negate(j.yes))
    <3>1. LET b == BuildJunction("and", f, w) IN
          /\ b.macro <=> f.macro \/ w.macro
          /\ b.no = IF b.macro \/ b.hopped THEN Join(Dual("and"), f.no, w.no) ELSE Negate(b.yes)
      BY <1>3, <2>2, BuildJunctionIs
    <3> QED BY <2>1, <3>1
  <2>4. j.no = Join("or", f.no, w.no) /\ f.no \in FilterOn(E) /\ w.no \in FilterOn(E)
    BY <1>3, <2>2, <2>3, FormIs
  <2>5. ASSUME Tr(j.no), j.no.is[Root] = True PROVE Tr(f.no) /\ f.no.is[Root] = True
    <3>1. Tr(f.no) /\ Tr(w.no) /\ Joins("or", j.no.is[Root], f.no.is[Root], w.no.is[Root])
      BY <1>2, <2>2, <2>4, <2>5, JoinJoins
    <3>2. w.no.is[Root] # True
      BY <1>3, <3>1 DEF FalseSide
    <3> QED BY <2>5, <3>1, <3>2 DEF Joins
  <2> QED BY <1>1, <2>3, <2>5
<1> QED BY <1>5, <1>6, <1>7

\* u is the verdict over a derived list, of matches whose verdicts are x and values whose verdicts are v.
Derives(coll, u, x, v) ==
  /\ u = True <=> /\ coll.reached /\ (\E r \in coll.rows : x[r] = True)
                  /\ \A r \in coll.rows : v[r] # Err
  /\ u = False <=> coll.reached /\ \A r \in coll.rows : x[r] = False

LEMMA DerivedOK ==
  ASSUME NEW coll \in Collection, NEW s, s # "root", NEW p \in Polarities,
         NEW m, NEW vm, NEW gm, Verdicts(s, vm, gm), FormOK(s, p, m, vm, gm),
         NEW f, NEW o, NEW v, NEW g, Verdicts(s, v, g), FormOK(s, p, f, v, g), FormOK(s, Opposite(p), o, v, g),
         NEW h, ~coll.reached \/ (\E r \in coll.rows : gm[r] \/ g[r]) => h[Root]
  PROVE  \E u \in [{Root} -> Tri] :
           /\ FormOK("root", p, DerivedForm(coll, m, f, o), u, h)
           /\ Derives(coll, u[Root], vm, v)
           /\ p # "positive" => KeepsDenial(DerivedForm(coll, m, f, o), MacroForm("exists", coll, m))
<1>1. EnvsOf(s) = Rows /\ coll.rows \subseteq Rows /\ EnvsOf("root") = {Root}
  BY CollectionIs DEF EnvsOf
<1>2. vm \in [Rows -> Tri]
  BY <1>1 DEF Verdicts
<1>3. PICK x \in [{Root} -> Tri] : Ranges("exists", coll, x[Root], vm)
  BY <1>2, MacroVerdict
<1>4. ~coll.reached \/ (\E r \in coll.rows : gm[r]) => h[Root]
  OBVIOUS
<1>5. FormOK("root", p, MacroForm("exists", coll, m), x, h)
  BY <1>3, <1>4, MacroOK
<1>6. ~coll.reached \/ (\E r \in coll.rows : g[r]) => h[Root]
  OBVIOUS
<1>7. PICK y \in [{Root} -> Tri] :
        /\ FormOK("root", p, MacroForm("all", coll, JunctionForm("or", f, NotForm(o))), y, h)
        /\ Total(coll, y[Root], v)
  BY <1>6, TotalMacro
<1>8. PICK u \in [{Root} -> Tri] : \A e \in {Root} : Joins("and", u[e], x[e], y[e])
  BY JunctionVerdict DEF Junctions
<1>9. FormOK("root", p, DerivedForm(coll, m, f, o), u, h)
  <2>1. \A e \in EnvsOf("root") : Joins("and", u[e], x[e], y[e]) /\ (h[e] <=> h[e] \/ h[e])
    BY <1>1, <1>8
  <2>2. "and" \in Junctions
    BY DEF Junctions
  <2> QED BY <1>5, <1>7, <2>1, <2>2, JunctionFormOK DEF DerivedForm
<1>10. /\ u[Root] = True <=> x[Root] = True /\ y[Root] = True
       /\ u[Root] = False <=> x[Root] = False \/ y[Root] = False
  BY <1>8 DEF Joins
<1>11. /\ ~coll.reached => x[Root] = Err
       /\ coll.reached => /\ x[Root] = True <=> \E r \in coll.rows : vm[r] = True
                          /\ x[Root] = False <=> \A r \in coll.rows : vm[r] = False
  BY <1>3 DEF Ranges
<1>12. Derives(coll, u[Root], vm, v)
  BY <1>7, <1>10, <1>11, Constants DEF Total, Derives
<1>13. p # "positive" => KeepsDenial(DerivedForm(coll, m, f, o), MacroForm("exists", coll, m))
  BY <1>5, <1>7, FirstDenies DEF DerivedForm, Total
<1> QED BY <1>9, <1>12, <1>13

\* A related row whose filter did not err, under no polarity in particular.
LEMMA KnownRow ==
  ASSUME NEW s, s # "root", NEW f, NEW v, NEW g, Verdicts(s, v, g), FormOK(s, "unfixed", f, v, g),
         NEW r \in Rows, Tr(f.yes), ~f.nulls[r]
  PROVE  v[r] # Err
<1>1. EnvsOf(s) = Rows
  BY DEF EnvsOf
<1>2. f \in FormOn(Rows)
  BY <1>1 DEF FormOK
<1>3. Unfixed(f, v, g, r) /\ RowOK(f, g, r)
  BY <1>1, UnfixedIs
<1>4. f.yes.is[r] \in Tri
  BY <1>2, FormIs, FilterIs DEF Tr
<1>5. f.yes.is[r] # Err /\ ~f.macro /\ f.present[r]
  BY <1>3 DEF Unfixed, RowOK, HopsOK
<1>6. f.yes.is[r] = True => v[r] = True
  BY <1>3 DEF Unfixed, TrueSide
<1>7. f.yes.is[r] = False => v[r] = False
  BY <1>3, <1>5 DEF Unfixed, FalseSide
<1> QED BY <1>4, <1>5, <1>6, <1>7, Constants DEF Tri

\* Two conditions of a row that are not settled.
LEMMA BothRows ==
  ASSUME NEW E, NEW f \in FormOn(E), NEW k \in FormOn(E), f.const = Undefined, k.const = Undefined
  PROVE  LET m == JunctionForm("and", f, k) IN
         /\ m \in FormOn(E) /\ m.const = Undefined
         /\ \A e \in E : k.nulls[e] => m.nulls[e]
         /\ Tr(m.yes) => Tr(k.yes)
<1>1. "and" \in Junctions /\ Bool("and" = "or") = False /\ False # Undefined
  BY Constants DEF Junctions
<1>2. JunctionForm("and", f, k) = BuildJunction("and", f, k)
  BY <1>1 DEF JunctionForm
<1>3. LET b == BuildJunction("and", f, k) IN
      /\ b \in FormOn(E) /\ b.const = Undefined
      /\ \A e \in E : b.nulls[e] <=> f.nulls[e] \/ k.nulls[e]
      /\ b.yes = Join("and", f.yes, k.yes)
  BY <1>1, BuildJunctionIs
<1>4. f.yes \in FilterOn(E) /\ k.yes \in FilterOn(E)
  BY FormIs
<1>5. Tr(Join("and", f.yes, k.yes)) => Tr(k.yes)
  BY <1>1, <1>4, JoinIs
<1> QED BY <1>2, <1>3, <1>5

\* x in c.filter(v, P): what is proved of a list that was built is proved of the two conditions.
LEMMA FilteredDenial ==
  ASSUME NEW coll \in Collection, NEW s, s # "root", NEW f, NEW k, NEW v, NEW g, Verdicts(s, v, g),
         f \in FormOn(Rows), FormOK(s, "unfixed", k, v, g), f.const = Undefined, k.const = Undefined, NEW j,
         KeepsDenial(j, MacroForm("exists", coll, JunctionForm("and", f, k)))
  PROVE  /\ Tr(j.yes) \/ Tr(j.no) => j.macro
         /\ Tr(j.no) /\ j.no.is[Root] = True => coll.reached /\ \A r \in coll.rows : v[r] # Err
<1>1. coll.rows \subseteq Rows /\ EnvsOf(s) = Rows
  BY CollectionIs DEF EnvsOf
<1>2. k \in FormOn(Rows)
  BY <1>1 DEF FormOK
<1>3. PICK m : m = JunctionForm("and", f, k)
  OBVIOUS
<1>4. /\ m \in FormOn(Rows) /\ m.const = Undefined
      /\ \A e \in Rows : k.nulls[e] => m.nulls[e]
      /\ Tr(m.yes) => Tr(k.yes)
  BY <1>2, <1>3, BothRows
<1>5. PICK b : b = BuildMacro("exists", coll, m)
  OBVIOUS
<1>6. MacroForm("exists", coll, m) = b
  BY <1>4, <1>5 DEF MacroForm
<1>7. BuiltMacro(b, "exists", coll, m)
  BY <1>4, <1>5, BuildMacroIs
<1>8. /\ b.const = Undefined /\ b.macro
      /\ Tr(b.no) => Tr(m.yes)
      /\ Tr(b.no) /\ b.no.is[Root] = True => coll.reached /\ \A r \in coll.rows : ~m.nulls[r]
  BY <1>7 DEF BuiltMacro
<1>9. KeepsDenial(j, b)
  BY <1>3, <1>6
<1>10. /\ Tr(j.yes) \/ Tr(j.no) => j.macro
       /\ Tr(j.no) /\ j.no.is[Root] = True => Tr(b.no) /\ b.no.is[Root] = True
  BY <1>8, <1>9 DEF KeepsDenial
<1>11. ASSUME Tr(b.no), b.no.is[Root] = True, NEW r \in coll.rows PROVE v[r] # Err
  <2>1. Tr(k.yes) /\ ~k.nulls[r] /\ r \in Rows
    BY <1>1, <1>4, <1>8, <1>11
  <2> QED BY <2>1, KnownRow
<1> QED BY <1>8, <1>10, <1>11

\* The verdict of x in c.filter(v, P), of tests whose verdicts are v and predicates whose verdicts
\* are w.
Filtered(coll, u, v, w) ==
  /\ u \in Tri
  /\ u = True <=> /\ coll.reached /\ (\A r \in coll.rows : w[r] # Err)
                  /\ \E r \in coll.rows : v[r] = True /\ w[r] = True
  /\ u = False <=> /\ coll.reached /\ (\A r \in coll.rows : w[r] # Err)
                   /\ \A r \in coll.rows : v[r] # True \/ w[r] # True

\* InFilterNode
LEMMA InFilterFormOK ==
  ASSUME NEW coll \in Collection, NEW s, s # "root", NEW p \in Polarities,
         NEW fn, NEW v, NEW gn, FormsOK(s, v, gn, fn), fn["unfixed"].const = Undefined,
         NEW fm, NEW w, NEW gm, FormsOK(s, w, gm, fm), fm["unfixed"].const = Undefined,
         \A r \in Rows : v[r] = Err => gn[r],
         NEW odd \in SUBSET Disagreements,
         odd = {} => fn["negative"] = fn["unfixed"] /\ fm["negative"] = fm["unfixed"],
         NEW u, Filtered(coll, u[Root], v, w),
         NEW h, h[Root] <=> ~coll.reached \/ \E r \in coll.rows : gn[r] \/ gm[r]
  PROVE  FormOK("root", p, Odd(DerivedForm(coll, JunctionForm("and", fn[p], fm[p]), fm[p], fm[Opposite(p)]), odd), u, h)
<1>1. EnvsOf(s) = Rows /\ coll.rows \subseteq Rows /\ EnvsOf("root") = {Root} /\ "and" \in Junctions
  BY CollectionIs DEF EnvsOf, Junctions
<1>2. /\ v \in [Rows -> Tri] /\ gn \in [Rows -> BOOLEAN] /\ Verdicts(s, v, gn)
      /\ w \in [Rows -> Tri] /\ gm \in [Rows -> BOOLEAN] /\ Verdicts(s, w, gm)
  BY <1>1 DEF FormsOK, Verdicts
<1> DEFINE q == Opposite(p)
<1>3. PICK f, c, o : f = fm[p] /\ c = fn[p] /\ o = fm[q]
  OBVIOUS
<1>4. /\ FormOK(s, p, c, v, gn) /\ FormOK(s, p, f, w, gm)
      /\ FormOK(s, Opposite(p), o, w, gm) /\ FormOK(s, "unfixed", fm["unfixed"], w, gm)
  BY <1>3, OppositeIs DEF FormsOK, Polarities
<1>5. PICK x \in [Rows -> Tri] : \A r \in Rows : Joins("and", x[r], v[r], w[r])
  BY <1>1, <1>2, JunctionVerdict
<1>6. PICK k \in [Rows -> BOOLEAN] : \A r \in Rows : k[r] <=> gn[r] \/ gm[r]
  <2>1. [r \in Rows |-> gn[r] \/ gm[r]] \in [Rows -> BOOLEAN]
    OBVIOUS
  <2> QED BY <2>1
<1>7. PICK m : m = JunctionForm("and", c, f)
  OBVIOUS
<1>8. FormOK(s, p, m, x, k)
  BY <1>1, <1>4, <1>5, <1>6, <1>7, JunctionFormOK
<1>9. Verdicts(s, x, k)
  BY <1>1 DEF Verdicts
<1>10. ~coll.reached \/ (\E r \in coll.rows : k[r] \/ gm[r]) => h[Root]
  BY <1>1, <1>6
<1>11. PICK y \in [{Root} -> Tri] :
         /\ FormOK("root", p, DerivedForm(coll, m, f, o), y, h)
         /\ Derives(coll, y[Root], x, w)
         /\ p # "positive" => KeepsDenial(DerivedForm(coll, m, f, o), MacroForm("exists", coll, m))
  BY <1>2, <1>4, <1>8, <1>9, <1>10, DerivedOK
<1>12. PICK j : j = DerivedForm(coll, m, f, o)
  OBVIOUS
<1>13. FormOK("root", p, j, y, h) /\ (p # "positive" => KeepsDenial(j, MacroForm("exists", coll, m)))
  BY <1>11, <1>12
<1>14. u[Root] = True <=> y[Root] = True
  BY <1>1, <1>5, <1>11 DEF Derives, Filtered, Joins
<1>15. u[Root] = False /\ ~h[Root] => y[Root] = False
  BY <1>1, <1>2, <1>5, <1>11, Constants DEF Derives, Filtered, Joins, Tri
<1>16. ASSUME odd = {} PROVE FormOK("root", p, j, u, h)
  <2>1. CASE p = "positive"
    BY <1>1, <1>13, <1>14, <2>1, Refines
  <2>2. CASE p # "positive"
    <3>1. c = fn["unfixed"] /\ f = fm["unfixed"]
      BY <1>16, <1>3, <2>2 DEF Polarities
    <3>2. c \in FormOn(Rows) /\ c.const = Undefined /\ f.const = Undefined
      BY <1>1, <1>4, <3>1 DEF FormOK
    <3>3. FormOK(s, "unfixed", f, w, gm)
      BY <1>4, <3>1
    <3>4. KeepsDenial(j, MacroForm("exists", coll, JunctionForm("and", c, f)))
      BY <1>7, <1>13, <2>2
    <3>5. /\ Tr(j.yes) \/ Tr(j.no) => j.macro
          /\ Tr(j.no) /\ j.no.is[Root] = True => coll.reached /\ \A r \in coll.rows : w[r] # Err
      BY <1>2, <3>2, <3>3, <3>4, FilteredDenial, ZenonT(60)
    <3>6. /\ j \in FormOn({Root}) /\ ConstantOK(j, Root) /\ HopsOK(j, h, Root)
          /\ p # "negative" => TrueSide(j, y, h, Root)
          /\ FalseSide(j, y, h, Root)
      BY <1>1, <1>13, <2>2 DEF FormOK
    <3>7. p # "negative" => TrueSide(j, u, h, Root)
      BY <1>14, <3>6 DEF TrueSide
    <3>8. Tr(j.no) /\ j.no.is[Root] = True => u[Root] = False
      <4>1. ASSUME Tr(j.no), j.no.is[Root] = True PROVE u[Root] = False
        <5>1. y[Root] = False
          BY <3>6, <4>1 DEF FalseSide
        <5>2. coll.reached /\ (\A r \in coll.rows : w[r] # Err) /\ \A r \in coll.rows : x[r] = False
          BY <1>11, <3>5, <4>1, <5>1 DEF Derives
        <5>3. \A r \in coll.rows : v[r] # True \/ w[r] # True
          BY <1>1, <1>5, <5>2, Constants DEF Joins
        <5> QED BY <5>2, <5>3 DEF Filtered
      <4> QED BY <4>1
    <3>9. FalseSide(j, u, h, Root)
      BY <1>15, <3>5, <3>6, <3>8 DEF FalseSide
    <3> QED BY <1>1, <3>6, <3>7, <3>9 DEF FormOK
  <2> QED BY <2>1, <2>2
<1>17. ShapeOK("root", j, h)
  BY <1>13, ShapeOf
<1>18. FormOK("root", p, Odd(j, odd), u, h)
  BY <1>16, <1>17, OddOK
<1> QED BY <1>7, <1>12, <1>3, <1>18

-----------------------------------------------------------------------------
(* Nodes *)

\* A condition whose forms are right.
CondOK(n) == n.scope \in {"root", "row", "element"} /\ FormsOK(n.scope, n.cel, n.gap, n.form)

\* One that was read of the plan: what is not settled is no constant, and an equality errs only
\* where the row may be lost.
NodeOK(n) ==
  /\ CondOK(n)
  /\ n.form["unfixed"].const = Undefined
  /\ n.equality => \A e \in EnvsOf(n.scope) : n.cel[e] = Err => n.gap[e]

LEMMA CondIs ==
  ASSUME NEW n, CondOK(n)
  PROVE  /\ n.cel \in [EnvsOf(n.scope) -> Tri] /\ n.gap \in [EnvsOf(n.scope) -> BOOLEAN]
         /\ DOMAIN n.cel = EnvsOf(n.scope) /\ DOMAIN n.gap = EnvsOf(n.scope)
         /\ Verdicts(n.scope, n.cel, n.gap)
         /\ \A p \in Polarities : FormOK(n.scope, p, n.form[p], n.cel, n.gap)
BY DEF CondOK, FormsOK, Verdicts

\* A node that is no equality.
LEMMA NodeOf ==
  ASSUME NEW s \in {"root", "row", "element"}, NEW cel, NEW gap, NEW form, Verdicts(s, cel, gap),
         \A p \in Polarities : FormOK(s, p, form[p], cel, gap)
  PROVE  /\ CondOK(Node(s, cel, gap, form))
         /\ form["unfixed"].const = Undefined => NodeOK(Node(s, cel, gap, form))
<1>1. PICK n : n = Node(s, cel, gap, form)
  OBVIOUS
<1>2. n.scope = s /\ n.cel = cel /\ n.gap = gap /\ n.form = form /\ n.equality = FALSE
  BY <1>1 DEF Node
<1> QED BY <1>1, <1>2 DEF CondOK, NodeOK, FormsOK

LEMMA NotNodeOK ==
  ASSUME NEW n, NodeOK(n)
  PROVE  NodeOK(NotNode(n))
<1>1. PICK s : s = n.scope
  OBVIOUS
<1>2. PICK E : E = EnvsOf(s)
  OBVIOUS
<1>3. CondOK(n) /\ s \in {"root", "row", "element"} /\ n.form["unfixed"].const = Undefined
  BY <1>1 DEF NodeOK, CondOK
<1>4. /\ n.cel \in [E -> Tri] /\ n.gap \in [E -> BOOLEAN] /\ DOMAIN n.cel = E
      /\ Verdicts(s, n.cel, n.gap)
      /\ \A p \in Polarities : FormOK(s, p, n.form[p], n.cel, n.gap)
  BY <1>1, <1>2, <1>3, CondIs
<1>5. PICK w : w = [e \in E |-> Not(n.cel[e])]
  OBVIOUS
<1>6. w \in [E -> Tri] /\ \A e \in E : w[e] = Not(n.cel[e])
  BY <1>4, <1>5, NotIs
<1>7. PICK form : form = Nots(n.form)
  OBVIOUS
<1>8. \A p \in Polarities : form[p] = NotForm(n.form[Opposite(p)])
  BY <1>7 DEF Nots
<1>9. ASSUME NEW p \in Polarities PROVE FormOK(s, p, form[p], w, n.gap)
  <2>1. PICK f : f = n.form[Opposite(p)]
    OBVIOUS
  <2>2. FormOK(s, Opposite(p), f, n.cel, n.gap)
    BY <1>4, <2>1, OppositeIs
  <2>3. \A e \in EnvsOf(s) : w[e] = Not(n.cel[e])
    BY <1>2, <1>6
  <2>4. FormOK(s, p, NotForm(f), w, n.gap)
    BY <1>4, <2>2, <2>3, NegatedForm
  <2> QED BY <1>8, <2>1, <2>4
<1>10. Verdicts(s, w, n.gap)
  BY <1>2, <1>4, <1>6 DEF Verdicts
<1>11. form["unfixed"].const = Undefined
  <2>1. form["unfixed"] = NotForm(n.form["unfixed"])
    BY <1>8 DEF Polarities, Opposite
  <2>2. PICK f : f = n.form["unfixed"]
    OBVIOUS
  <2>3. f \in FormOn(E) /\ f.const = Undefined
    BY <1>2, <1>3, <1>4, <2>2 DEF Polarities, FormOK
  <2>4. NotForm(f).const = Undefined
    BY <2>3 DEF NotForm, FormOn
  <2> QED BY <2>1, <2>2, <2>4
<1>12. NotNode(n) = Node(s, w, n.gap, form)
  BY <1>1, <1>4, <1>5, <1>7 DEF NotNode
<1> QED BY <1>3, <1>9, <1>10, <1>11, <1>12, NodeOf

LEMMA JunctionNodeOK ==
  ASSUME NEW op \in Junctions, NEW n, NEW m, NodeOK(n), NodeOK(m), n.scope = m.scope
  PROVE  NodeOK(JunctionNode(op, n, m))
<1>1. PICK s : s = n.scope /\ s = m.scope
  OBVIOUS
<1>2. PICK E : E = EnvsOf(s)
  OBVIOUS
<1>3. /\ CondOK(n) /\ CondOK(m) /\ s \in {"root", "row", "element"}
      /\ n.form["unfixed"].const = Undefined /\ m.form["unfixed"].const = Undefined
  BY <1>1 DEF NodeOK, CondOK
<1>4. /\ n.cel \in [E -> Tri] /\ n.gap \in [E -> BOOLEAN] /\ DOMAIN n.cel = E /\ DOMAIN n.gap = E
      /\ \A p \in Polarities : FormOK(s, p, n.form[p], n.cel, n.gap)
  BY <1>1, <1>2, <1>3, CondIs
<1>5. /\ m.cel \in [E -> Tri] /\ m.gap \in [E -> BOOLEAN]
      /\ \A p \in Polarities : FormOK(s, p, m.form[p], m.cel, m.gap)
  BY <1>1, <1>2, <1>3, CondIs
<1>6. PICK w : w = [e \in E |-> Junction(op = "or", {n.cel[e], m.cel[e]})]
  OBVIOUS
<1>7. w \in [E -> Tri] /\ \A e \in E : Joins(op, w[e], n.cel[e], m.cel[e])
  <2>1. ASSUME NEW e \in E PROVE w[e] \in Tri /\ Joins(op, w[e], n.cel[e], m.cel[e])
    <3>1. w[e] = Junction(op = "or", {n.cel[e], m.cel[e]}) /\ n.cel[e] \in Tri /\ m.cel[e] \in Tri
      BY <1>4, <1>5, <1>6
    <3>2. Joins(op, Junction(op = "or", {n.cel[e], m.cel[e]}), n.cel[e], m.cel[e])
      BY <3>1, JunctionJoins
    <3>3. Joins(op, w[e], n.cel[e], m.cel[e])
      BY <3>1, <3>2
    <3> QED BY <3>3 DEF Joins
  <2> QED BY <1>6, <2>1
<1>8. PICK h : h = [e \in E |-> n.gap[e] \/ m.gap[e]]
  OBVIOUS
<1>9. h \in [E -> BOOLEAN] /\ \A e \in E : h[e] <=> n.gap[e] \/ m.gap[e]
  BY <1>8
<1>10. PICK form : form = JunctionsOf(op, n.form, m.form)
  OBVIOUS
<1>11. \A p \in Polarities : form[p] = JunctionForm(op, n.form[p], m.form[p])
  BY <1>10 DEF JunctionsOf
<1>12. ASSUME NEW p \in Polarities PROVE FormOK(s, p, form[p], w, h)
  <2>1. PICK f, g : f = n.form[p] /\ g = m.form[p]
    OBVIOUS
  <2>2. FormOK(s, p, f, n.cel, n.gap) /\ FormOK(s, p, g, m.cel, m.gap)
    BY <1>4, <1>5, <2>1
  <2>3. \A e \in EnvsOf(s) : Joins(op, w[e], n.cel[e], m.cel[e]) /\ (h[e] <=> n.gap[e] \/ m.gap[e])
    BY <1>2, <1>7, <1>9
  <2>4. FormOK(s, p, JunctionForm(op, f, g), w, h)
    BY <2>2, <2>3, JunctionFormOK
  <2> QED BY <1>11, <2>1, <2>4
<1>13. Verdicts(s, w, h)
  BY <1>2, <1>7, <1>9 DEF Verdicts
<1>14. form["unfixed"].const = Undefined
  <2>1. PICK f, g : f = n.form["unfixed"] /\ g = m.form["unfixed"]
    OBVIOUS
  <2>2. form["unfixed"] = JunctionForm(op, f, g)
    BY <1>11, <2>1 DEF Polarities
  <2>3. f \in FormOn(E) /\ g \in FormOn(E) /\ f.const = Undefined /\ g.const = Undefined
    BY <1>2, <1>3, <1>4, <1>5, <2>1 DEF Polarities, FormOK
  <2>4. JunctionForm(op, f, g) = BuildJunction(op, f, g)
    BY <2>3, BoolIs, Constants DEF JunctionForm, Tri
  <2>5. BuildJunction(op, f, g).const = Undefined
    BY <2>3, BuildJunctionIs
  <2> QED BY <2>2, <2>4, <2>5
<1>15. JunctionNode(op, n, m) = Node(s, w, h, form)
  BY <1>1, <1>4, <1>6, <1>8, <1>10 DEF JunctionNode
<1> QED BY <1>3, <1>12, <1>13, <1>14, <1>15, NodeOf

LEMMA ConstantNodeOK ==
  ASSUME NEW s \in {"root", "row", "element"}, NEW b \in BOOLEAN
  PROVE  CondOK(ConstantNode(s, b)) /\ ConstantNode(s, b).scope = s
<1>1. PICK E : E = EnvsOf(s)
  OBVIOUS
<1>2. PICK x \in {True, False} : x = Bool(b)
  BY BoolIs, Constants
<1>3. PICK w : w = [e \in E |-> x]
  OBVIOUS
<1>4. PICK g : g = [e \in E |-> FALSE]
  OBVIOUS
<1>5. /\ w \in [E -> Tri] /\ g \in [E -> BOOLEAN]
      /\ \A e \in E : w[e] = x /\ ~g[e]
  BY <1>2, <1>3, <1>4 DEF Tri
<1>6. PICK f : f = Constant(E, x, {})
  OBVIOUS
<1>7. ShapeOK(s, f, g) /\ f.const = x /\ f.const # Undefined
  <2>1. f = Constant(EnvsOf(s), x, {}) /\ {} \in SUBSET Disagreements
    BY <1>1, <1>6
  <2> QED BY <2>1, ConstantShape
<1>8. ASSUME NEW p \in Polarities PROVE FormOK(s, p, f, w, g)
  <2>1. \A e \in EnvsOf(s) : w[e] = f.const
    BY <1>1, <1>5, <1>7
  <2> QED BY <1>7, <2>1, Constants, ConstantForm
<1>9. PICK form : form = [p \in Polarities |-> f]
  OBVIOUS
<1>10. \A p \in Polarities : FormOK(s, p, form[p], w, g)
  BY <1>8, <1>9
<1>11. Verdicts(s, w, g)
  BY <1>1, <1>5 DEF Verdicts
<1>12. CondOK(Node(s, w, g, form))
  BY <1>10, <1>11, NodeOf
<1>13. ConstantNode(s, b) = Node(s, w, g, form)
  BY <1>1, <1>2, <1>3, <1>4, <1>6, <1>9 DEF ConstantNode, EnvsOf
<1>14. Node(s, w, g, form).scope = s
  BY DEF Node
<1> QED BY <1>12, <1>13, <1>14

LEMMA IfChooses ==
  ASSUME NEW c \in Tri, NEW a \in Tri, NEW b \in Tri
  PROVE  Chooses(IfThenElse(c, a, b), c, a, b)
BY IfThenElseIs DEF Chooses

LEMMA TernaryNodeOK ==
  ASSUME NEW c, NEW a, NEW b, NodeOK(c), CondOK(a), CondOK(b), a.scope = c.scope, b.scope = c.scope
  PROVE  NodeOK(TernaryNode(c, a, b))
<1>1. PICK s : s = c.scope /\ s = a.scope /\ s = b.scope
  OBVIOUS
<1>2. PICK E : E = EnvsOf(s)
  OBVIOUS
<1>3. CondOK(c) /\ s \in {"root", "row", "element"}
  BY <1>1 DEF NodeOK, CondOK
<1>4. /\ c.cel \in [E -> Tri] /\ c.gap \in [E -> BOOLEAN] /\ DOMAIN c.cel = E /\ DOMAIN c.gap = E
      /\ \A p \in Polarities : FormOK(s, p, c.form[p], c.cel, c.gap)
  BY <1>1, <1>2, <1>3, CondIs
<1>5. /\ a.cel \in [E -> Tri] /\ a.gap \in [E -> BOOLEAN]
      /\ \A p \in Polarities : FormOK(s, p, a.form[p], a.cel, a.gap)
  BY <1>1, <1>2, CondIs
<1>6. /\ b.cel \in [E -> Tri] /\ b.gap \in [E -> BOOLEAN]
      /\ \A p \in Polarities : FormOK(s, p, b.form[p], b.cel, b.gap)
  BY <1>1, <1>2, CondIs
<1>7. PICK w : w = [e \in E |-> IfThenElse(c.cel[e], a.cel[e], b.cel[e])]
  OBVIOUS
<1>8. \A e \in E : Chooses(w[e], c.cel[e], a.cel[e], b.cel[e])
  BY <1>4, <1>5, <1>6, <1>7, IfChooses
<1>9. w \in [E -> Tri]
  BY <1>7, <1>8 DEF Chooses
<1>10. PICK h : h = [e \in E |-> c.gap[e] \/ a.gap[e] \/ b.gap[e]]
  OBVIOUS
<1>11. h \in [E -> BOOLEAN] /\ \A e \in E : h[e] <=> c.gap[e] \/ a.gap[e] \/ b.gap[e]
  BY <1>10
<1>12. PICK x, y, z : x = c.form["unfixed"] /\ y = a.form["unfixed"] /\ z = b.form["unfixed"]
  OBVIOUS
<1>13. FormOK(s, "unfixed", x, c.cel, c.gap) /\ FormOK(s, "unfixed", y, a.cel, a.gap)
       /\ FormOK(s, "unfixed", z, b.cel, b.gap)
  BY <1>4, <1>5, <1>6, <1>12 DEF Polarities
<1>14. \A e \in EnvsOf(s) : /\ Chooses(w[e], c.cel[e], a.cel[e], b.cel[e])
                            /\ h[e] <=> c.gap[e] \/ a.gap[e] \/ b.gap[e]
  BY <1>2, <1>8, <1>11
<1>15. PICK f : f = TernaryForm(x, y, z)
  OBVIOUS
<1>16. f.const = Undefined /\ \A p : FormOK(s, p, f, w, h)
  <2>1. ASSUME NEW p PROVE FormOK(s, p, TernaryForm(x, y, z), w, h) /\ TernaryForm(x, y, z).const = Undefined
    BY <1>13, <1>14, TernaryFormOK
  <2> QED BY <1>15, <2>1
<1>17. PICK form : form = [p \in Polarities |-> f]
  OBVIOUS
<1>18. /\ \A p \in Polarities : FormOK(s, p, form[p], w, h)
       /\ form["unfixed"].const = Undefined
  BY <1>16, <1>17 DEF Polarities
<1>19. Verdicts(s, w, h)
  BY <1>2, <1>9, <1>11 DEF Verdicts
<1>20. TernaryNode(c, a, b) = Node(s, w, h, form)
  BY <1>1, <1>4, <1>7, <1>10, <1>12, <1>15, <1>17 DEF TernaryNode
<1> QED BY <1>3, <1>18, <1>19, <1>20, NodeOf

\* A branch of a compared conditional.
BranchOK(a) ==
  /\ a.cel \in Tri /\ a.gap \in BOOLEAN
  /\ FormOK("root", "unfixed", a.form, [e \in {Root} |-> a.cel], [e \in {Root} |-> a.gap])

LEMMA ComparedTernaryNodeOK ==
  ASSUME NEW c, NEW a, NEW b, NodeOK(c), c.scope = "root", BranchOK(a), BranchOK(b)
  PROVE  NodeOK(ComparedTernaryNode(c, a, b))
<1>1. CondOK(c) /\ EnvsOf("root") = {Root}
  BY DEF NodeOK, EnvsOf
<1>2. /\ c.cel \in [{Root} -> Tri] /\ c.gap \in [{Root} -> BOOLEAN]
      /\ \A p \in Polarities : FormOK("root", p, c.form[p], c.cel, c.gap)
  BY <1>1, CondIs
<1>3. PICK va, vb : va = [e \in {Root} |-> a.cel] /\ vb = [e \in {Root} |-> b.cel]
  OBVIOUS
<1>4. PICK ga, gb : ga = [e \in {Root} |-> a.gap] /\ gb = [e \in {Root} |-> b.gap]
  OBVIOUS
<1>5. /\ va[Root] = a.cel /\ vb[Root] = b.cel /\ a.cel \in Tri /\ b.cel \in Tri
      /\ (ga[Root] <=> a.gap) /\ (gb[Root] <=> b.gap) /\ a.gap \in BOOLEAN /\ b.gap \in BOOLEAN
  BY <1>3, <1>4 DEF BranchOK
<1>6. PICK w : w = [e \in {Root} |-> IfThenElse(c.cel[e], a.cel, b.cel)]
  OBVIOUS
<1>7. Chooses(w[Root], c.cel[Root], va[Root], vb[Root])
  <2>1. w[Root] = IfThenElse(c.cel[Root], a.cel, b.cel) /\ c.cel[Root] \in Tri
    BY <1>2, <1>6
  <2>2. Chooses(IfThenElse(c.cel[Root], a.cel, b.cel), c.cel[Root], a.cel, b.cel)
    BY <1>5, <2>1, IfChooses
  <2> QED BY <1>5, <2>1, <2>2
<1>8. PICK h : h = [e \in {Root} |-> c.gap[e] \/ a.gap \/ b.gap]
  OBVIOUS
<1>9. h \in [{Root} -> BOOLEAN] /\ (h[Root] <=> c.gap[Root] \/ ga[Root] \/ gb[Root])
  BY <1>2, <1>5, <1>8
<1>10. PICK x, y, z : x = c.form["unfixed"] /\ y = a.form /\ z = b.form
  OBVIOUS
<1>11. FormOK("root", "unfixed", x, c.cel, c.gap)
  BY <1>2, <1>10 DEF Polarities
<1>12. FormOK("root", "unfixed", y, va, ga) /\ FormOK("root", "unfixed", z, vb, gb)
  BY <1>3, <1>4, <1>10 DEF BranchOK
<1>13. \A e \in {Root} : /\ Chooses(w[e], c.cel[e], va[e], vb[e])
                         /\ h[e] <=> c.gap[e] \/ ga[e] \/ gb[e]
  BY <1>7, <1>9
<1>14. PICK f : f = ComparedTernaryForm(x, y, z)
  OBVIOUS
<1>15. f.const = Undefined /\ \A p : FormOK("root", p, f, w, h)
  <2>1. ASSUME NEW p
        PROVE  FormOK("root", p, ComparedTernaryForm(x, y, z), w, h) /\ ComparedTernaryForm(x, y, z).const = Undefined
    BY <1>11, <1>12, <1>13, ComparedTernaryFormOK
  <2> QED BY <1>14, <2>1
<1>16. PICK form : form = [p \in Polarities |-> f]
  OBVIOUS
<1>17. /\ \A p \in Polarities : FormOK("root", p, form[p], w, h)
       /\ form["unfixed"].const = Undefined
  BY <1>15, <1>16 DEF Polarities
<1>18. Verdicts("root", w, h)
  <2>1. w \in [{Root} -> Tri]
    BY <1>6, <1>7 DEF Chooses
  <2> QED BY <1>1, <1>9, <2>1 DEF Verdicts
<1>19. ComparedTernaryNode(c, a, b) = Node("root", w, h, form)
  BY <1>6, <1>8, <1>10, <1>14, <1>16 DEF ComparedTernaryNode
<1> QED BY <1>17, <1>18, <1>19, NodeOf

\* What is built of conditions that are not constant is none.
Built(f, E) == f \in FormOn(E) /\ f.const = Undefined

LEMMA BuiltNot == \A f, E : Built(f, E) => Built(NotForm(f), E)
<1> SUFFICES ASSUME NEW f, NEW E, f \in FormOn(E), f.const = Undefined
             PROVE  NotForm(f) \in FormOn(E) /\ NotForm(f).const = Undefined
  BY DEF Built
<1> QED BY DEF NotForm, FormOn

LEMMA BuiltBy ==
  ASSUME NEW op \in Junctions, NEW E, NEW f, NEW g, Built(f, E), Built(g, E)
  PROVE  Built(JunctionForm(op, f, g), E)
<1>1. f \in FormOn(E) /\ g \in FormOn(E) /\ f.const = Undefined /\ g.const = Undefined
  BY DEF Built
<1>2. JunctionForm(op, f, g) = BuildJunction(op, f, g)
  BY <1>1, BoolIs, Constants DEF JunctionForm, Tri
<1>3. BuildJunction(op, f, g) \in FormOn(E) /\ BuildJunction(op, f, g).const = Undefined
  BY <1>1, BuildJunctionIs
<1> QED BY <1>2, <1>3 DEF Built

LEMMA BuiltOver ==
  ASSUME NEW op \in {"exists", "all"}, NEW coll \in Collection, NEW f, Built(f, Rows)
  PROVE  Built(MacroForm(op, coll, f), {Root})
<1>1. f \in FormOn(Rows) /\ f.const = Undefined
  BY DEF Built
<1>2. MacroForm(op, coll, f) = BuildMacro(op, coll, f)
  BY <1>1 DEF MacroForm
<1>3. PICK b : b = BuildMacro(op, coll, f)
  OBVIOUS
<1>4. BuiltMacro(b, op, coll, f)
  BY <1>1, <1>3, BuildMacroIs
<1> QED BY <1>2, <1>3, <1>4 DEF Built, BuiltMacro

LEMMA BuiltList ==
  ASSUME NEW coll \in Collection, NEW m, NEW f, Built(m, Rows), Built(f, Rows)
  PROVE  Built(DerivedForm(coll, m, f, f), {Root})
<1>1. "and" \in Junctions /\ "or" \in Junctions
  BY DEF Junctions
<1>2. Built(JunctionForm("or", f, NotForm(f)), Rows)
  BY <1>1, BuiltNot, BuiltBy
<1>3. Built(MacroForm("exists", coll, m), {Root}) /\ Built(MacroForm("all", coll, JunctionForm("or", f, NotForm(f))), {Root})
  BY <1>2, BuiltOver
<1> QED BY <1>1, <1>3, BuiltBy DEF DerivedForm

\* The operands of a macro.
LEMMA RowNode ==
  ASSUME NEW n, NodeOK(n), n.scope # "root"
  PROVE  /\ FormsOK(n.scope, n.cel, n.gap, n.form) /\ Verdicts(n.scope, n.cel, n.gap)
         /\ \A p \in Polarities : FormOK(n.scope, p, n.form[p], n.cel, n.gap)
         /\ n.cel \in [Rows -> Tri] /\ n.gap \in [Rows -> BOOLEAN]
         /\ Built(n.form["unfixed"], Rows)
         /\ n.equality => \A r \in Rows : n.cel[r] = Err => n.gap[r]
<1>1. EnvsOf(n.scope) = Rows /\ CondOK(n) /\ n.form["unfixed"].const = Undefined
  BY DEF EnvsOf, NodeOK
<1>2. /\ FormsOK(n.scope, n.cel, n.gap, n.form) /\ Verdicts(n.scope, n.cel, n.gap)
      /\ \A p \in Polarities : FormOK(n.scope, p, n.form[p], n.cel, n.gap)
      /\ n.cel \in [Rows -> Tri] /\ n.gap \in [Rows -> BOOLEAN]
  BY <1>1, CondIs DEF CondOK
<1>3. n.form["unfixed"] \in FormOn(Rows)
  BY <1>1, <1>2 DEF Polarities, FormOK
<1>4. n.equality => \A r \in Rows : n.cel[r] = Err => n.gap[r]
  BY <1>1 DEF NodeOK
<1> QED BY <1>1, <1>2, <1>3, <1>4 DEF Built

\* Where a macro may lose its row.
MacroGap(coll, bodies) == [e \in {Root} |-> ~coll.reached \/ \E r \in coll.rows, n \in bodies : n.gap[r]]

LEMMA MacroGapIs ==
  ASSUME NEW coll, NEW bodies
  PROVE  /\ MacroGap(coll, bodies) \in [{Root} -> BOOLEAN]
         /\ MacroGap(coll, bodies)[Root] <=> ~coll.reached \/ \E r \in coll.rows : \E n \in bodies : n.gap[r]
BY DEF MacroGap

\* A macro whose forms are right.
LEMMA MacroNodeOK ==
  ASSUME NEW coll, NEW bodies, NEW cel, NEW form, NEW w \in [{Root} -> Tri], NEW h,
         h = MacroGap(coll, bodies),
         w = [e \in {Root} |-> IF coll.reached THEN cel ELSE Err],
         \A p \in Polarities : FormOK("root", p, form[p], w, h), Built(form["unfixed"], {Root})
  PROVE  NodeOK(MacroNode(coll, bodies, cel, form))
<1>1. MacroNode(coll, bodies, cel, form) = Node("root", w, h, form)
  BY DEF MacroNode, MacroGap
<1>2. Verdicts("root", w, h)
  BY MacroGapIs DEF Verdicts, EnvsOf
<1> QED BY <1>1, <1>2, NodeOf DEF Built

LEMMA QuantifierNodeOK ==
  ASSUME NEW op \in {"exists", "all"}, NEW coll \in Collection, NEW n, NodeOK(n), n.scope # "root"
  PROVE  NodeOK(QuantifierNode(op, coll, n))
<1>1. /\ Verdicts(n.scope, n.cel, n.gap)
      /\ \A p \in Polarities : FormOK(n.scope, p, n.form[p], n.cel, n.gap)
      /\ n.cel \in [Rows -> Tri] /\ Built(n.form["unfixed"], Rows)
  BY RowNode
<1>2. PICK S : S = Says(coll, n)
  OBVIOUS
<1>3. S = {n.cel[r] : r \in coll.rows} /\ S \subseteq Tri
  BY <1>1, <1>2, CollectionIs DEF Says
<1>4. PICK x : x = Junction(op = "exists", S)
  OBVIOUS
<1>5. /\ x \in Tri
      /\ op = "exists" => /\ x = True <=> \E r \in coll.rows : n.cel[r] = True
                          /\ x = False <=> \A r \in coll.rows : n.cel[r] = False
      /\ op = "all" => /\ x = True <=> \A r \in coll.rows : n.cel[r] = True
                       /\ x = False <=> \E r \in coll.rows : n.cel[r] = False
  <2>1. CASE op = "exists"
    <3>1. x = Or(S)
      BY <1>4, <2>1 DEF Or
    <3> QED BY <1>3, <2>1, <3>1, OrIs
  <2>2. CASE op = "all"
    <3>1. x = And(S)
      BY <1>4, <2>2 DEF And
    <3> QED BY <1>3, <2>2, <3>1, AndIs
  <2> QED BY <2>1, <2>2
<1>6. PICK w : w = [e \in {Root} |-> IF coll.reached THEN x ELSE Err]
  OBVIOUS
<1>7. w \in [{Root} -> Tri] /\ w[Root] = IF coll.reached THEN x ELSE Err
  BY <1>5, <1>6 DEF Tri
<1>8. Ranges(op, coll, w[Root], n.cel)
  BY <1>5, <1>7 DEF Ranges, Tri
<1>9. PICK h : h = MacroGap(coll, {n})
  OBVIOUS
<1>10. ~coll.reached \/ (\E r \in coll.rows : n.gap[r]) => h[Root]
  BY <1>9, MacroGapIs
<1>11. PICK form : form = MacrosOf(op, coll, n.form)
  OBVIOUS
<1>12. \A p \in Polarities : form[p] = MacroForm(op, coll, n.form[p])
  BY <1>11 DEF MacrosOf
<1>13. ASSUME NEW p \in Polarities PROVE FormOK("root", p, form[p], w, h)
  <2>1. PICK f : f = n.form[p]
    OBVIOUS
  <2>2. FormOK(n.scope, p, f, n.cel, n.gap)
    BY <1>1, <2>1
  <2>3. FormOK("root", p, MacroForm(op, coll, f), w, h)
    BY <1>1, <1>8, <1>10, <2>2, MacroOK
  <2> QED BY <1>12, <2>1, <2>3
<1>14. Built(form["unfixed"], {Root})
  BY <1>1, <1>12, BuiltOver DEF Polarities
<1>15. NodeOK(MacroNode(coll, {n}, x, form))
  BY <1>6, <1>7, <1>9, <1>13, <1>14, MacroNodeOK
<1> QED BY <1>2, <1>4, <1>11, <1>15 DEF QuantifierNode

\* DerivedList, polarity by polarity.
LEMMA DerivedListIs ==
  ASSUME NEW coll, NEW m, NEW f, NEW p \in Polarities
  PROVE  DerivedList(coll, m, f)[p] = DerivedForm(coll, m[p], f[p], f[Opposite(p)])
BY OppositeIs DEF DerivedList, DerivedForm, JunctionsOf, MacrosOf, Nots

LEMMA MappedNodeOK ==
  ASSUME NEW coll \in Collection, NEW n, NodeOK(n), n.scope # "root"
  PROVE  NodeOK(MappedNode(coll, n))
<1>1. /\ Verdicts(n.scope, n.cel, n.gap)
      /\ \A p \in Polarities : FormOK(n.scope, p, n.form[p], n.cel, n.gap)
      /\ n.cel \in [Rows -> Tri] /\ Built(n.form["unfixed"], Rows)
  BY RowNode
<1>2. PICK S : S = Says(coll, n)
  OBVIOUS
<1>3. S = {n.cel[r] : r \in coll.rows} /\ coll.rows \subseteq Rows
  BY <1>2, CollectionIs DEF Says
<1>4. PICK x : x = IF Err \in S THEN Err ELSE Bool(True \in S)
  OBVIOUS
<1>5. /\ x \in Tri
      /\ x = True <=> (\E r \in coll.rows : n.cel[r] = True) /\ \A r \in coll.rows : n.cel[r] # Err
      /\ x = False <=> \A r \in coll.rows : n.cel[r] = False
  <2>1. \A r \in coll.rows : n.cel[r] \in S /\ n.cel[r] \in Tri
    BY <1>1, <1>3
  <2>2. Err \in S <=> \E r \in coll.rows : n.cel[r] = Err
    BY <1>3
  <2>3. True \in S <=> \E r \in coll.rows : n.cel[r] = True
    BY <1>3
  <2>4. CASE Err \in S
    BY <1>4, <2>2, <2>4, Constants DEF Tri
  <2>5. CASE Err \notin S
    <3>1. (x = True <=> True \in S) /\ (x = False <=> True \notin S) /\ x \in Tri
      <4>1. x = Bool(True \in S)
        BY <1>4, <2>5
      <4>2. CASE True \in S
        BY <4>1, <4>2, Constants DEF Bool, Tri
      <4>3. CASE True \notin S
        BY <4>1, <4>3, Constants DEF Bool, Tri
      <4> QED BY <4>2, <4>3
    <3>2. (\A r \in coll.rows : n.cel[r] = False) <=> True \notin S
      BY <2>1, <2>2, <2>3, <2>5, Constants DEF Tri
    <3> QED BY <2>2, <2>3, <2>5, <3>1, <3>2
  <2> QED BY <2>4, <2>5
<1>6. PICK w : w = [e \in {Root} |-> IF coll.reached THEN x ELSE Err]
  OBVIOUS
<1>7. w \in [{Root} -> Tri] /\ w[Root] = IF coll.reached THEN x ELSE Err
  BY <1>5, <1>6 DEF Tri
<1>8. PICK h : h = MacroGap(coll, {n})
  OBVIOUS
<1>9. ~coll.reached \/ (\E r \in coll.rows : n.gap[r] \/ n.gap[r]) => h[Root]
  BY <1>8, MacroGapIs
<1>10. PICK form : form = DerivedList(coll, n.form, n.form)
  OBVIOUS
<1>11. ASSUME NEW p \in Polarities PROVE FormOK("root", p, form[p], w, h)
  <2>1. PICK f, o : f = n.form[p] /\ o = n.form[Opposite(p)]
    OBVIOUS
  <2>2. FormOK(n.scope, p, f, n.cel, n.gap) /\ FormOK(n.scope, Opposite(p), o, n.cel, n.gap)
    BY <1>1, <2>1, OppositeIs
  <2>3. PICK y \in [{Root} -> Tri] :
          FormOK("root", p, DerivedForm(coll, f, f, o), y, h) /\ Derives(coll, y[Root], n.cel, n.cel)
    BY <1>1, <1>9, <2>2, DerivedOK
  <2>4. form[p] = DerivedForm(coll, f, f, o)
    BY <1>10, <2>1, DerivedListIs
  <2>5. (y[Root] = True <=> w[Root] = True) /\ (y[Root] = False <=> w[Root] = False)
    BY <1>5, <1>7, <2>3, Constants DEF Derives
  <2> QED BY <2>3, <2>4, <2>5, Refines DEF EnvsOf
<1>12. Built(form["unfixed"], {Root})
  <2>1. form["unfixed"] = DerivedForm(coll, n.form["unfixed"], n.form["unfixed"], n.form["unfixed"])
    BY <1>10, DerivedListIs DEF Polarities, Opposite
  <2> QED BY <1>1, <2>1, BuiltList
<1>13. NodeOK(MacroNode(coll, {n}, x, form))
  BY <1>6, <1>7, <1>8, <1>11, <1>12, MacroNodeOK
<1> QED BY <1>2, <1>4, <1>10, <1>13 DEF MappedNode

LEMMA BuiltOdd ==
  ASSUME NEW E, NEW f, Built(f, E), NEW odd \in SUBSET Disagreements
  PROVE  Built(Odd(f, odd), E)
<1>1. f \in FormOn(E) /\ f.const = Undefined
  BY DEF Built
<1> DEFINE o == Odd(f, odd)
<1>2. /\ o \in FormOn(E)
      /\ o.const = f.const /\ o.macro = f.macro /\ o.hopped = f.hopped
      /\ o.present = f.present /\ o.nulls = f.nulls
      /\ o.yes = [f.yes EXCEPT !.odd = @ \union odd] /\ o.no = [f.no EXCEPT !.odd = @ \union odd]
  BY <1>1, OddIs
<1> QED BY <1>1, <1>2 DEF Built

LEMMA InFilterNodeOK ==
  ASSUME NEW coll \in Collection, NEW n, NEW m, NodeOK(n), NodeOK(m), n.scope = "element", m.scope = n.scope,
         n.equality
  PROVE  NodeOK(InFilterNode(coll, n, m))
<1>1. PICK s : s = n.scope /\ s = m.scope /\ s # "root"
  OBVIOUS
<1>2. /\ FormsOK(s, n.cel, n.gap, n.form) /\ Built(n.form["unfixed"], Rows)
      /\ \A r \in Rows : n.cel[r] = Err => n.gap[r]
      /\ n.cel \in [Rows -> Tri]
  BY <1>1, RowNode
<1>3. /\ FormsOK(s, m.cel, m.gap, m.form) /\ Built(m.form["unfixed"], Rows)
      /\ m.cel \in [Rows -> Tri]
  BY <1>1, RowNode
<1>4. PICK x : x = IF \E y \in Says(coll, m) : AsBoolean(y) = Err THEN Err
                   ELSE Bool(\E r \in coll.rows : n.cel[r] = True /\ m.cel[r] = True)
  OBVIOUS
<1>5. /\ x \in Tri
      /\ x = True <=> /\ \A r \in coll.rows : m.cel[r] # Err
                      /\ \E r \in coll.rows : n.cel[r] = True /\ m.cel[r] = True
      /\ x = False <=> /\ \A r \in coll.rows : m.cel[r] # Err
                       /\ \A r \in coll.rows : n.cel[r] # True \/ m.cel[r] # True
  <2>1. \A r \in coll.rows : m.cel[r] \in Tri
    BY <1>3, CollectionIs
  <2>2. (\E y \in Says(coll, m) : AsBoolean(y) = Err) <=> \E r \in coll.rows : m.cel[r] = Err
    <3>1. \A r \in coll.rows : AsBoolean(m.cel[r]) = m.cel[r]
      BY <2>1, Outcome
    <3>2. \A y : y \in Says(coll, m) <=> \E r \in coll.rows : y = m.cel[r]
      BY DEF Says
    <3> QED BY <3>1, <3>2
  <2>3. CASE \E r \in coll.rows : m.cel[r] = Err
    BY <1>4, <2>2, <2>3, Constants DEF Tri
  <2>4. CASE \A r \in coll.rows : m.cel[r] # Err
    <3>1. x = Bool(\E r \in coll.rows : n.cel[r] = True /\ m.cel[r] = True)
      BY <1>4, <2>2, <2>4
    <3>2. CASE \E r \in coll.rows : n.cel[r] = True /\ m.cel[r] = True
      <4>1. x = True
        BY <3>1, <3>2 DEF Bool
      <4> QED BY <2>4, <3>2, <4>1, Constants DEF Tri
    <3>3. CASE \A r \in coll.rows : n.cel[r] # True \/ m.cel[r] # True
      <4>1. x = False
        BY <3>1, <3>3 DEF Bool
      <4> QED BY <2>4, <3>3, <4>1, Constants DEF Tri
    <3> QED BY <3>2, <3>3
  <2> QED BY <2>3, <2>4
<1>6. PICK w : w = [e \in {Root} |-> IF coll.reached THEN x ELSE Err]
  OBVIOUS
<1>7. w \in [{Root} -> Tri] /\ w[Root] = IF coll.reached THEN x ELSE Err
  BY <1>5, <1>6 DEF Tri
<1>8. Filtered(coll, w[Root], n.cel, m.cel)
  BY <1>5, <1>7, Constants DEF Filtered, Tri
<1>9. PICK h : h = MacroGap(coll, {n, m})
  OBVIOUS
<1>10. h[Root] <=> ~coll.reached \/ \E r \in coll.rows : n.gap[r] \/ m.gap[r]
  BY <1>9, MacroGapIs
<1>11. PICK odd : odd = {t \in {"filteredError"} : \E o \in {n, m} : o.form["negative"] # o.form["unfixed"]}
  OBVIOUS
<1>12. /\ odd \in SUBSET Disagreements
       /\ odd = {} => n.form["negative"] = n.form["unfixed"] /\ m.form["negative"] = m.form["unfixed"]
  BY <1>11 DEF Disagreements
<1>13. PICK fs : fs = DerivedList(coll, JunctionsOf("and", n.form, m.form), m.form)
  OBVIOUS
<1>14. ASSUME NEW p \in Polarities
       PROVE  fs[p] = DerivedForm(coll, JunctionForm("and", n.form[p], m.form[p]), m.form[p], m.form[Opposite(p)])
  <2>1. JunctionsOf("and", n.form, m.form)[p] = JunctionForm("and", n.form[p], m.form[p])
    BY DEF JunctionsOf
  <2> QED BY <1>13, <2>1, DerivedListIs
<1>15. PICK form : form = [p \in Polarities |-> Odd(fs[p], odd)]
  OBVIOUS
<1>16. ASSUME NEW p \in Polarities PROVE FormOK("root", p, form[p], w, h)
  <2>1. PICK fn, fm : fn = n.form /\ fm = m.form
    OBVIOUS
  <2>2. PICK v, u, gn, gm : v = n.cel /\ u = m.cel /\ gn = n.gap /\ gm = m.gap
    OBVIOUS
  <2>3. /\ FormsOK(s, v, gn, fn) /\ fn["unfixed"].const = Undefined /\ \A r \in Rows : v[r] = Err => gn[r]
        /\ FormsOK(s, u, gm, fm) /\ fm["unfixed"].const = Undefined
    BY <1>2, <1>3, <2>1, <2>2 DEF Built
  <2>4. odd = {} => fn["negative"] = fn["unfixed"] /\ fm["negative"] = fm["unfixed"]
    BY <1>12, <2>1
  <2>5. Filtered(coll, w[Root], v, u) /\ (h[Root] <=> ~coll.reached \/ \E r \in coll.rows : gn[r] \/ gm[r])
    BY <1>8, <1>10, <2>2
  <2>6. FormOK("root", p, Odd(DerivedForm(coll, JunctionForm("and", fn[p], fm[p]), fm[p], fm[Opposite(p)]), odd), w, h)
    BY <1>1, <1>12, <2>3, <2>4, <2>5, InFilterFormOK
  <2>7. form[p] = Odd(DerivedForm(coll, JunctionForm("and", fn[p], fm[p]), fm[p], fm[Opposite(p)]), odd)
    BY <1>14, <1>15, <2>1
  <2> QED BY <2>6, <2>7
<1>17. Built(form["unfixed"], {Root})
  <2>1. PICK f, g : f = n.form["unfixed"] /\ g = m.form["unfixed"]
    OBVIOUS
  <2>2. fs["unfixed"] = DerivedForm(coll, JunctionForm("and", f, g), g, g)
    BY <1>14, <2>1 DEF Polarities, Opposite
  <2>3. Built(JunctionForm("and", f, g), Rows) /\ Built(g, Rows)
    BY <1>2, <1>3, <2>1, BuiltBy DEF Junctions
  <2>4. Built(fs["unfixed"], {Root})
    BY <2>2, <2>3, BuiltList
  <2>5. form["unfixed"] = Odd(fs["unfixed"], odd)
    BY <1>15 DEF Polarities
  <2> QED BY <1>12, <2>4, <2>5, BuiltOdd
<1>18. NodeOK(MacroNode(coll, {n, m}, x, form))
  BY <1>6, <1>7, <1>9, <1>16, <1>17, MacroNodeOK
<1> QED BY <1>4, <1>11, <1>13, <1>15, <1>18 DEF InFilterNode

-----------------------------------------------------------------------------
(* What a filter says of a value in a column *)

\* A comparison of two integers.
Compares(op, a, b) == (op = "eq" /\ a = b) \/ (op = "ne" /\ a # b) \/ Ordered(op, a, b)

Families == {"num", "str", "bool"}

LEMMA ValueIs ==
  ASSUME NEW x \in Value
  PROVE  x \in [t : Types, v : Int] /\ x.v \in Int /\ (x.t = "bool" => x \in {True, False}) /\ (x.t = "str" => x.v >= 0)
BY DEF Value, WellFormed, True, False, Types

LEMMA FamilyIs ==
  ASSUME NEW type \in {"int", "float", "str", "bool"}
  PROVE  Family(type) \in Families /\ (Family(type) = "str" <=> type = "str") /\ (Family(type) = "bool" <=> type = "bool")
         /\ (type = "int" => Family(type) = "num")
BY DEF Family, Families

\* A value of a column's family is none of the special ones.
LEMMA ValueOfFamily ==
  ASSUME NEW x \in Value, x.t \in Families
  PROVE  x # Null /\ x # Err /\ x # Undefined /\ x.t # "list"
BY Constants DEF Families

LEMMA CompareSame ==
  ASSUME NEW op \in Comparisons, NEW x \in Value, NEW y \in Value, x.t = y.t, x.t \in Families
  PROVE  /\ CompareValues(op, x, y) = Bool(Compares(op, x.v, y.v))
         /\ SqlCompare(op, x, y) = Bool(Compares(op, x.v, y.v))
         /\ ValuesEqual(x, y) <=> x = y
<1>1. x \in [t : Types, v : Int] /\ y \in [t : Types, v : Int]
  BY ValueIs
<1>2. x = y <=> x.v = y.v
  BY <1>1
<1>3. ValuesEqual(x, y) <=> x.v = y.v
  BY <1>2 DEF ValuesEqual
<1>4. SameOrderedType(x, y)
  BY DEF SameOrderedType, IsNumeric, Families
<1>5. Err \notin {x, y} /\ Null \notin {x, y}
  BY ValueOfFamily
<1>6. CompareValues(op, x, y) = Bool(Compares(op, x.v, y.v))
  <2>1. CASE op = "eq"
    <3>1. CompareValues(op, x, y) = Bool(ValuesEqual(x, y))
      BY <1>5, <2>1 DEF CompareValues
    <3>2. Compares(op, x.v, y.v) <=> ValuesEqual(x, y)
      BY <1>3, <2>1 DEF Compares, Ordered
    <3> QED BY <3>1, <3>2 DEF Bool
  <2>2. CASE op = "ne"
    <3>1. CompareValues(op, x, y) = Bool(~ValuesEqual(x, y))
      BY <1>5, <2>2 DEF CompareValues
    <3>2. Compares(op, x.v, y.v) <=> ~ValuesEqual(x, y)
      BY <1>3, <2>2 DEF Compares, Ordered
    <3> QED BY <3>1, <3>2 DEF Bool
  <2>3. CASE op \in Orderings
    <3>1. CompareValues(op, x, y) = Bool(Ordered(op, x.v, y.v))
      BY <1>4, <1>5, <2>3 DEF CompareValues, Orderings
    <3>2. Compares(op, x.v, y.v) <=> Ordered(op, x.v, y.v)
      BY <2>3 DEF Compares, Orderings
    <3> QED BY <3>1, <3>2 DEF Bool
  <2> QED BY <2>1, <2>2, <2>3 DEF Comparisons, Equalities
<1>7. SqlCompare(op, x, y) = CompareValues(op, x, y)
  BY <1>5 DEF SqlCompare
<1> QED BY <1>2, <1>3, <1>6, <1>7

\* A null in an equality, and in an ordering.
LEMMA CompareNull ==
  ASSUME NEW y \in Value, y.t \in Families
  PROVE  /\ CompareValues("eq", Null, y) = False /\ CompareValues("ne", Null, y) = True
         /\ CompareValues("eq", y, Null) = False /\ CompareValues("ne", y, Null) = True
         /\ CompareValues("eq", Null, Null) = True /\ CompareValues("ne", Null, Null) = False
         /\ \A op \in Orderings : CompareValues(op, Null, y) = Err
         /\ ~ValuesEqual(Null, y) /\ ~ValuesEqual(y, Null) /\ ValuesEqual(Null, Null)
<1>1. Null.t = "null" /\ Null # Err /\ y # Null /\ y # Err
  BY ValueOfFamily, Constants
<1>2. ~ValuesEqual(Null, y) /\ ~ValuesEqual(y, Null) /\ ValuesEqual(Null, Null)
  BY <1>1 DEF ValuesEqual, IsNumeric
<1>3. \A op \in Orderings : CompareValues(op, Null, y) = Err
  BY <1>1 DEF CompareValues, SameOrderedType, IsNumeric, Orderings
<1> QED BY <1>1, <1>2, <1>3, Constants DEF CompareValues, Bool

\* A literal between two integers, and its neighbours.
LEMMA BoundIs ==
  ASSUME NEW c, NEW lit \in Value, lit.t = "num", IsFraction(lit)
  PROVE  /\ Below(lit) \in Value /\ Below(lit).t = "num" /\ Below(lit).v = lit.v - 1
         /\ Above(lit) \in Value /\ Above(lit).t = "num" /\ Above(lit).v = lit.v + 1
         /\ lit.v \in Int /\ lit.v % 2 = 1
         /\ c.type # "int" => Bound(c, lit) = lit
         /\ c.type = "int" => Bound(c, lit) \in {Below(lit), Above(lit)}
<1>1. lit \in [t : Types, v : Int] /\ lit.v \in Int /\ lit.v % 2 = 1
  BY ValueIs DEF IsFraction
<1>2. /\ Below(lit) \in [t : Types, v : Int] /\ Below(lit).t = "num" /\ Below(lit).v = lit.v - 1
      /\ Above(lit) \in [t : Types, v : Int] /\ Above(lit).t = "num" /\ Above(lit).v = lit.v + 1
  BY <1>1 DEF Below, Above
<1>3. Below(lit) \in Value /\ Above(lit) \in Value
  BY <1>2 DEF Value, WellFormed
<1>4. c.type # "int" => Bound(c, lit) = lit
  BY DEF Bound
<1>5. c.type = "int" => Bound(c, lit) \in {Below(lit), Above(lit)}
  BY DEF Bound
<1> QED BY <1>1, <1>2, <1>3, <1>4, <1>5

LEMMA SqlIs ==
  ASSUME NEW op \in Comparisons, NEW x \in Value, NEW y \in Value, x.t = "num", y.t = "num"
  PROVE  SqlCompare(op, x, y) \in {True, False} /\ (SqlCompare(op, x, y) = True <=> Compares(op, x.v, y.v))
<1>1. SqlCompare(op, x, y) = Bool(Compares(op, x.v, y.v))
  BY CompareSame DEF Families
<1> QED BY <1>1, Constants DEF Bool

\* Tests that err nowhere.
LEMMA AndPair ==
  ASSUME NEW x \in {True, False}, NEW y \in {True, False}
  PROVE  And({x, y}) \in {True, False} /\ (And({x, y}) = True <=> x = True /\ y = True)
<1>1. {x, y} \subseteq Tri /\ Err \notin {True, False}
  BY Constants DEF Tri
<1>2. And({x, y}) \in Tri /\ (And({x, y}) = False <=> False \in {x, y}) /\ (And({x, y}) = True <=> \A z \in {x, y} : z = True)
  BY <1>1, AndIs
<1> QED BY <1>2, Constants DEF Tri

LEMMA AndTriple ==
  ASSUME NEW x \in {True, False}, NEW y \in {True, False}, NEW w \in {True, False}
  PROVE  And({x, y, w}) \in {True, False} /\ (And({x, y, w}) = True <=> x = True /\ y = True /\ w = True)
<1>1. {x, y, w} \subseteq Tri /\ Err \notin {True, False}
  BY Constants DEF Tri
<1>2. /\ And({x, y, w}) \in Tri /\ (And({x, y, w}) = False <=> False \in {x, y, w})
      /\ And({x, y, w}) = True <=> \A z \in {x, y, w} : z = True
  BY <1>1, AndIs
<1> QED BY <1>2, Constants DEF Tri

LEMMA OrPair ==
  ASSUME NEW x \in {True, False}, NEW y \in {True, False}
  PROVE  Or({x, y}) \in {True, False} /\ (Or({x, y}) = True <=> x = True \/ y = True)
<1>1. {x, y} \subseteq Tri /\ Err \notin {True, False}
  BY Constants DEF Tri
<1>2. Or({x, y}) \in Tri /\ (Or({x, y}) = True <=> True \in {x, y}) /\ (Or({x, y}) = False <=> \A z \in {x, y} : z = False)
  BY <1>1, OrIs
<1> QED BY <1>2, Constants DEF Tri

\* fractionalBracket
LEMMA BracketIs ==
  ASSUME NEW c, NEW op \in Comparisons, NEW x \in Value, NEW lit \in Value, x.t = "num", lit.t = "num",
         IsFraction(lit), c.type = "int" => x.v % 2 = 0
  PROVE  FractionalBracket(c, op, x, lit) = CompareValues(op, x, lit)
<1>1. PICK lo, hi, b : lo = Below(lit) /\ hi = Above(lit) /\ b = Bound(c, lit)
  OBVIOUS
<1>2. PICK k, n : k = x.v /\ n = lit.v
  OBVIOUS
<1>3. /\ k \in Int /\ n \in Int /\ n % 2 = 1
      /\ lo \in Value /\ lo.t = "num" /\ lo.v = n - 1
      /\ hi \in Value /\ hi.t = "num" /\ hi.v = n + 1
      /\ b \in {lit, lo, hi} /\ (b = lit \/ k % 2 = 0)
  BY <1>1, <1>2, BoundIs, ValueIs
<1>4. b = lit \/ ((b = lo \/ b = hi) /\ k # n)
  BY <1>3
<1>5. b \in Value /\ b.t = "num" /\ b.v \in Int /\ (b.v = n \/ (b.v \in {n - 1, n + 1} /\ k # n))
  BY <1>2, <1>3, <1>4
<1>6. \A o \in Comparisons, z \in {b, lo, hi} :
        SqlCompare(o, x, z) \in {True, False} /\ (SqlCompare(o, x, z) = True <=> Compares(o, k, z.v))
  <2> SUFFICES ASSUME NEW o \in Comparisons, NEW z \in {b, lo, hi}
               PROVE  SqlCompare(o, x, z) \in {True, False} /\ (SqlCompare(o, x, z) = True <=> Compares(o, k, z.v))
    OBVIOUS
  <2>1. z \in Value /\ z.t = "num"
    BY <1>3, <1>5
  <2> QED BY <1>2, <2>1, SqlIs
<1>7. PICK r : r = FractionalBracket(c, op, x, lit)
  OBVIOUS
<1>8. PICK eq, gt, lt, ge, le, gtLow, ltHigh, geHigh, leLow :
        /\ eq = SqlCompare("eq", x, b) /\ gt = SqlCompare("gt", x, b) /\ lt = SqlCompare("lt", x, b)
        /\ ge = SqlCompare("ge", x, b) /\ le = SqlCompare("le", x, b)
        /\ gtLow = SqlCompare("gt", x, lo) /\ ltHigh = SqlCompare("lt", x, hi)
        /\ geHigh = SqlCompare("ge", x, hi) /\ leLow = SqlCompare("le", x, lo)
  OBVIOUS
<1>9. /\ {eq, gt, lt, ge, le, gtLow, ltHigh, geHigh, leLow} \subseteq {True, False}
      /\ eq = True <=> k = b.v
      /\ gt = True <=> k > b.v
      /\ lt = True <=> k < b.v
      /\ ge = True <=> k >= b.v
      /\ le = True <=> k <= b.v
      /\ gtLow = True <=> k > n - 1
      /\ ltHigh = True <=> k < n + 1
      /\ geHigh = True <=> k >= n + 1
      /\ leLow = True <=> k <= n - 1
  <2>1. {"eq", "gt", "lt", "ge", "le"} \subseteq Comparisons
    BY DEF Comparisons, Equalities, Orderings
  <2> QED BY <1>3, <1>6, <1>8, <2>1 DEF Compares, Ordered
<1>10. r \in {True, False} /\ (r = True <=> Compares(op, k, n))
  <2>1. CASE op = "gt"
    <3>1. r = Or({gt, geHigh})
      BY <1>1, <1>7, <1>8, <2>1 DEF FractionalBracket
    <3>2. r \in {True, False} /\ (r = True <=> gt = True \/ geHigh = True)
      BY <1>9, <3>1, AndPair, OrPair
    <3> QED BY <1>3, <1>5, <1>9, <2>1, <3>2 DEF Compares, Ordered
  <2>2. CASE op = "ge"
    <3>1. r = And({ge, gtLow})
      BY <1>1, <1>7, <1>8, <2>2 DEF FractionalBracket
    <3>2. r \in {True, False} /\ (r = True <=> ge = True /\ gtLow = True)
      BY <1>9, <3>1, AndPair, OrPair
    <3> QED BY <1>3, <1>5, <1>9, <2>2, <3>2 DEF Compares, Ordered
  <2>3. CASE op = "lt"
    <3>1. r = Or({lt, leLow})
      BY <1>1, <1>7, <1>8, <2>3 DEF FractionalBracket
    <3>2. r \in {True, False} /\ (r = True <=> lt = True \/ leLow = True)
      BY <1>9, <3>1, AndPair, OrPair
    <3> QED BY <1>3, <1>5, <1>9, <2>3, <3>2 DEF Compares, Ordered
  <2>4. CASE op = "le"
    <3>1. r = And({le, ltHigh})
      BY <1>1, <1>7, <1>8, <2>4 DEF FractionalBracket
    <3>2. r \in {True, False} /\ (r = True <=> le = True /\ ltHigh = True)
      BY <1>9, <3>1, AndPair, OrPair
    <3> QED BY <1>3, <1>5, <1>9, <2>4, <3>2 DEF Compares, Ordered
  <2>5. PICK equals : equals = And({eq, gtLow, ltHigh})
    OBVIOUS
  <2>6. equals \in {True, False} /\ (equals = True <=> k = n)
    <3>1. equals \in {True, False} /\ (equals = True <=> eq = True /\ gtLow = True /\ ltHigh = True)
      BY <1>9, <2>5, AndTriple
    <3> QED BY <1>3, <1>5, <1>9, <3>1
  <2>7. CASE op = "eq"
    <3>1. r = equals
      BY <1>1, <1>7, <1>8, <2>5, <2>7 DEF FractionalBracket
    <3> QED BY <2>6, <2>7, <3>1 DEF Compares, Ordered
  <2>8. CASE op = "ne"
    <3>1. r = Not(equals)
      BY <1>1, <1>7, <1>8, <2>5, <2>8 DEF FractionalBracket
    <3>2. equals \in Tri
      BY <2>6 DEF Tri
    <3>3. r \in Tri /\ (r = True <=> equals = False) /\ (r = False <=> equals = True)
      BY <3>1, <3>2, NotIs
    <3> QED BY <2>6, <2>8, <3>3, Constants DEF Compares, Ordered
  <2> QED BY <2>1, <2>2, <2>3, <2>4, <2>7, <2>8 DEF Comparisons, Equalities, Orderings
<1>11. CompareValues(op, x, lit) = Bool(Compares(op, k, n))
  BY <1>2, CompareSame DEF Families
<1> QED BY <1>7, <1>10, <1>11, Constants DEF Bool

-----------------------------------------------------------------------------
(* A leaf and a row *)

\* What Field gives of a mapper entry.
ColumnOK(c) ==
  /\ c.shape \in {"scalar", "list", "element"} /\ c.hop \in {"none", "one", "many"}
  /\ c.type \in {"int", "float", "str", "bool"} /\ c.required \in BOOLEAN
  /\ c.explicit \in BOOLEAN /\ c.omitted \in BOOLEAN /\ ~(c.explicit /\ c.omitted)
  /\ c.known \in {"none", Family(c.type)}
  /\ c.shape = "element" => c.explicit /\ c.hop = "none"
  /\ c.shape # "list" => c.hop # "many"

\* A value of the column's type.
Typed(c, x) == x \in Value /\ x.t = Family(c.type) /\ (c.type = "int" => x.v % 2 = 0)

\* What a column of one value may hold, behind a parent that is there.
Cell(c, x) == Typed(c, x) \/ (x = Null /\ ~c.required)

\* y is what the leaf's filter says of x, and v what CEL says.
CellFine(c, l, e, x, y, v) ==
  /\ CellOK(y, v, Gap(c, e, x), x # Undefined)
  /\ e # Root /\ y = Err => Recorded(c, l) /\ x = Null

LEMMA TypedIs ==
  ASSUME NEW c, ColumnOK(c), NEW x, Typed(c, x)
  PROVE  /\ x \in Value /\ x.t = Family(c.type) /\ x.t \in Families
         /\ x # Null /\ x # Err /\ x # Undefined /\ x.t # "list"
         /\ Sent(c, x) = x /\ Held(x) = {x} /\ \A is : Reached(x, is) = is[x]
<1>1. x \in Value /\ x.t = Family(c.type) /\ x.t \in Families
  BY FamilyIs DEF Typed, ColumnOK
<1>2. x # Null /\ x # Err /\ x # Undefined /\ x.t # "list"
  BY <1>1, ValueOfFamily
<1> QED BY <1>1, <1>2 DEF Sent, Held, Reached

LEMMA NullIs ==
  /\ Null.t = "null" /\ Null # Err /\ Null # Undefined
  /\ Held(Null) = {Null} /\ \A is : Reached(Null, is) = is[Null]
  /\ \A c : Sent(c, Null) = IF c.omitted THEN Err ELSE Null
BY Constants DEF Held, Reached, Sent

LEMMA ExactCell ==
  ASSUME NEW c, NEW l, NEW e, NEW x, NEW y, y \in {True, False}
  PROVE  CellFine(c, l, e, x, y, y)
BY Constants DEF CellFine, CellOK, Tri

LEMMA NullErrs ==
  ASSUME NEW c, NEW l, NEW e, NEW v, v = Err \/ ~c.explicit, Recorded(c, l)
  PROVE  CellFine(c, l, e, Null, Err, v)
BY Constants DEF CellFine, CellOK, Tri, Gap

\* buildComparisonFilter
LEMMA CompareTyped ==
  ASSUME NEW c, ColumnOK(c), NEW op \in Comparisons, NEW x, Typed(c, x), NEW lit \in Value, lit.t = Family(c.type),
         ~(c.type = "int" /\ IsFraction(lit) /\ c.explicit /\ op \in Equalities)
  PROVE  CompareCell(c, op, x, lit) = CompareValues(op, x, lit) /\ CompareValues(op, x, lit) \in {True, False}
<1>1. /\ x \in Value /\ x.t = Family(c.type) /\ x.t \in Families
      /\ x # Null /\ x # Err /\ x # Undefined /\ x.t # "list"
      /\ Held(x) = {x} /\ \A is : Reached(x, is) = is[x]
  BY TypedIs
<1>2. lit # Null /\ lit # Err
  BY <1>1, ValueOfFamily
<1>3. CompareValues(op, x, lit) = Bool(Compares(op, x.v, lit.v)) /\ SqlCompare(op, x, lit) = CompareValues(op, x, lit)
  BY <1>1, CompareSame
<1>4. CompareValues(op, x, lit) \in {True, False}
  BY <1>3 DEF Bool
<1>5. CASE c.explicit /\ op \in Equalities
  <2>1. Bound(c, lit) = lit
    BY <1>5 DEF Bound
  <2>2. PICK is : is = [y \in Held(x) |-> Guarded(y, SqlCompare("eq", y, Bound(c, lit)))]
    OBVIOUS
  <2>3. is[x] = SqlCompare("eq", x, lit)
    BY <1>1, <2>1, <2>2 DEF Guarded
  <2>4. CompareCell(c, op, x, lit) = IF op = "eq" THEN Reached(x, is) ELSE Not(Reached(x, is))
    BY <1>2, <1>5, <2>2 DEF CompareCell
  <2>5. SqlCompare("eq", x, lit) = Bool(x.v = lit.v)
    <3>1. SqlCompare("eq", x, lit) = Bool(Compares("eq", x.v, lit.v))
      BY <1>1, CompareSame DEF Comparisons, Equalities
    <3> QED BY <3>1 DEF Compares, Ordered, Bool
  <2>6. Not(Bool(x.v = lit.v)) = Bool(x.v # lit.v)
    BY Constants DEF Not, AsBoolean, Bool
  <2>7. CASE op = "eq"
    <3>1. CompareCell(c, op, x, lit) = Bool(x.v = lit.v)
      BY <1>1, <2>3, <2>4, <2>5, <2>7
    <3> QED BY <1>3, <1>4, <2>7, <3>1 DEF Compares, Ordered, Bool
  <2>8. CASE op = "ne"
    <3>1. CompareCell(c, op, x, lit) = Bool(x.v # lit.v)
      BY <1>1, <2>3, <2>4, <2>5, <2>6, <2>8
    <3> QED BY <1>3, <1>4, <2>8, <3>1 DEF Compares, Ordered, Bool
  <2> QED BY <1>5, <2>7, <2>8 DEF Equalities
<1>6. CASE ~(c.explicit /\ op \in Equalities)
  <2>1. PICK is : is = [y \in Held(x) |->
                         IF lit = Null THEN Bool((op = "eq") = (y = Null))
                         ELSE IF IsFraction(lit) THEN FractionalBracket(c, op, y, lit)
                         ELSE SqlCompare(op, y, lit)]
    OBVIOUS
  <2>2. CompareCell(c, op, x, lit) = Reached(x, is)
    BY <1>6, <2>1 DEF CompareCell
  <2>3. is[x] = IF IsFraction(lit) THEN FractionalBracket(c, op, x, lit) ELSE SqlCompare(op, x, lit)
    BY <1>1, <1>2, <2>1
  <2>4. IsFraction(lit) => FractionalBracket(c, op, x, lit) = CompareValues(op, x, lit)
    <3>1. ASSUME IsFraction(lit) PROVE FractionalBracket(c, op, x, lit) = CompareValues(op, x, lit)
      <4>1. lit.t = "num" /\ x.t = "num" /\ (c.type = "int" => x.v % 2 = 0)
        BY <1>1, <3>1 DEF IsFraction, Typed
      <4> QED BY <1>1, <3>1, <4>1, BracketIs
    <3> QED BY <3>1
  <2> QED BY <1>1, <1>3, <1>4, <2>2, <2>3, <2>4
<1> QED BY <1>4, <1>5, <1>6

LEMMA CompareAtNull ==
  ASSUME NEW c, ColumnOK(c), ~c.required, NEW l, l.op \in Comparisons, l.lit \in Value, l.lit.t = Family(c.type),
         c.shape = "scalar" \/ (c.shape = "element" /\ l.op \in Equalities), NEW e
  PROVE  CellFine(c, l, e, Null, CompareCell(c, l.op, Null, l.lit), CompareValues(l.op, Sent(c, Null), l.lit))
<1>1. PICK op, lit : op = l.op /\ lit = l.lit
  OBVIOUS
<1>2. op \in Comparisons /\ lit \in Value /\ lit.t \in Families
  BY <1>1, FamilyIs DEF ColumnOK
<1>3. lit # Null /\ Held(Null) = {Null} /\ (\A is : Reached(Null, is) = is[Null])
      /\ Sent(c, Null) = IF c.omitted THEN Err ELSE Null
  BY <1>2, NullIs, ValueOfFamily
<1>4. CASE c.explicit /\ op \in Equalities
  <2>1. PICK is : is = [y \in Held(Null) |-> Guarded(y, SqlCompare("eq", y, Bound(c, lit)))]
    OBVIOUS
  <2>2. is[Null] = False
    BY <1>3, <2>1 DEF Guarded
  <2>3. CompareCell(c, op, Null, lit) = IF op = "eq" THEN Reached(Null, is) ELSE Not(Reached(Null, is))
    BY <1>3, <1>4, <2>1 DEF CompareCell
  <2>4. Reached(Null, is) = False /\ Not(False) = True
    BY <1>3, <2>2, NotIs, Constants DEF Tri
  <2>5. Sent(c, Null) = Null
    BY <1>3, <1>4 DEF ColumnOK
  <2>6. CompareCell(c, op, Null, lit) = CompareValues(op, Sent(c, Null), lit)
        /\ CompareValues(op, Sent(c, Null), lit) \in {True, False}
    <3>1. CASE op = "eq"
      BY <1>2, <2>3, <2>4, <2>5, <3>1, CompareNull
    <3>2. CASE op = "ne"
      BY <1>2, <2>3, <2>4, <2>5, <3>2, CompareNull
    <3> QED BY <1>4, <3>1, <3>2 DEF Equalities
  <2> QED BY <1>1, <2>6, ExactCell
<1>5. CASE ~(c.explicit /\ op \in Equalities)
  <2>1. PICK is : is = [y \in Held(Null) |->
                         IF lit = Null THEN Bool((op = "eq") = (y = Null))
                         ELSE IF IsFraction(lit) THEN FractionalBracket(c, op, y, lit)
                         ELSE SqlCompare(op, y, lit)]
    OBVIOUS
  <2>2. CompareCell(c, op, Null, lit) = Reached(Null, is)
    BY <1>5, <2>1 DEF CompareCell
  <2>3. is[Null] = IF IsFraction(lit) THEN FractionalBracket(c, op, Null, lit) ELSE SqlCompare(op, Null, lit)
    BY <1>3, <2>1
  <2>4. \A o, z : SqlCompare(o, Null, z) = Err
    BY DEF SqlCompare, Unknown
  <2>5. FractionalBracket(c, op, Null, lit) = Err
    <3>1. And({Err, Err}) = Err /\ Or({Err, Err}) = Err /\ And({Err, Err, Err}) = Err /\ Not(Err) = Err
      BY Constants DEF And, Or, Junction, Not, AsBoolean, Bool
    <3>2. CASE op = "gt"
      BY <2>4, <3>1, <3>2 DEF FractionalBracket
    <3>3. CASE op = "ge"
      BY <2>4, <3>1, <3>3 DEF FractionalBracket
    <3>4. CASE op = "lt"
      BY <2>4, <3>1, <3>4 DEF FractionalBracket
    <3>5. CASE op = "le"
      BY <2>4, <3>1, <3>5 DEF FractionalBracket
    <3>6. CASE op = "eq"
      BY <2>4, <3>1, <3>6 DEF FractionalBracket
    <3>7. CASE op = "ne"
      BY <2>4, <3>1, <3>7 DEF FractionalBracket
    <3> QED BY <1>2, <3>2, <3>3, <3>4, <3>5, <3>6, <3>7 DEF Comparisons, Equalities, Orderings
  <2>6. CompareCell(c, op, Null, lit) = Err
    BY <1>3, <2>2, <2>3, <2>4, <2>5
  <2>7. Recorded(c, l)
    BY <1>1, <1>5 DEF Recorded, ColumnOK
  <2>8. CompareValues(op, Sent(c, Null), lit) = Err \/ ~c.explicit
    <3>1. CASE ~c.explicit
      BY <3>1
    <3>2. CASE c.explicit
      <4>1. Sent(c, Null) = Null /\ op \in Orderings
        BY <1>2, <1>3, <1>5, <3>2 DEF ColumnOK, Comparisons
      <4> QED BY <1>2, <4>1, CompareNull
    <3> QED BY <3>1, <3>2
  <2> QED BY <1>1, <2>6, <2>7, <2>8, NullErrs
<1> QED BY <1>4, <1>5

\* A comparison with null.
LEMMA CompareToNull ==
  ASSUME NEW c, ColumnOK(c), ~c.omitted, NEW l, l.op \in Equalities, l.lit = Null, NEW x, Cell(c, x), NEW e
  PROVE  CellFine(c, l, e, x, CompareCell(c, l.op, x, l.lit), CompareValues(l.op, Sent(c, x), l.lit))
<1>1. PICK op : op = l.op
  OBVIOUS
<1>2. PICK is : is = [y \in Held(x) |->
                       IF Null = Null THEN Bool((op = "eq") = (y = Null))
                       ELSE IF IsFraction(Null) THEN FractionalBracket(c, op, y, Null)
                       ELSE SqlCompare(op, y, Null)]
  OBVIOUS
<1>3. CompareCell(c, op, x, Null) = Reached(x, is)
  BY <1>2 DEF CompareCell
<1>4. Held(x) = {x} /\ Reached(x, is) = is[x] /\ Sent(c, x) = x
  BY TypedIs, NullIs DEF Cell
<1>5. is[x] = Bool((op = "eq") = (x = Null))
  BY <1>2, <1>4
<1>6. CompareCell(c, op, x, Null) = CompareValues(op, x, Null) /\ CompareValues(op, x, Null) \in {True, False}
  <2>1. CASE x = Null
    <3>1. CASE op = "eq"
      BY <1>3, <1>4, <1>5, <2>1, <3>1, Constants DEF CompareValues, ValuesEqual, Bool
    <3>2. CASE op = "ne"
      BY <1>3, <1>4, <1>5, <2>1, <3>2, Constants DEF CompareValues, ValuesEqual, Bool
    <3> QED BY <1>1, <3>1, <3>2 DEF Equalities
  <2>2. CASE Typed(c, x)
    <3>1. x \in Value /\ x.t \in Families /\ x # Null
      BY <2>2, TypedIs
    <3>2. CompareValues("eq", x, Null) = False /\ CompareValues("ne", x, Null) = True
      BY <3>1, CompareNull
    <3>3. CASE op = "eq"
      BY <1>3, <1>4, <1>5, <3>1, <3>2, <3>3 DEF Bool
    <3>4. CASE op = "ne"
      BY <1>3, <1>4, <1>5, <3>1, <3>2, <3>4 DEF Bool
    <3> QED BY <1>1, <3>3, <3>4 DEF Equalities
  <2> QED BY <2>1, <2>2 DEF Cell
<1> QED BY <1>1, <1>4, <1>6, ExactCell

\* A list of the plan that the column admits: no null but where one can be stored and read, and no
\* fraction for an integer column.
ListFor(c, S) ==
  /\ S # {}
  /\ \A v \in S : (v = Null /\ ~c.omitted) \/ (v \in Value /\ v.t = Family(c.type))
  /\ c.type = "int" => \A v \in S : ~IsFraction(v)

LEMMA ListForIs ==
  ASSUME NEW c, ColumnOK(c), NEW S, ListFor(c, S), NEW x, Typed(c, x)
  PROVE  /\ \A m \in S \ {Null} : Bound(c, m) = m
         /\ \A m \in S : ValuesEqual(m, x) <=> m = x
         /\ \A m \in S \ {Null} : SqlCompare("eq", x, Bound(c, m)) = True <=> m = x
<1>1. x \in Value /\ x.t = Family(c.type) /\ x.t \in Families /\ x # Null
  BY TypedIs
<1>2. \A m \in S \ {Null} : m \in Value /\ m.t = Family(c.type) /\ Bound(c, m) = m
  BY DEF ListFor, Bound
<1>3. \A m \in S \ {Null} : ValuesEqual(m, x) <=> m = x
  BY <1>1, <1>2, CompareSame DEF Comparisons, Equalities
<1>4. ~ValuesEqual(Null, x)
  BY <1>1, CompareNull
<1>5. ASSUME NEW m \in S \ {Null} PROVE SqlCompare("eq", x, Bound(c, m)) = True <=> m = x
  <2>1. m \in Value /\ m.t = x.t /\ Bound(c, m) = m
    BY <1>1, <1>2
  <2>2. SqlCompare("eq", x, m) = Bool(Compares("eq", x.v, m.v))
    BY <1>1, <2>1, CompareSame DEF Comparisons, Equalities
  <2>3. x.v = m.v <=> x = m
    BY <1>1, <2>1, ValueIs
  <2>4. Compares("eq", x.v, m.v) <=> x.v = m.v
    BY DEF Compares, Ordered
  <2> QED BY <2>1, <2>2, <2>3, <2>4, Constants DEF Bool
<1> QED BY <1>1, <1>2, <1>3, <1>4, <1>5

\* buildMembershipFilter, of a column of one value
LEMMA MembershipOK ==
  ASSUME NEW c, ColumnOK(c), NEW l, NEW S, ListFor(c, S), Null \in S => ~c.required, NEW lit, IsCollection(lit),
         Members[lit] = S, NEW x, Cell(c, x), c.shape # "list", NEW e
  PROVE  CellFine(c, l, e, x, MembershipCell(c, x, S), In(Sent(c, x), lit))
<1>1. PICK leaf : leaf = [y \in Held(x) |->
                IF y = Null THEN Unknown
                ELSE Bool(\E m \in S \ {Null} : SqlCompare("eq", y, Bound(c, m)) = True)]
  OBVIOUS
<1>2. PICK guarded : guarded = [y \in Held(x) |-> Guarded(y, leaf[y])]
  OBVIOUS
<1>3. PICK isNull : isNull = [y \in Held(x) |-> Bool(y = Null)]
  OBVIOUS
<1>4. /\ Held(x) = {x} /\ (\A is : Reached(x, is) = is[x])
      /\ Sent(c, x) = IF x = Null /\ c.omitted THEN Err ELSE x
      /\ x # Err
  BY TypedIs, NullIs, Constants DEF Cell
<1>5. MembershipCell(c, x, S) =
        IF Null \notin S THEN IF c.explicit THEN guarded[x] ELSE leaf[x]
        ELSE IF S = {Null} THEN isNull[x]
        ELSE Or({leaf[x], isNull[x]})
  <2>1. MembershipCell(c, x, S) =
          CASE Null \notin S -> IF c.explicit THEN Reached(x, guarded) ELSE Reached(x, leaf)
            [] S = {Null} -> Reached(x, isNull)
            [] OTHER -> Or({Reached(x, leaf), Reached(x, isNull)})
    BY <1>1, <1>2, <1>3 DEF MembershipCell
  <2>2. CASE Null \notin S
    BY <1>4, <2>1, <2>2
  <2>3. CASE S = {Null}
    BY <1>4, <2>1, <2>3
  <2>4. CASE Null \in S /\ S # {Null}
    BY <1>4, <2>1, <2>4
  <2> QED BY <2>2, <2>3, <2>4
<1>6. CASE Typed(c, x)
  <2>1. x # Null
    BY <1>6, TypedIs
  <2>2. PICK P : P <=> \E m \in S : m = x
    OBVIOUS
  <2>3. In(Sent(c, x), lit) = Bool(P)
    <3>1. (\E m \in S : ValuesEqual(m, x)) <=> P
      BY <1>6, <2>2, ListForIs
    <3>2. In(x, lit) = Bool(\E m \in S : ValuesEqual(m, x))
      BY <1>4 DEF In
    <3> QED BY <1>4, <2>1, <3>1, <3>2 DEF Bool
  <2>4. leaf[x] = Bool(P)
    <3>1. (\E m \in S \ {Null} : SqlCompare("eq", x, Bound(c, m)) = True) <=> P
      BY <1>6, <2>1, <2>2, ListForIs
    <3>2. leaf[x] = Bool(\E m \in S \ {Null} : SqlCompare("eq", x, Bound(c, m)) = True)
      BY <1>1, <1>4, <2>1
    <3> QED BY <3>1, <3>2 DEF Bool
  <2>5. guarded[x] = leaf[x] /\ isNull[x] = False
    BY <1>2, <1>3, <1>4, <2>1 DEF Guarded, Bool
  <2>6. leaf[x] \in {True, False}
    BY <2>4 DEF Bool
  <2>7. Or({leaf[x], False}) = leaf[x]
    BY <2>6, OrPair, Constants
  <2>8. S = {Null} => leaf[x] = False
    BY <2>1, <2>2, <2>4 DEF Bool
  <2>9. MembershipCell(c, x, S) = leaf[x]
    BY <1>5, <2>5, <2>7, <2>8
  <2> QED BY <2>3, <2>4, <2>6, <2>9, ExactCell
<1>7. CASE x = Null /\ ~c.required
  <2>1. leaf[x] = Err /\ guarded[x] = False /\ isNull[x] = True
    BY <1>1, <1>2, <1>3, <1>4, <1>7 DEF Guarded, Bool, Unknown
  <2>2. CASE Null \in S
    <3>1. ~c.omitted
      BY <2>2, Constants DEF ListFor, Family, ColumnOK
    <3>2. In(Sent(c, x), lit) = True
      <4>1. Sent(c, x) = Null
        BY <1>4, <1>7, <3>1
      <4>2. ValuesEqual(Null, Null)
        BY DEF ValuesEqual
      <4> QED BY <2>2, <4>1, <4>2, Constants DEF In, Bool
    <3>3. Or({Err, True}) = True
      BY OrIs DEF Tri
    <3>4. MembershipCell(c, x, S) = True
      BY <1>5, <2>1, <2>2, <3>3
    <3> QED BY <3>2, <3>4, ExactCell
  <2>3. CASE Null \notin S /\ c.explicit
    <3>1. Sent(c, x) = Null
      BY <1>4, <1>7, <2>3 DEF ColumnOK
    <3>2. \A m \in S : ~ValuesEqual(m, Null)
      <4>1. \A m \in S : m \in Value /\ m.t \in Families
        BY <2>3, FamilyIs DEF ListFor, ColumnOK
      <4> QED BY <4>1, CompareNull
    <3>3. In(Sent(c, x), lit) = False
      BY <3>1, <3>2, Constants DEF In, Bool
    <3>4. MembershipCell(c, x, S) = False
      BY <1>5, <2>1, <2>3
    <3> QED BY <3>3, <3>4, ExactCell
  <2>4. CASE Null \notin S /\ ~c.explicit
    <3>1. MembershipCell(c, x, S) = Err
      BY <1>5, <2>1, <2>4
    <3>2. Recorded(c, l)
      BY <1>7, <2>4 DEF Recorded, ColumnOK
    <3> QED BY <1>7, <2>4, <3>1, <3>2, NullErrs
  <2> QED BY <2>2, <2>3, <2>4
<1> QED BY <1>6, <1>7 DEF Cell

\* What a row that is not there is worth.
LEMMA UndefinedCell ==
  ASSUME NEW c, NEW l, NEW e
  PROVE  CellFine(c, l, e, Undefined, False, Err)
BY Constants DEF CellFine, CellOK, Tri

\* A boolean column by itself
LEMMA BareOK ==
  ASSUME NEW c, ColumnOK(c), c.type = "bool", NEW l, NEW x, Cell(c, x), NEW e,
         ~c.required => c.shape = "scalar"
  PROVE  CellFine(c, l, e, x, SqlCompare("eq", x, True), AsBoolean(Sent(c, x)))
<1>1. CASE Typed(c, x)
  <2>1. x \in Value /\ x.t = "bool" /\ Sent(c, x) = x
    BY <1>1, TypedIs, FamilyIs DEF Family
  <2>2. x \in {True, False}
    BY <2>1, ValueIs
  <2>3. SqlCompare("eq", x, True) = x
    BY <2>2, Constants DEF SqlCompare, CompareValues, ValuesEqual, IsNumeric, Bool
  <2>4. AsBoolean(x) = x
    BY <2>2, Outcome DEF Tri
  <2> QED BY <2>1, <2>2, <2>3, <2>4, ExactCell
<1>2. CASE x = Null /\ ~c.required
  <2>1. SqlCompare("eq", x, True) = Err
    BY <1>2 DEF SqlCompare, Unknown
  <2>2. AsBoolean(Sent(c, x)) = Err
    BY <1>2, NullIs, Constants DEF AsBoolean
  <2>3. Recorded(c, l)
    BY <1>2 DEF Recorded
  <2> QED BY <1>2, <2>1, <2>2, <2>3, NullErrs
<1> QED BY <1>1, <1>2 DEF Cell

\* startsWith of a string column
LEMMA StartsOK ==
  ASSUME NEW c, ColumnOK(c), c.type = "str", NEW l, l.test = "startsWith", l.lit.t = "str", NEW x, Cell(c, x), NEW e
  PROVE  CellFine(c, l, e, x, IF x = Null THEN Unknown ELSE StartsWith(x, l.lit), StartsWith(Sent(c, x), l.lit))
<1>1. CASE Typed(c, x)
  <2>1. x # Null /\ x.t = "str" /\ Sent(c, x) = x
    BY <1>1, TypedIs, FamilyIs DEF Family
  <2>2. StartsWith(x, l.lit) \in {True, False}
    BY <2>1, Constants DEF StartsWith
  <2> QED BY <2>1, <2>2, ExactCell
<1>2. CASE x = Null /\ ~c.required
  <2>1. StartsWith(Sent(c, x), l.lit) = Err
    BY <1>2, NullIs, Constants DEF StartsWith
  <2>2. Recorded(c, l)
    BY <1>2 DEF Recorded
  <2> QED BY <1>2, <2>1, <2>2, NullErrs, Constants
<1> QED BY <1>1, <1>2 DEF Cell

\* Whether a size meets a threshold.
Meets2(p, k) == (IF p.kind = "atLeast" THEN k >= p.count ELSE k = p.count) # p.negated

LEMMA ThresholdIs ==
  ASSUME NEW k \in Nat, NEW t \in Int
  PROVE  /\ Meets2([kind |-> "atLeast", count |-> t, negated |-> FALSE], k) <=> k >= t
         /\ Meets2([kind |-> "atLeast", count |-> t, negated |-> TRUE], k) <=> ~(k >= t)
         /\ Meets2([kind |-> "exactly", count |-> t, negated |-> FALSE], k) <=> k = t
         /\ Meets2([kind |-> "exactly", count |-> t, negated |-> TRUE], k) <=> k # t
<1>1. ASSUME NEW kind \in {"atLeast", "exactly"}, NEW negated
      PROVE  Meets2([kind |-> kind, count |-> t, negated |-> negated], k)
               <=> (IF kind = "atLeast" THEN k >= t ELSE k = t) # negated
  <2>1. PICK p : p = [kind |-> kind, count |-> t, negated |-> negated]
    OBVIOUS
  <2>2. p.kind = kind /\ p.count = t /\ p.negated = negated
    BY <2>1
  <2>3. Meets2(p, k) <=> (IF kind = "atLeast" THEN k >= t ELSE k = t) # negated
    BY <2>2 DEF Meets2
  <2> QED BY <2>1, <2>3
<1>2. /\ (k >= t) # FALSE <=> k >= t
      /\ (k >= t) # TRUE <=> ~(k >= t)
      /\ (k = t) # FALSE <=> k = t
      /\ (k = t) # TRUE <=> k # t
  <2>1. (k >= t) \in BOOLEAN /\ (k = t) \in BOOLEAN
    OBVIOUS
  <2>2. \A b \in BOOLEAN : (b # FALSE <=> b) /\ (b # TRUE <=> ~b)
    OBVIOUS
  <2> QED BY <2>1, <2>2
<1> QED BY <1>1, <1>2

\* The thresholds that ask whether there is anything, or nothing.
LEMMA EmptinessIs ==
  ASSUME NEW k \in Nat, NEW p
  PROVE  /\ p = [kind |-> "atLeast", count |-> 0, negated |-> FALSE] => Meets2(p, k)
         /\ NonEmpty(p) => (Meets2(p, k) <=> k # 0)
         /\ Empty(p) => (Meets2(p, k) <=> k = 0) /\ ~NonEmpty(p)
<1>1. PICK zero \in Int, one \in Int : zero = 0 /\ one = 1
  OBVIOUS
<1>2. /\ Meets2([kind |-> "atLeast", count |-> zero, negated |-> FALSE], k) <=> k >= zero
      /\ Meets2([kind |-> "atLeast", count |-> one, negated |-> FALSE], k) <=> k >= one
      /\ Meets2([kind |-> "exactly", count |-> zero, negated |-> TRUE], k) <=> k # zero
      /\ Meets2([kind |-> "atLeast", count |-> one, negated |-> TRUE], k) <=> ~(k >= one)
      /\ Meets2([kind |-> "exactly", count |-> zero, negated |-> FALSE], k) <=> k = zero
  BY ThresholdIs
<1>3. k >= zero /\ (k >= one <=> k # 0)
  BY <1>1
<1>4. p = [kind |-> "atLeast", count |-> 0, negated |-> FALSE] => Meets2(p, k)
  BY <1>1, <1>2, <1>3
<1>5. ASSUME NonEmpty(p) PROVE Meets2(p, k) <=> k # 0
  <2>1. CASE p = [kind |-> "atLeast", count |-> one, negated |-> FALSE]
    BY <1>2, <1>3, <2>1
  <2>2. CASE p = [kind |-> "exactly", count |-> zero, negated |-> TRUE]
    BY <1>1, <1>2, <2>2
  <2>3. \/ p = [kind |-> "atLeast", count |-> one, negated |-> FALSE]
        \/ p = [kind |-> "exactly", count |-> zero, negated |-> TRUE]
    BY <1>1, <1>5 DEF NonEmpty
  <2> QED BY <2>1, <2>2, <2>3
<1>6. ASSUME Empty(p) PROVE (Meets2(p, k) <=> k = 0) /\ ~NonEmpty(p)
  <2>1. CASE p = [kind |-> "atLeast", count |-> one, negated |-> TRUE]
    <3>1. ~NonEmpty(p)
      BY <2>1 DEF NonEmpty
    <3> QED BY <1>2, <1>3, <2>1, <3>1
  <2>2. CASE p = [kind |-> "exactly", count |-> zero, negated |-> FALSE]
    <3>1. ~NonEmpty(p)
      BY <2>2 DEF NonEmpty
    <3> QED BY <1>1, <1>2, <2>2, <3>1
  <2>3. \/ p = [kind |-> "atLeast", count |-> one, negated |-> TRUE]
        \/ p = [kind |-> "exactly", count |-> zero, negated |-> FALSE]
    BY <1>1, <1>6 DEF Empty
  <2> QED BY <2>1, <2>2, <2>3
<1> QED BY <1>4, <1>5, <1>6

LEMMA CountIs ==
  ASSUME NEW op \in Comparisons, NEW n \in Int, NEW k \in Nat
  PROVE  Meets2(CountPredicate(op, n), k) <=> Compares(op, 2 * k, n)
<1>1. PICK floor \in Int, ceil \in Int : floor = n \div 2 /\ ceil = (n + 1) \div 2
  OBVIOUS
<1>2. 2 * floor <= n /\ n <= 2 * floor + 1 /\ 2 * ceil >= n /\ 2 * ceil <= n + 1 /\ (n % 2 = 0 <=> n = 2 * floor)
  BY <1>1
<1>3. PICK p : p = CountPredicate(op, n)
  OBVIOUS
<1>4. ASSUME NEW d \in Int
      PROVE  /\ Meets2([kind |-> "atLeast", count |-> IF d < 0 THEN 0 ELSE d, negated |-> FALSE], k) <=> k >= d
             /\ Meets2([kind |-> "atLeast", count |-> IF d < 0 THEN 0 ELSE d, negated |-> TRUE], k) <=> k < d
  <2>1. PICK t \in Int : t = IF d < 0 THEN 0 ELSE d
    OBVIOUS
  <2>2. (k >= t <=> k >= d) /\ (k < d <=> ~(k >= t))
    BY <2>1
  <2> QED BY <2>1, <2>2, ThresholdIs
<1>5. CASE op = "gt"
  <2>1. PICK d \in Int : d = floor + 1
    OBVIOUS
  <2>2. p = [kind |-> "atLeast", count |-> IF d < 0 THEN 0 ELSE d, negated |-> FALSE]
    BY <2>1, <1>1, <1>3, <1>5 DEF CountPredicate
  <2>3. Meets2(p, k) <=> k >= d
    BY <1>1, <1>4, <2>2
  <2>4. Compares(op, 2 * k, n) <=> k >= d
    BY <2>1, <1>2, <1>5 DEF Compares, Ordered
  <2> QED BY <1>3, <2>3, <2>4
<1>6. CASE op = "ge"
  <2>1. p = [kind |-> "atLeast", count |-> IF ceil < 0 THEN 0 ELSE ceil, negated |-> FALSE]
    BY <1>1, <1>3, <1>6 DEF CountPredicate
  <2>2. Meets2(p, k) <=> k >= ceil
    BY <1>1, <1>4, <2>1
  <2>3. Compares(op, 2 * k, n) <=> k >= ceil
    BY <1>2, <1>6 DEF Compares, Ordered
  <2> QED BY <1>3, <2>2, <2>3
<1>7. CASE op = "lt"
  <2>1. p = [kind |-> "atLeast", count |-> IF ceil < 0 THEN 0 ELSE ceil, negated |-> TRUE]
    BY <1>1, <1>3, <1>7 DEF CountPredicate
  <2>2. Meets2(p, k) <=> k < ceil
    BY <1>1, <1>4, <2>1
  <2>3. Compares(op, 2 * k, n) <=> k < ceil
    BY <1>2, <1>7 DEF Compares, Ordered
  <2> QED BY <1>3, <2>2, <2>3
<1>8. CASE op = "le"
  <2>1. PICK d \in Int : d = floor + 1
    OBVIOUS
  <2>2. p = [kind |-> "atLeast", count |-> IF d < 0 THEN 0 ELSE d, negated |-> TRUE]
    BY <2>1, <1>1, <1>3, <1>8 DEF CountPredicate
  <2>3. Meets2(p, k) <=> k < d
    BY <1>1, <1>4, <2>2
  <2>4. Compares(op, 2 * k, n) <=> k < d
    BY <2>1, <1>2, <1>8 DEF Compares, Ordered
  <2> QED BY <1>3, <2>3, <2>4
<1>9. CASE op \in Equalities
  <2>1. CASE n % 2 = 0 /\ n >= 0
    <3>1. p = [kind |-> "exactly", count |-> floor, negated |-> op = "ne"]
      BY <1>1, <1>3, <1>9, <2>1 DEF CountPredicate, Equalities
    <3>2. Meets2(p, k) <=> ((k = floor) # (op = "ne"))
      BY <3>1 DEF Meets2
    <3>3. k = floor <=> 2 * k = n
      BY <1>2, <2>1
    <3> QED BY <1>3, <1>9, <3>2, <3>3 DEF Compares, Ordered, Equalities
  <2>2. CASE ~(n % 2 = 0 /\ n >= 0)
    <3>1. p = [kind |-> "atLeast", count |-> 0, negated |-> op = "eq"]
      BY <1>1, <1>3, <1>9, <2>2 DEF CountPredicate, Equalities
    <3>2. Meets2(p, k) <=> ((k >= 0) # (op = "eq"))
      BY <3>1 DEF Meets2
    <3>3. 2 * k # n /\ k >= 0
      BY <1>2, <2>2
    <3> QED BY <1>3, <1>9, <3>2, <3>3 DEF Compares, Ordered, Equalities
  <2> QED BY <2>1, <2>2
<1> QED BY <1>5, <1>6, <1>7, <1>8, <1>9 DEF Comparisons, Orderings

\* What CEL says of a size.
SizeSays(op, x, lit) ==
  LET size == SizeOf(x) IN IF size = Err THEN Err ELSE CompareValues(op, [size EXCEPT !.v = 2 * @], lit)

LEMMA SizeSaysIs ==
  ASSUME NEW op \in Comparisons, NEW lit \in Value, lit.t = "num", NEW x, NEW k \in Nat,
         SizeOf(x) = [t |-> "num", v |-> k]
  PROVE  SizeSays(op, x, lit) = Bool(Compares(op, 2 * k, lit.v))
<1>1. PICK y : y = [t |-> "num", v |-> 2 * k]
  OBVIOUS
<1>2. y \in Value /\ y.t = "num" /\ y.v = 2 * k
  BY <1>1 DEF Value, WellFormed, Types, Scalars
<1>3. [SizeOf(x) EXCEPT !.v = 2 * @] = y
  BY <1>1
<1>4. SizeOf(x) # Err
  BY DEF Err
<1>5. SizeSays(op, x, lit) = CompareValues(op, y, lit)
  BY <1>3, <1>4 DEF SizeSays
<1> QED BY <1>2, <1>5, CompareSame DEF Families

\* The size of a string column.
LEMMA LengthOK ==
  ASSUME NEW c, ColumnOK(c), c.type = "str", NEW l, l.op \in Comparisons, l.lit \in Value, l.lit.t = "num",
         NEW x, Cell(c, x), NEW e, ~c.required => c.shape = "scalar"
  PROVE  CellFine(c, l, e, x, LengthCell(CountPredicate(l.op, l.lit.v), x), SizeSays(l.op, Sent(c, x), l.lit))
<1>1. CASE Typed(c, x)
  <2>1. x # Null /\ x \in Value /\ x.t = "str" /\ Sent(c, x) = x
    BY <1>1, TypedIs, FamilyIs DEF Family
  <2>2. x.v \in Nat /\ l.lit.v \in Int
    BY <2>1, ValueIs
  <2>3. SizeOf(x) = [t |-> "num", v |-> x.v]
    BY <2>1 DEF SizeOf, IsCollection
  <2>4. SizeSays(l.op, x, l.lit) = Bool(Compares(l.op, 2 * x.v, l.lit.v))
    BY <2>2, <2>3, SizeSaysIs
  <2>5. LengthCell(CountPredicate(l.op, l.lit.v), x) = Bool(Meets2(CountPredicate(l.op, l.lit.v), x.v))
    BY <2>1 DEF LengthCell, Meets2
  <2>6. Meets2(CountPredicate(l.op, l.lit.v), x.v) <=> Compares(l.op, 2 * x.v, l.lit.v)
    BY <2>2, CountIs
  <2>7. LengthCell(CountPredicate(l.op, l.lit.v), x) = SizeSays(l.op, x, l.lit) /\ SizeSays(l.op, x, l.lit) \in {True, False}
    BY <2>4, <2>5, <2>6 DEF Bool
  <2> QED BY <2>1, <2>7, ExactCell
<1>2. CASE x = Null /\ ~c.required
  <2>1. LengthCell(CountPredicate(l.op, l.lit.v), x) = Err
    BY <1>2 DEF LengthCell, Unknown
  <2>2. SizeOf(Null) = Err /\ SizeOf(Err) = Err
    BY Constants DEF SizeOf, IsCollection
  <2>3. SizeSays(l.op, Sent(c, x), l.lit) = Err
    BY <1>2, <2>2, NullIs DEF SizeSays
  <2>4. Recorded(c, l)
    BY <1>2 DEF Recorded
  <2> QED BY <1>2, <2>1, <2>3, <2>4, NullErrs
<1> QED BY <1>1, <1>2 DEF Cell

-----------------------------------------------------------------------------
(* A list column *)

\* A list that a relation leads to, of values of the column's type.
ListCell(c, x) == x \in DOMAIN Members /\ x \in Value /\ x.t = "list" /\ \A m \in Members[x] : Cell(c, m)

LEMMA ListIs ==
  ASSUME NEW c, NEW x, ListCell(c, x)
  PROVE  /\ x # Null /\ x # Err /\ x # Undefined /\ Sent(c, x) = x /\ Held(x) = Members[x]
         /\ \A is : Reached(x, is) = Bool(\E m \in Members[x] : is[m] = True)
         /\ IsFiniteSet(Members[x]) /\ IsCollection(x)
<1>1. x # Null /\ x # Err /\ x # Undefined /\ x.t = "list" /\ x \in DOMAIN Members
  BY Constants DEF ListCell
<1>2. IsFiniteSet(Members[x])
  BY <1>1, MembersAssumption
<1> QED BY <1>1, <1>2 DEF Sent, Held, Reached, IsCollection

\* handleSizeComparison
LEMMA ListSizeOK ==
  ASSUME NEW c, c.shape = "list", NEW l, l.op \in Comparisons, l.lit \in Value, l.lit.t = "num",
         LET p == CountPredicate(l.op, l.lit.v) IN Followed(c, p) \/ NonEmpty(p) \/ Empty(p),
         NEW x, ListCell(c, x), NEW e
  PROVE  CellFine(c, l, e, x, SizeCell(c, x, CountPredicate(l.op, l.lit.v)), SizeSays(l.op, Sent(c, x), l.lit))
<1>1. x # Undefined /\ Sent(c, x) = x /\ IsFiniteSet(Members[x]) /\ IsCollection(x) /\ x.t = "list"
  BY ListIs DEF ListCell
<1>2. PICK k \in Nat : k = Cardinality(Members[x])
  BY <1>1, FS_CardinalityType
<1>3. k = 0 <=> Members[x] = {}
  BY <1>1, <1>2, FS_EmptySet
<1>4. SizeOf(x) = [t |-> "num", v |-> k]
  BY <1>1, <1>2 DEF SizeOf
<1>5. SizeSays(l.op, x, l.lit) = Bool(Compares(l.op, 2 * k, l.lit.v))
  BY <1>4, SizeSaysIs
<1>6. PICK p : p = CountPredicate(l.op, l.lit.v)
  OBVIOUS
<1>7. Meets2(p, k) <=> Compares(l.op, 2 * k, l.lit.v)
  BY <1>6, CountIs, ValueIs
<1>8. SizeCell(c, x, p) = Bool(Followed(c, p) \/ ((Members[x] # {}) = NonEmpty(p)))
  BY <1>1 DEF SizeCell, Bool
<1>9. Followed(c, p) => Meets2(p, k)
  BY EmptinessIs DEF Followed
<1>10. NonEmpty(p) => (Meets2(p, k) <=> k # 0)
  BY EmptinessIs
<1>11. Empty(p) => (Meets2(p, k) <=> k = 0) /\ ~NonEmpty(p)
  BY EmptinessIs
<1>12. Followed(c, p) \/ ((Members[x] # {}) = NonEmpty(p)) <=> Meets2(p, k)
  <2>1. CASE Followed(c, p)
    BY <1>9, <2>1
  <2>2. CASE ~Followed(c, p) /\ NonEmpty(p)
    <3>1. Meets2(p, k) <=> Members[x] # {}
      BY <1>3, <1>10, <2>2
    <3>2. (Members[x] # {}) = NonEmpty(p) <=> Members[x] # {}
      BY <2>2 DEF NonEmpty
    <3> QED BY <2>2, <3>1, <3>2
  <2>3. CASE ~Followed(c, p) /\ ~NonEmpty(p) /\ Empty(p)
    <3>1. Meets2(p, k) <=> Members[x] = {}
      BY <1>3, <1>11, <2>3
    <3>2. (Members[x] # {}) = NonEmpty(p) <=> Members[x] = {}
      BY <2>3 DEF NonEmpty
    <3> QED BY <2>3, <3>1, <3>2
  <2> QED BY <1>6, <2>1, <2>2, <2>3
<1>13. SizeCell(c, x, p) = SizeSays(l.op, x, l.lit) /\ SizeSays(l.op, x, l.lit) \in {True, False}
  BY <1>5, <1>7, <1>8, <1>12 DEF Bool
<1> QED BY <1>1, <1>6, <1>13, ExactCell

\* buildMembershipFilter, of a list: a value that it shares with the constants.
LEMMA ListMembershipIs ==
  ASSUME NEW c, ColumnOK(c), NEW S, ListFor(c, S), NEW x, ListCell(c, x)
  PROVE  MembershipCell(c, x, S) = Bool(\E m \in Members[x] : m \in S)
<1>1. PICK leaf : leaf = [y \in Held(x) |->
                IF y = Null THEN Unknown
                ELSE Bool(\E m \in S \ {Null} : SqlCompare("eq", y, Bound(c, m)) = True)]
  OBVIOUS
<1>2. PICK guarded : guarded = [y \in Held(x) |-> Guarded(y, leaf[y])]
  OBVIOUS
<1>3. PICK isNull : isNull = [y \in Held(x) |-> Bool(y = Null)]
  OBVIOUS
<1>4. MembershipCell(c, x, S) =
        CASE Null \notin S -> IF c.explicit THEN Reached(x, guarded) ELSE Reached(x, leaf)
          [] S = {Null} -> Reached(x, isNull)
          [] OTHER -> Or({Reached(x, leaf), Reached(x, isNull)})
  BY <1>1, <1>2, <1>3 DEF MembershipCell
<1>5. Held(x) = Members[x] /\ (\A is : Reached(x, is) = Bool(\E m \in Members[x] : is[m] = True))
  BY ListIs
<1>6. ASSUME NEW m \in Members[x]
      PROVE  /\ leaf[m] = True <=> m # Null /\ m \in S
             /\ guarded[m] = True <=> m # Null /\ m \in S
             /\ isNull[m] = True <=> m = Null
  <2>1. Cell(c, m)
    BY DEF ListCell
  <2>2. isNull[m] = True <=> m = Null
    BY <1>3, <1>5, Constants DEF Bool
  <2>3. guarded[m] = IF m = Null THEN False ELSE leaf[m]
    BY <1>2, <1>5 DEF Guarded
  <2>4. CASE m = Null
    <3>1. leaf[m] = Err
      BY <1>1, <1>5, <2>4 DEF Unknown
    <3> QED BY <2>2, <2>3, <2>4, <3>1, Constants
  <2>5. CASE m # Null
    <3>1. Typed(c, m)
      BY <2>1, <2>5 DEF Cell
    <3>2. leaf[m] = Bool(\E k \in S \ {Null} : SqlCompare("eq", m, Bound(c, k)) = True)
      BY <1>1, <1>5, <2>5
    <3>3. \A k \in S \ {Null} : SqlCompare("eq", m, Bound(c, k)) = True <=> k = m
      BY <3>1, ListForIs
    <3>4. (\E k \in S \ {Null} : SqlCompare("eq", m, Bound(c, k)) = True) <=> m \in S
      BY <2>5, <3>3
    <3>5. leaf[m] = True <=> m \in S
      BY <3>2, <3>4, Constants DEF Bool
    <3> QED BY <2>2, <2>3, <2>5, <3>5
  <2> QED BY <2>4, <2>5
<1>7. /\ Reached(x, leaf) = Bool(\E m \in Members[x] : m # Null /\ m \in S)
      /\ Reached(x, guarded) = Bool(\E m \in Members[x] : m # Null /\ m \in S)
      /\ Reached(x, isNull) = Bool(\E m \in Members[x] : m = Null)
  <2>1. /\ (\E m \in Members[x] : leaf[m] = True) <=> \E m \in Members[x] : m # Null /\ m \in S
        /\ (\E m \in Members[x] : guarded[m] = True) <=> \E m \in Members[x] : m # Null /\ m \in S
        /\ (\E m \in Members[x] : isNull[m] = True) <=> \E m \in Members[x] : m = Null
    BY <1>6
  <2> QED BY <1>5, <2>1 DEF Bool
<1>8. CASE Null \notin S
  <2>1. MembershipCell(c, x, S) = Bool(\E m \in Members[x] : m # Null /\ m \in S)
    BY <1>4, <1>7, <1>8
  <2> QED BY <1>8, <2>1 DEF Bool
<1>9. CASE S = {Null}
  <2>1. MembershipCell(c, x, S) = Bool(\E m \in Members[x] : m = Null)
    BY <1>4, <1>7, <1>9
  <2> QED BY <1>9, <2>1 DEF Bool
<1>10. CASE Null \in S /\ S # {Null}
  <2>1. PICK y, z : y = Reached(x, leaf) /\ z = Reached(x, isNull)
    OBVIOUS
  <2>2. MembershipCell(c, x, S) = Or({y, z})
    BY <1>4, <1>10, <2>1
  <2>3. /\ y \in {True, False} /\ (y = True <=> \E m \in Members[x] : m # Null /\ m \in S)
        /\ z \in {True, False} /\ (z = True <=> \E m \in Members[x] : m = Null)
    BY <1>7, <2>1, Constants DEF Bool
  <2>4. Or({y, z}) \in {True, False} /\ (Or({y, z}) = True <=> y = True \/ z = True)
    BY <2>3, OrPair
  <2>5. y = True \/ z = True <=> \E m \in Members[x] : m \in S
    BY <1>10, <2>3
  <2> QED BY <2>2, <2>4, <2>5, Constants DEF Bool
<1> QED BY <1>8, <1>9, <1>10

\* Equality of what a list holds and what a constant list of the column holds.
LEMMA SharedValue ==
  ASSUME NEW c, ColumnOK(c), NEW S, ListFor(c, S), NEW m, Cell(c, m), NEW k \in S
  PROVE  (ValuesEqual(k, m) <=> k = m) /\ (ValuesEqual(m, k) <=> k = m)
<1>1. ASSUME NEW y \in Value, y.t \in Families PROVE ~ValuesEqual(Null, y) /\ ~ValuesEqual(y, Null) /\ y # Null
  BY <1>1, CompareNull, ValueOfFamily
<1>2. ValuesEqual(Null, Null)
  BY DEF ValuesEqual
<1>3. m = Null \/ (m \in Value /\ m.t = Family(c.type))
  BY DEF Cell, Typed
<1>4. k = Null \/ (k \in Value /\ k.t = Family(c.type))
  BY DEF ListFor
<1>5. Family(c.type) \in Families
  BY FamilyIs DEF ColumnOK
<1>6. ASSUME m # Null, k # Null PROVE (ValuesEqual(k, m) <=> k = m) /\ (ValuesEqual(m, k) <=> k = m)
  BY <1>3, <1>4, <1>5, <1>6, CompareSame DEF Comparisons, Equalities
<1> QED BY <1>1, <1>2, <1>3, <1>4, <1>5, <1>6

\* x in a list column
LEMMA MemberOK ==
  ASSUME NEW c, ColumnOK(c), NEW l, NEW lit, ListFor(c, {lit}), lit # Err, NEW x, ListCell(c, x), NEW e
  PROVE  CellFine(c, l, e, x, MembershipCell(c, x, {lit}), In(lit, Sent(c, x)))
<1>1. Sent(c, x) = x /\ IsCollection(x)
  BY ListIs
<1>2. In(lit, x) = Bool(\E m \in Members[x] : ValuesEqual(m, lit))
  BY <1>1 DEF In
<1>3. \A m \in Members[x] : ValuesEqual(m, lit) <=> m \in {lit}
  BY SharedValue DEF ListCell
<1>4. MembershipCell(c, x, {lit}) = Bool(\E m \in Members[x] : m \in {lit})
  BY ListMembershipIs
<1>5. MembershipCell(c, x, {lit}) = In(lit, x) /\ In(lit, x) \in {True, False}
  BY <1>2, <1>3, <1>4 DEF Bool
<1> QED BY <1>1, <1>5, ExactCell

\* hasIntersection of a list column
LEMMA IntersectsOK ==
  ASSUME NEW c, ColumnOK(c), NEW l, NEW lit, lit.t = "list", ListFor(c, Members[lit]), NEW x, ListCell(c, x), NEW e
  PROVE  CellFine(c, l, e, x, MembershipCell(c, x, Members[lit]), HasIntersection(Sent(c, x), lit))
<1>1. PICK S : S = Members[lit]
  OBVIOUS
<1>2. Sent(c, x) = x /\ x.t = "list"
  BY ListIs DEF ListCell
<1>3. HasIntersection(x, lit) = Bool(\E m \in Members[x], k \in S : ValuesEqual(m, k))
  BY <1>1, <1>2 DEF HasIntersection, Meets
<1>4. \A m \in Members[x], k \in S : ValuesEqual(m, k) <=> k = m
  BY <1>1, SharedValue DEF ListCell
<1>5. MembershipCell(c, x, S) = Bool(\E m \in Members[x] : m \in S)
  BY <1>1, ListMembershipIs
<1>6. (\E m \in Members[x], k \in S : ValuesEqual(m, k)) <=> \E m \in Members[x] : m \in S
  BY <1>4
<1>7. MembershipCell(c, x, S) = HasIntersection(x, lit) /\ HasIntersection(x, lit) \in {True, False}
  BY <1>3, <1>5, <1>6 DEF Bool
<1> QED BY <1>1, <1>2, <1>7, ExactCell

-----------------------------------------------------------------------------
(* Any leaf of one column *)

\* A leaf that LeavesOf gives of a column, or what pruning makes of it.
LeafOK(c, l) ==
  /\ l \in [test : Tests \ {"pair"}, op : Comparisons, lit : Value]
  /\ l.test \in {"member", "intersects"} => c.shape = "list"
  /\ l.test \in {"bare", "compare", "in", "startsWith"} => c.shape # "list"
  /\ l.test \in {"in", "intersects"} => l.lit.t = "list" /\ l.lit \in DOMAIN Members /\ Members[l.lit] # {}
  /\ l.test \notin {"in", "intersects"} => l.lit.t \in {"null", "num", "str", "bool"}
  /\ l.test = "size" => l.lit.t = "num"

\* What the row has of the column.
Holds(c, x) ==
  \/ x = Undefined /\ c.hop # "none"
  \/ c.shape # "list" /\ Cell(c, x)
  \/ c.shape = "list" /\ ListCell(c, x)

LEMMA HoldsIs ==
  ASSUME NEW c, NEW x, Holds(c, x), x # Undefined
  PROVE  (c.shape # "list" => Cell(c, x)) /\ (c.shape = "list" => ListCell(c, x))
BY DEF Holds

LEMMA ShapesIs ==
  ASSUME NEW c, NEW l, ShapesOf(c, l) = {}
  PROVE  /\ ~(l.test = "compare" /\ l.op = "ne" /\ c.explicit /\ l.lit # Null /\ c.hop = "one")
         /\ c.shape = "element" /\ (l.test \in {"bare", "size"} \/ (l.test = "compare" /\ l.op \in Orderings)) => c.required
         /\ l.test \in Membership /\ c.type = "int" => \A v \in ValuesOf(l) : ~IsFraction(v)
         /\ ~(l.test = "compare" /\ c.type = "int" /\ IsFraction(l.lit) /\ c.explicit /\ l.op \in Equalities)
<1>1. "explicitHop" \notin ShapesOf(c, l) /\ "elementError" \notin ShapesOf(c, l) /\ "coerced" \notin ShapesOf(c, l)
  OBVIOUS
<1>2. ~(l.test = "compare" /\ l.op = "ne" /\ c.explicit /\ l.lit # Null /\ c.hop = "one")
  BY <1>1 DEF ShapesOf, Disagreements
<1>3. c.shape = "element" /\ (l.test \in {"bare", "size"} \/ (l.test = "compare" /\ l.op \in Orderings)) => c.required
  BY <1>1 DEF ShapesOf, Disagreements
<1>4. l.test \in Membership /\ c.type = "int" => \A v \in ValuesOf(l) : ~IsFraction(v)
  BY <1>1 DEF ShapesOf, Disagreements
<1>5. ~(l.test = "compare" /\ c.type = "int" /\ IsFraction(l.lit) /\ c.explicit /\ l.op \in Equalities)
  <2>1. l.test = "compare" => l.test \notin Membership
    BY DEF Membership
  <2> QED BY <1>1, <2>1 DEF ShapesOf, Disagreements
<1> QED BY <1>2, <1>3, <1>4, <1>5

\* The constants of a membership that is neither refused nor coerced.
LEMMA ListForLeaf ==
  ASSUME NEW c, NEW l, LeafOK(c, l), l.test \in Membership, ~Refuses(c, l), ShapesOf(c, l) = {}
  PROVE  ListFor(c, ValuesOf(l)) /\ (Null \in ValuesOf(l) => ~c.required)
<1>1. PICK S : S = ValuesOf(l)
  OBVIOUS
<1>2. \A v \in S : IF v = Null THEN ~NullRefused(c) ELSE ~Mistyped(Family(c.type), v)
  <2>1. Refuses(c, l) = \E v \in ValuesOf(l) : IF v = Null THEN NullRefused(c) ELSE Mistyped(Family(c.type), v)
    BY DEF Refuses, Membership
  <2> QED BY <1>1, <2>1
<1>3. S # {} /\ \A v \in S : v \in Value
  <2>1. CASE l.test = "member"
    BY <1>1, <2>1 DEF ValuesOf, LeafOK
  <2>2. CASE l.test # "member"
    <3>1. S = Members[l.lit] /\ l.lit \in DOMAIN Members /\ Members[l.lit] # {}
      BY <1>1, <2>2 DEF ValuesOf, LeafOK, Membership
    <3> QED BY <3>1, MembersAssumption
  <2> QED BY <2>1, <2>2
<1>4. c.type = "int" => \A v \in S : ~IsFraction(v)
  BY <1>1, ShapesIs
<1> QED BY <1>1, <1>2, <1>3, <1>4 DEF ListFor, NullRefused, Mistyped

\* What the leaf says of a row behind an absent hop.
LEMMA TestCellAbsent ==
  ASSUME NEW c, ColumnOK(c), c.hop # "none", NEW l, LeafOK(c, l), ~Refuses(c, l), ShapesOf(c, l) = {}
  PROVE  TestCell(c, l, Undefined) = False /\ EvaluateLeaf(c, l, Undefined) = Err
<1>1. Held(Undefined) = {} /\ (\A is : Reached(Undefined, is) = False) /\ Sent(c, Undefined) = Err
  BY Constants DEF Held, Reached, Sent
<1>2. c.shape # "list" => c.hop = "one"
  BY DEF ColumnOK
<1>3. CASE l.test = "bare"
  BY <1>1, <1>3, Constants DEF TestCell, EvaluateLeaf, AsBoolean, Membership
<1>4. CASE l.test = "compare"
  <2>1. EvaluateLeaf(c, l, Undefined) = Err
    BY <1>1, <1>4 DEF EvaluateLeaf, CompareValues
  <2>2. ~(c.explicit /\ l.lit # Null /\ l.op = "ne")
    BY <1>2, <1>4, ShapesIs DEF LeafOK
  <2>3. CompareCell(c, l.op, Undefined, l.lit) = False
    BY <1>1, <2>2 DEF CompareCell, Equalities
  <2>4. TestCell(c, l, Undefined) = CompareCell(c, l.op, Undefined, l.lit)
    BY <1>4 DEF TestCell, Membership
  <2> QED BY <2>1, <2>3, <2>4
<1>5. CASE l.test \in Membership
  <2>1. EvaluateLeaf(c, l, Undefined) = Err
    BY <1>1, <1>5, Constants DEF EvaluateLeaf, Membership, In, HasIntersection, IsCollection
  <2>2. TestCell(c, l, Undefined) = MembershipCell(c, Undefined, ValuesOf(l))
    BY <1>5 DEF TestCell, Membership
  <2>3. PICK S : S = ValuesOf(l)
    OBVIOUS
  <2>4. Or({False, False}) = False
    BY OrPair, Constants
  <2>5. MembershipCell(c, Undefined, S) = False
    <3>1. PICK leaf : leaf = [y \in Held(Undefined) |->
                IF y = Null THEN Unknown
                ELSE Bool(\E m \in S \ {Null} : SqlCompare("eq", y, Bound(c, m)) = True)]
      OBVIOUS
    <3>2. PICK guarded : guarded = [y \in Held(Undefined) |-> Guarded(y, leaf[y])]
      OBVIOUS
    <3>3. PICK isNull : isNull = [y \in Held(Undefined) |-> Bool(y = Null)]
      OBVIOUS
    <3>4. MembershipCell(c, Undefined, S) =
            CASE Null \notin S -> IF c.explicit THEN Reached(Undefined, guarded) ELSE Reached(Undefined, leaf)
              [] S = {Null} -> Reached(Undefined, isNull)
              [] OTHER -> Or({Reached(Undefined, leaf), Reached(Undefined, isNull)})
      BY <3>1, <3>2, <3>3 DEF MembershipCell
    <3>5. CASE Null \notin S
      BY <1>1, <3>4, <3>5
    <3>6. CASE S = {Null}
      BY <1>1, <3>4, <3>6
    <3>7. CASE Null \in S /\ S # {Null}
      BY <1>1, <2>4, <3>4, <3>7
    <3> QED BY <3>5, <3>6, <3>7
  <2> QED BY <2>1, <2>2, <2>3, <2>5
<1>6. CASE l.test = "startsWith"
  BY <1>1, <1>6, Constants DEF TestCell, EvaluateLeaf, StartsWith, Membership
<1>7. CASE l.test = "size"
  <2>1. SizeOf(Err) = Err
    BY Constants DEF SizeOf, IsCollection
  <2>2. EvaluateLeaf(c, l, Undefined) = Err
    BY <1>1, <1>7, <2>1 DEF EvaluateLeaf
  <2>3. c.shape = "list"
    BY <1>7 DEF Refuses, Membership
  <2>4. \A p : SizeCell(c, Undefined, p) = False
    BY <2>3 DEF SizeCell, Bool
  <2>5. TestCell(c, l, Undefined) = SizeCell(c, Undefined, CountPredicate(l.op, l.lit.v))
    BY <1>7 DEF TestCell, Membership
  <2> QED BY <2>2, <2>4, <2>5
<1> QED BY <1>3, <1>4, <1>5, <1>6, <1>7 DEF LeafOK, Tests, Membership

\* A leaf of a column of one value that is there.
LEMMA TestCellOfOne ==
  ASSUME NEW c, ColumnOK(c), c.shape # "list", NEW l, LeafOK(c, l), ~Refuses(c, l), ShapesOf(c, l) = {},
         NEW x, Cell(c, x), NEW e
  PROVE  CellFine(c, l, e, x, TestCell(c, l, x), EvaluateLeaf(c, l, x))
<1>1. Held(x) = {x} /\ (\A is : Reached(x, is) = is[x])
  BY TypedIs, NullIs DEF Cell
<1>2. l.op \in Comparisons /\ l.lit \in Value
  BY DEF LeafOK
<1>3. c.shape = "scalar" \/ (c.shape = "element" /\ ~c.required => l.test \notin {"bare", "size"} /\ ~(l.test = "compare" /\ l.op \in Orderings))
  BY ShapesIs
<1>4. c.shape \in {"scalar", "element"}
  BY DEF ColumnOK
<1>5. CASE l.test = "bare"
  <2>1. EvaluateLeaf(c, l, x) = AsBoolean(Sent(c, x))
    BY <1>5 DEF EvaluateLeaf
  <2>2. TestCell(c, l, x) = SqlCompare("eq", x, True)
    BY <1>1, <1>5 DEF TestCell, Membership
  <2>3. c.type = "bool"
    BY <1>5 DEF Refuses, Membership
  <2>4. ~c.required => c.shape = "scalar"
    BY <1>3, <1>4, <1>5
  <2> QED BY <2>1, <2>2, <2>3, <2>4, BareOK
<1>6. CASE l.test = "compare"
  <2>1. EvaluateLeaf(c, l, x) = CompareValues(l.op, Sent(c, x), l.lit)
    BY <1>6 DEF EvaluateLeaf
  <2>2. TestCell(c, l, x) = CompareCell(c, l.op, x, l.lit)
    BY <1>6 DEF TestCell, Membership
  <2>3. ~(IF l.lit = Null THEN NullRefused(c) \/ l.op \in Orderings ELSE Mistyped(Family(c.type), l.lit))
    BY <1>6 DEF Refuses, Membership
  <2>4. CASE l.lit = Null
    <3>1. ~c.omitted /\ l.op \in Equalities
      BY <1>2, <2>3, <2>4 DEF NullRefused, Comparisons
    <3> QED BY <2>1, <2>2, <2>4, <3>1, CompareToNull
  <2>5. CASE l.lit # Null
    <3>1. l.lit.t = Family(c.type)
      BY <2>3, <2>5 DEF Mistyped
    <3>2. CASE Typed(c, x)
      <4>1. ~(c.type = "int" /\ IsFraction(l.lit) /\ c.explicit /\ l.op \in Equalities)
        BY <1>6, ShapesIs
      <4>2. PICK op, lit : op = l.op /\ lit = l.lit
        OBVIOUS
      <4>3. CompareCell(c, op, x, lit) = CompareValues(op, x, lit) /\ CompareValues(op, x, lit) \in {True, False}
        BY <1>2, <3>1, <3>2, <4>1, <4>2, CompareTyped
      <4>4. Sent(c, x) = x
        BY <3>2, TypedIs
      <4> QED BY <2>1, <2>2, <4>2, <4>3, <4>4, ExactCell
    <3>3. CASE x = Null /\ ~c.required
      <4>1. c.shape = "scalar" \/ (c.shape = "element" /\ l.op \in Equalities)
        BY <1>2, <1>3, <1>4, <1>6, <3>3 DEF Comparisons
      <4> QED BY <1>2, <2>1, <2>2, <3>1, <3>3, <4>1, CompareAtNull
    <3> QED BY <3>2, <3>3 DEF Cell
  <2> QED BY <2>4, <2>5
<1>7. CASE l.test = "in"
  <2>1. EvaluateLeaf(c, l, x) = In(Sent(c, x), l.lit)
    BY <1>7 DEF EvaluateLeaf
  <2>2. PICK S : S = Members[l.lit]
    OBVIOUS
  <2>3. ValuesOf(l) = S
    BY <1>7, <2>2 DEF ValuesOf
  <2>4. TestCell(c, l, x) = MembershipCell(c, x, S)
    BY <1>7, <2>3 DEF TestCell, Membership
  <2>5. ListFor(c, S) /\ (Null \in S => ~c.required)
    BY <1>7, <2>3, ListForLeaf DEF Membership
  <2>6. IsCollection(l.lit)
    BY <1>7 DEF LeafOK, IsCollection
  <2> QED BY <2>1, <2>2, <2>4, <2>5, <2>6, MembershipOK
<1>8. CASE l.test = "startsWith"
  <2>1. EvaluateLeaf(c, l, x) = StartsWith(Sent(c, x), l.lit)
    BY <1>8 DEF EvaluateLeaf
  <2>2. TestCell(c, l, x) = IF x = Null THEN Unknown ELSE StartsWith(x, l.lit)
    BY <1>1, <1>8 DEF TestCell, Membership
  <2>3. c.type = "str" /\ l.lit.t = "str"
    BY <1>8 DEF Refuses, Membership
  <2> QED BY <1>8, <2>1, <2>2, <2>3, StartsOK
<1>9. CASE l.test = "size"
  <2>1. EvaluateLeaf(c, l, x) = SizeSays(l.op, Sent(c, x), l.lit)
    BY <1>9 DEF EvaluateLeaf, SizeSays
  <2>2. TestCell(c, l, x) = LengthCell(CountPredicate(l.op, l.lit.v), x)
    BY <1>9 DEF TestCell, Membership, SizeCell
  <2>3. c.known = "str"
    BY <1>9 DEF Refuses, Membership
  <2>4. c.type = "str"
    BY <2>3, FamilyIs DEF ColumnOK
  <2>5. l.lit.t = "num"
    BY <1>9 DEF LeafOK
  <2>6. ~c.required => c.shape = "scalar"
    BY <1>3, <1>4, <1>9
  <2> QED BY <1>2, <2>1, <2>2, <2>4, <2>5, <2>6, LengthOK
<1> QED BY <1>5, <1>6, <1>7, <1>8, <1>9 DEF LeafOK, Tests

\* A leaf of a list column that is there.
LEMMA TestCellOfList ==
  ASSUME NEW c, ColumnOK(c), c.shape = "list", NEW l, LeafOK(c, l), ~Refuses(c, l), ShapesOf(c, l) = {},
         NEW x, ListCell(c, x), NEW e
  PROVE  CellFine(c, l, e, x, TestCell(c, l, x), EvaluateLeaf(c, l, x))
<1>1. l.op \in Comparisons /\ l.lit \in Value
  BY DEF LeafOK
<1>2. CASE l.test = "member"
  <2>1. EvaluateLeaf(c, l, x) = In(l.lit, Sent(c, x))
    BY <1>2 DEF EvaluateLeaf
  <2>2. ValuesOf(l) = {l.lit}
    BY <1>2 DEF ValuesOf
  <2>3. TestCell(c, l, x) = MembershipCell(c, x, {l.lit})
    BY <1>2, <2>2 DEF TestCell, Membership
  <2>4. ListFor(c, {l.lit})
    BY <1>2, <2>2, ListForLeaf DEF Membership
  <2>5. l.lit # Err
    BY <1>2, Constants DEF LeafOK
  <2> QED BY <2>1, <2>3, <2>4, <2>5, MemberOK
<1>3. CASE l.test = "intersects"
  <2>1. EvaluateLeaf(c, l, x) = HasIntersection(Sent(c, x), l.lit)
    BY <1>3 DEF EvaluateLeaf
  <2>2. ValuesOf(l) = Members[l.lit]
    BY <1>3 DEF ValuesOf
  <2>3. TestCell(c, l, x) = MembershipCell(c, x, Members[l.lit])
    BY <1>3, <2>2 DEF TestCell, Membership
  <2>4. ListFor(c, Members[l.lit])
    BY <1>3, <2>2, ListForLeaf DEF Membership
  <2>5. l.lit.t = "list"
    BY <1>3 DEF LeafOK
  <2> QED BY <2>1, <2>3, <2>4, <2>5, IntersectsOK
<1>4. CASE l.test = "size"
  <2>1. EvaluateLeaf(c, l, x) = SizeSays(l.op, Sent(c, x), l.lit)
    BY <1>4 DEF EvaluateLeaf, SizeSays
  <2>2. TestCell(c, l, x) = SizeCell(c, x, CountPredicate(l.op, l.lit.v))
    BY <1>4 DEF TestCell, Membership
  <2>3. PICK p : p = CountPredicate(l.op, l.lit.v)
    OBVIOUS
  <2>4. Followed(c, p) \/ NonEmpty(p) \/ Empty(p)
    BY <1>4, <2>3 DEF Refuses, Membership
  <2>5. l.lit.t = "num"
    BY <1>4 DEF LeafOK
  <2> QED BY <1>1, <2>1, <2>2, <2>3, <2>4, <2>5, ListSizeOK
<1> QED BY <1>2, <1>3, <1>4 DEF LeafOK, Tests

LEMMA TestCellOK ==
  ASSUME NEW c, ColumnOK(c), NEW l, LeafOK(c, l), ~Refuses(c, l), ShapesOf(c, l) = {},
         NEW x, Holds(c, x), NEW e
  PROVE  CellFine(c, l, e, x, TestCell(c, l, x), EvaluateLeaf(c, l, x))
<1>1. CASE x = Undefined /\ c.hop # "none"
  <2>1. TestCell(c, l, Undefined) = False /\ EvaluateLeaf(c, l, Undefined) = Err
    BY <1>1, TestCellAbsent
  <2> QED BY <1>1, <2>1, UndefinedCell
<1>2. CASE c.shape # "list" /\ Cell(c, x)
  BY <1>2, TestCellOfOne
<1>3. CASE c.shape = "list" /\ ListCell(c, x)
  BY <1>3, TestCellOfList
<1> QED BY <1>1, <1>2, <1>3 DEF Holds

-----------------------------------------------------------------------------
(* The form of a leaf *)

LEMMA CompareTri == \A op, x, y : CompareValues(op, x, y) \in Tri /\ SqlCompare(op, x, y) \in Tri
BY Constants DEF CompareValues, SqlCompare, Unknown, Tri, Bool

LEMMA ReachedTri ==
  ASSUME NEW x, NEW is, \A y \in Held(x) : is[y] \in Tri
  PROVE  Reached(x, is) \in Tri
<1>1. CASE x = Undefined
  BY <1>1, Constants DEF Reached, Tri
<1>2. CASE x # Undefined /\ x.t = "list"
  BY <1>2, Constants DEF Reached, Tri
<1>3. CASE x # Undefined /\ x.t # "list"
  <2>1. Held(x) = {x}
    BY <1>3 DEF Held
  <2> QED BY <1>3, <2>1 DEF Reached
<1> QED BY <1>1, <1>2, <1>3

LEMMA BracketTri ==
  ASSUME NEW c, NEW op, NEW x, NEW lit
  PROVE  FractionalBracket(c, op, x, lit) \in Tri
<1>1. \A y, z \in Tri : And({y, z}) \in Tri /\ Or({y, z}) \in Tri
  BY AndIs, OrIs
<1>2. \A y, z, w \in Tri : And({y, z, w}) \in Tri /\ Not(And({y, z, w})) \in Tri
  <2>1. \A y, z, w \in Tri : And({y, z, w}) \in Tri
    BY AndIs
  <2> QED BY <2>1, NotIs
<1>3. CASE op = "gt"
  BY <1>1, <1>3, CompareTri DEF FractionalBracket
<1>4. CASE op = "ge"
  BY <1>1, <1>4, CompareTri DEF FractionalBracket
<1>5. CASE op = "lt"
  BY <1>1, <1>5, CompareTri DEF FractionalBracket
<1>6. CASE op = "le"
  BY <1>1, <1>6, CompareTri DEF FractionalBracket
<1>7. CASE op = "eq"
  BY <1>2, <1>7, CompareTri DEF FractionalBracket
<1>8. CASE op \notin {"gt", "ge", "lt", "le", "eq"}
  BY <1>2, <1>8, CompareTri DEF FractionalBracket
<1> QED BY <1>3, <1>4, <1>5, <1>6, <1>7, <1>8

LEMMA CompareCellTri ==
  ASSUME NEW c, NEW op, NEW x, NEW lit
  PROVE  CompareCell(c, op, x, lit) \in Tri
<1>1. PICK equals : equals = [y \in Held(x) |-> Guarded(y, SqlCompare("eq", y, Bound(c, lit)))]
  OBVIOUS
<1>2. PICK plain : plain = [y \in Held(x) |->
                 IF lit = Null THEN Bool((op = "eq") = (y = Null))
                 ELSE IF IsFraction(lit) THEN FractionalBracket(c, op, y, lit)
                 ELSE SqlCompare(op, y, lit)]
  OBVIOUS
<1>3. CompareCell(c, op, x, lit) =
        IF c.explicit /\ lit # Null /\ op \in Equalities
        THEN IF op = "eq" THEN Reached(x, equals) ELSE Not(Reached(x, equals))
        ELSE Reached(x, plain)
  BY <1>1, <1>2 DEF CompareCell
<1>4. \A y \in Held(x) : equals[y] \in Tri
  BY <1>1, CompareTri, Constants DEF Guarded, Tri
<1>5. \A y \in Held(x) : plain[y] \in Tri
  BY <1>2, CompareTri, BracketTri, BoolIs
<1>6. Reached(x, equals) \in Tri /\ Reached(x, plain) \in Tri
  BY <1>4, <1>5, ReachedTri
<1> QED BY <1>3, <1>6, NotIs

LEMMA MembershipCellTri ==
  ASSUME NEW c, NEW x, NEW S
  PROVE  MembershipCell(c, x, S) \in Tri
<1>1. PICK leaf : leaf = [y \in Held(x) |->
                IF y = Null THEN Unknown
                ELSE Bool(\E m \in S \ {Null} : SqlCompare("eq", y, Bound(c, m)) = True)]
  OBVIOUS
<1>2. PICK guarded : guarded = [y \in Held(x) |-> Guarded(y, leaf[y])]
  OBVIOUS
<1>3. PICK isNull : isNull = [y \in Held(x) |-> Bool(y = Null)]
  OBVIOUS
<1>4. MembershipCell(c, x, S) =
        CASE Null \notin S -> IF c.explicit THEN Reached(x, guarded) ELSE Reached(x, leaf)
          [] S = {Null} -> Reached(x, isNull)
          [] OTHER -> Or({Reached(x, leaf), Reached(x, isNull)})
  BY <1>1, <1>2, <1>3 DEF MembershipCell
<1>5. \A y \in Held(x) : leaf[y] \in Tri
  BY <1>1, Constants DEF Tri
<1>6. \A y \in Held(x) : guarded[y] \in Tri /\ isNull[y] \in Tri
  BY <1>2, <1>3, <1>5, Constants DEF Guarded, Tri
<1>7. PICK a, b, d : a = Reached(x, leaf) /\ b = Reached(x, guarded) /\ d = Reached(x, isNull)
  OBVIOUS
<1>8. a \in Tri /\ b \in Tri /\ d \in Tri
  BY <1>5, <1>6, <1>7, ReachedTri
<1>9. Or({a, d}) \in Tri
  BY <1>8, OrIs
<1>10. CASE Null \notin S
  BY <1>4, <1>7, <1>8, <1>10
<1>11. CASE S = {Null}
  BY <1>4, <1>7, <1>8, <1>11
<1>12. CASE Null \in S /\ S # {Null}
  BY <1>4, <1>7, <1>9, <1>12
<1> QED BY <1>10, <1>11, <1>12

LEMMA TestCellTri ==
  ASSUME NEW c, NEW l, l.test \in Tests, NEW x
  PROVE  TestCell(c, l, x) \in Tri
<1>1. CASE l.test = "bare"
  <2>1. PICK is : is = [y \in Held(x) |-> SqlCompare("eq", y, True)]
    OBVIOUS
  <2>2. TestCell(c, l, x) = Reached(x, is)
    BY <1>1, <2>1 DEF TestCell, Membership
  <2> QED BY <2>1, <2>2, CompareTri, ReachedTri
<1>2. CASE l.test = "compare"
  BY <1>2, CompareCellTri DEF TestCell, Membership
<1>3. CASE l.test \in Membership
  BY <1>3, MembershipCellTri DEF TestCell, Membership
<1>4. CASE l.test = "startsWith"
  <2>1. PICK is : is = [y \in Held(x) |-> IF y = Null THEN Unknown ELSE StartsWith(y, l.lit)]
    OBVIOUS
  <2>2. TestCell(c, l, x) = Reached(x, is)
    BY <1>4, <2>1 DEF TestCell, Membership
  <2>3. \A y \in Held(x) : is[y] \in Tri
    BY <2>1, Constants DEF StartsWith, Tri
  <2> QED BY <2>2, <2>3, ReachedTri
<1>5. CASE l.test \in {"size", "pair"}
  <2>1. PICK p : p = CountPredicate(l.op, l.lit.v)
    OBVIOUS
  <2>2. TestCell(c, l, x) = SizeCell(c, x, p)
    BY <1>5, <2>1 DEF TestCell, Membership
  <2> QED BY <2>2, Constants DEF SizeCell, LengthCell, Tri
<1> QED BY <1>1, <1>2, <1>3, <1>4, <1>5 DEF Tests, Membership

LEMMA EvaluateTri ==
  ASSUME NEW c, ColumnOK(c), NEW l, LeafOK(c, l), NEW x, Holds(c, x)
  PROVE  EvaluateLeaf(c, l, x) \in Tri
<1>1. PICK v : v = Sent(c, x)
  OBVIOUS
<1>2. v = Err \/ v = Null \/ v \in Value
  BY <1>1 DEF Sent, Holds, Cell, ListCell, Typed
<1>3. AsBoolean(v) \in Tri
  BY <1>2, ValueIs, Constants DEF AsBoolean, Tri
<1>4. In(v, l.lit) \in Tri /\ In(l.lit, v) \in Tri /\ HasIntersection(v, l.lit) \in Tri /\ StartsWith(v, l.lit) \in Tri
  BY Constants DEF In, HasIntersection, StartsWith, Tri
<1>5. l.test \in Tests \ {"pair"}
  BY DEF LeafOK
<1>6. CASE l.test = "size"
  <2>1. EvaluateLeaf(c, l, x) = SizeSays(l.op, v, l.lit)
    BY <1>1, <1>6 DEF EvaluateLeaf, SizeSays
  <2> QED BY <2>1, CompareTri, Constants DEF SizeSays, Tri
<1>7. CASE l.test # "size"
  BY <1>1, <1>3, <1>4, <1>5, <1>7, CompareTri DEF EvaluateLeaf, Tests
<1> QED BY <1>6, <1>7

LEMMA ColumnFormIs ==
  ASSUME NEW E, NEW c, NEW xs, DOMAIN xs = E, NEW recorded, NEW yes \in FilterOn(E)
  PROVE  \E f \in FormOn(E) :
           /\ f.const = Undefined /\ ~f.macro /\ (f.hopped <=> c.hop # "none") /\ f.yes = yes
           /\ \A e \in E : (f.present[e] <=> xs[e] # Undefined) /\ (f.nulls[e] <=> recorded /\ xs[e] = Null)
           /\ ColumnForm(c, xs, recorded, yes) = NegateRequiringHops(f)
<1>1. PICK present \in [E -> BOOLEAN] : present = [e \in E |-> xs[e] # Undefined]
  OBVIOUS
<1>2. PICK nulls \in [E -> BOOLEAN] : nulls = [e \in E |-> recorded /\ xs[e] = Null]
  OBVIOUS
<1>3. PICK hopped \in BOOLEAN : hopped = (c.hop # "none")
  OBVIOUS
<1>4. PICK form : form = Form(Undefined, present, nulls, yes)
  OBVIOUS
<1>5. form \in FormOn(E) /\ form.const = Undefined /\ ~form.macro /\ form.yes = yes
      /\ form.present = present /\ form.nulls = nulls
  <2>1. form = [const |-> Undefined, macro |-> FALSE, hopped |-> FALSE, present |-> present, nulls |-> nulls,
                yes |-> yes, no |-> yes]
    BY <1>4 DEF Form
  <2> QED BY <2>1 DEF FormOn
<1>6. PICK f : f = [form EXCEPT !.hopped = hopped]
  OBVIOUS
<1>7. /\ f \in FormOn(E) /\ f.const = Undefined /\ ~f.macro /\ f.hopped = hopped /\ f.yes = yes
      /\ f.present = present /\ f.nulls = nulls
  BY <1>5, <1>6 DEF FormOn
<1>8. ColumnForm(c, xs, recorded, yes) = NegateRequiringHops(f)
  BY <1>1, <1>2, <1>3, <1>4, <1>6 DEF ColumnForm
<1> QED BY <1>1, <1>2, <1>3, <1>7, <1>8

\* A column's filter, from what it says of each value.
LEMMA ColumnFormOK ==
  ASSUME NEW s, NEW p, NEW c, NEW xs, DOMAIN xs = EnvsOf(s), NEW recorded, NEW yes \in FilterOn(EnvsOf(s)),
         NEW v, NEW g,
         s # "root" => c.hop = "none",
         \A e \in EnvsOf(s) :
           /\ xs[e] = Undefined => g[e] /\ c.hop # "none"
           /\ Tr(yes) => CellOK(yes.is[e], v[e], g[e], xs[e] # Undefined)
           /\ s # "root" => /\ recorded /\ xs[e] = Null => g[e]
                            /\ Tr(yes) /\ yes.is[e] = Err => recorded /\ xs[e] = Null
  PROVE  FormOK(s, p, ColumnForm(c, xs, recorded, yes), v, g) /\ ColumnForm(c, xs, recorded, yes).const = Undefined
<1>1. PICK E : E = EnvsOf(s)
  OBVIOUS
<1>2. PICK f \in FormOn(E) :
        /\ f.const = Undefined /\ ~f.macro /\ (f.hopped <=> c.hop # "none") /\ f.yes = yes
        /\ \A e \in E : (f.present[e] <=> xs[e] # Undefined) /\ (f.nulls[e] <=> recorded /\ xs[e] = Null)
        /\ ColumnForm(c, xs, recorded, yes) = NegateRequiringHops(f)
  BY <1>1, ColumnFormIs
<1>3. PICK n : n = RequiringHops(f, Negate(f.yes))
  OBVIOUS
<1>4. NegateRequiringHops(f) = [f EXCEPT !.no = n] /\ NegationOf(n, f, E)
  BY <1>2, <1>3, NegateRequiringHopsIs
<1>5. ASSUME NEW e \in E
      PROVE  /\ HopsOK(f, g, e)
             /\ Tr(f.yes) => CellOK(f.yes.is[e], v[e], g[e], ~f.macro /\ f.present[e])
             /\ s # "root" => /\ ~f.macro /\ ~f.hopped /\ (f.nulls[e] => g[e])
                              /\ Tr(f.yes) /\ f.yes.is[e] = Err => f.nulls[e]
  <2>1. /\ xs[e] = Undefined => g[e] /\ c.hop # "none"
        /\ Tr(yes) => CellOK(yes.is[e], v[e], g[e], xs[e] # Undefined)
        /\ s # "root" => /\ recorded /\ xs[e] = Null => g[e]
                         /\ Tr(yes) /\ yes.is[e] = Err => recorded /\ xs[e] = Null
    BY <1>1
  <2>2. HopsOK(f, g, e)
    BY <1>2, <2>1 DEF HopsOK
  <2>3. Tr(f.yes) => CellOK(f.yes.is[e], v[e], g[e], ~f.macro /\ f.present[e])
    BY <1>2, <2>1 DEF CellOK
  <2>4. ASSUME s # "root"
        PROVE /\ ~f.macro /\ ~f.hopped /\ (f.nulls[e] => g[e])
              /\ Tr(f.yes) /\ f.yes.is[e] = Err => f.nulls[e]
    BY <1>2, <2>1, <2>4
  <2> QED BY <2>2, <2>3, <2>4
<1>6. FormOK(s, p, [f EXCEPT !.no = n], v, g)
  BY <1>1, <1>2, <1>4, <1>5, FormOfCells
<1>7. [f EXCEPT !.no = n].const = Undefined
  BY <1>2 DEF FormOn
<1> QED BY <1>2, <1>4, <1>6, <1>7

\* The values of a column at each environment of a scope.
Column1(s, c, xs) ==
  /\ ColumnOK(c) /\ DOMAIN xs = EnvsOf(s)
  /\ s # "root" => c.hop = "none" /\ c.shape # "list"
  /\ \A e \in EnvsOf(s) : Holds(c, xs[e])

LEMMA EnvIs == \A s, e : s # "root" /\ e \in EnvsOf(s) => e # Root
BY DEF EnvsOf, Rows, Root

\* What buildPrismaFilter and buildNegatedFilter make of the leaf.
LEMMA EmittedOK ==
  ASSUME NEW s, NEW p, NEW c, NEW xs, Column1(s, c, xs), NEW l, LeafOK(c, l), NEW v, NEW g,
         \A e \in EnvsOf(s) : v[e] = EvaluateLeaf(c, l, xs[e]) /\ g[e] = Gap(c, e, xs[e])
  PROVE  FormOK(s, p, Emitted(c, l, xs), v, g) /\ Emitted(c, l, xs).const = Undefined
<1>1. PICK E : E = EnvsOf(s)
  OBVIOUS
<1>2. ColumnOK(c) /\ DOMAIN xs = E /\ (s # "root" => c.hop = "none") /\ \A e \in E : Holds(c, xs[e])
  BY <1>1 DEF Column1
<1>3. PICK is : is = [e \in E |-> TestCell(c, l, xs[e])]
  OBVIOUS
<1>4. PICK odd \in SUBSET Disagreements : odd = ShapesOf(c, l)
  BY DEF ShapesOf
<1>5. l.test \in Tests
  BY DEF LeafOK
<1>6. is \in [E -> Tri] /\ \A e \in E : is[e] = TestCell(c, l, xs[e])
  BY <1>3, <1>5, TestCellTri
<1>7. PICK yes : yes = Unless(Refuses(c, l), Filter(is, odd))
  OBVIOUS
<1>8. yes \in FilterOn(E) /\ (Tr(yes) => ~Refuses(c, l) /\ ShapesOf(c, l) = {} /\ yes.is = is)
  <2>1. CASE Refuses(c, l)
    <3>1. yes = Refusal
      BY <1>7, <2>1 DEF Unless
    <3> QED BY <3>1, RefusalIs
  <2>2. CASE ~Refuses(c, l)
    <3>1. yes = Filter(is, odd)
      BY <1>7, <2>2 DEF Unless
    <3>2. yes \in FilterOn(E) /\ yes.is = is /\ yes.odd = odd
      BY <1>6, <3>1, FilterOf
    <3> QED BY <1>4, <2>2, <3>2 DEF Tr
  <2> QED BY <2>1, <2>2
<1>9. PICK recorded : recorded = Recorded(c, l)
  OBVIOUS
<1>10. Emitted(c, l, xs) = ColumnForm(c, xs, recorded, yes)
  BY <1>2, <1>3, <1>4, <1>7, <1>9 DEF Emitted
<1>11. ASSUME NEW e \in E
       PROVE  /\ xs[e] = Undefined => g[e] /\ c.hop # "none"
              /\ Tr(yes) => CellOK(yes.is[e], v[e], g[e], xs[e] # Undefined)
              /\ s # "root" => /\ recorded /\ xs[e] = Null => g[e]
                               /\ Tr(yes) /\ yes.is[e] = Err => recorded /\ xs[e] = Null
  <2>1. PICK x : x = xs[e]
    OBVIOUS
  <2>2. Holds(c, x) /\ v[e] = EvaluateLeaf(c, l, x) /\ g[e] = Gap(c, e, x)
    BY <1>1, <1>2, <2>1
  <2>3. x = Undefined => g[e] /\ c.hop # "none"
    <3>1. \A y : Cell(c, y) \/ ListCell(c, y) => y # Undefined
      BY <1>2, TypedIs, NullIs, ListIs DEF Cell
    <3> QED BY <2>2, <3>1 DEF Gap, Holds
  <2>4. Tr(yes) => CellFine(c, l, e, x, yes.is[e], v[e])
    <3>1. ASSUME Tr(yes) PROVE CellFine(c, l, e, x, yes.is[e], v[e])
      <4>1. CellFine(c, l, e, x, TestCell(c, l, x), EvaluateLeaf(c, l, x))
        BY <1>2, <1>8, <2>2, <3>1, TestCellOK
      <4>2. yes.is[e] = TestCell(c, l, x)
        BY <1>6, <1>8, <2>1, <3>1
      <4> QED BY <2>2, <4>1, <4>2
    <3> QED BY <3>1
  <2>5. s # "root" => e # Root
    BY <1>1, EnvIs
  <2>6. x = Null /\ e # Root => Gap(c, e, x)
    BY DEF Gap
  <2> QED BY <1>9, <2>1, <2>2, <2>3, <2>4, <2>5, <2>6 DEF CellFine
<1> QED BY <1>1, <1>2, <1>8, <1>10, <1>11, ColumnFormOK

-----------------------------------------------------------------------------
(* What the types decide *)

\* What is found of w is found of v, but for what may be lost.
Agrees(E, v, w, g) ==
  \A e \in E : /\ w[e] = True => v[e] = True
               /\ v[e] = True /\ ~g[e] => w[e] = True
               /\ w[e] = False => v[e] = False
               /\ v[e] = False /\ ~g[e] => w[e] = False

\* The outcomes hold of every value, and where a column has to be there the test says so.
Decides(E, o, odd, v, w, g) ==
  /\ o.values \subseteq BOOLEAN /\ o.test \in {"none", "missing", "reached"}
  /\ o.test = "reached" => o.error
  /\ o.test # "none" => o.values \in {{TRUE}, {FALSE}}
  /\ \A e \in E : /\ o.test # "missing" /\ TRUE \notin o.values => v[e] # True
                  /\ o.test # "missing" /\ FALSE \notin o.values => v[e] # False
                  /\ ~o.error /\ odd = {} => v[e] = Bool(TRUE \in o.values)
  /\ o.test # "none" /\ o.error =>
       /\ TRUE \in o.values => Agrees(E, v, w, g)
       /\ TRUE \notin o.values => Agrees(E, v, [e \in E |-> Not(w[e])], g)

LEMMA SettledConstant ==
  ASSUME NEW s, NEW p, NEW b \in {True, False}, NEW odd \in SUBSET Disagreements, NEW v, NEW g,
         odd = {} => \A e \in EnvsOf(s) :
           /\ p # "negative" => /\ b = True => v[e] = True
                                /\ b = False => v[e] # True \/ g[e]
           /\ p # "positive" => /\ b = False => v[e] = False
                                /\ b = True => v[e] # False \/ g[e]
  PROVE  FormOK(s, p, Constant(EnvsOf(s), b, odd), v, g)
<1>1. PICK f : f = Constant(EnvsOf(s), b, odd)
  OBVIOUS
<1>2. ShapeOK(s, f, g) /\ f.const = b /\ f.const # Undefined /\ f.yes.odd = odd
  BY <1>1, ConstantShape
<1>3. FormOK(s, p, f, v, g)
  BY <1>2, ConstantForm
<1> QED BY <1>1, <1>3

LEMMA SettledPresence ==
  ASSUME NEW s, NEW p \in Polarities, NEW o, NEW odd, NEW v, NEW w, NEW g, NEW present,
         Verdicts(s, w, g), \A q \in Polarities : FormOK(s, q, present, w, g),
         Decides(EnvsOf(s), o, odd, v, w, g), o.test # "none", o.error
  PROVE  /\ TRUE \in o.values => FormOK(s, p, present, v, g)
         /\ TRUE \notin o.values => FormOK(s, p, NotForm(present), v, g)
<1>1. ASSUME TRUE \in o.values PROVE FormOK(s, p, present, v, g)
  <2>1. Agrees(EnvsOf(s), v, w, g)
    BY <1>1 DEF Decides
  <2>2. FormOK(s, p, present, w, g)
    OBVIOUS
  <2> QED BY <2>1, <2>2, Refines DEF Agrees
<1>2. ASSUME TRUE \notin o.values PROVE FormOK(s, p, NotForm(present), v, g)
  <2>1. PICK n : n = [e \in EnvsOf(s) |-> Not(w[e])]
    OBVIOUS
  <2>2. Agrees(EnvsOf(s), v, n, g)
    BY <1>2, <2>1 DEF Decides
  <2>3. FormOK(s, Opposite(p), present, w, g)
    BY OppositeIs
  <2>4. FormOK(s, p, NotForm(present), n, g)
    BY <2>1, <2>3, NegatedForm
  <2> QED BY <2>2, <2>4, Refines DEF Agrees
<1> QED BY <1>1, <1>2

\* settleTypeMismatches
LEMMA SettledOK ==
  ASSUME NEW s, NEW p \in Polarities, NEW o, NEW odd \in SUBSET Disagreements, NEW v, NEW w, NEW g,
         NEW present, NEW emitted,
         o.test # "none" => Verdicts(s, w, g) /\ \A q \in Polarities : FormOK(s, q, present, w, g),
         Decides(EnvsOf(s), o, odd, v, w, g), FormOK(s, p, emitted, v, g)
  PROVE  FormOK(s, p, Settled(p, o, EnvsOf(s), present, odd, emitted), v, g)
<1>1. PICK E : E = EnvsOf(s)
  OBVIOUS
<1>2. PICK f : f = Settled(p, o, E, present, odd, emitted)
  OBVIOUS
<1>3. /\ o.values \subseteq BOOLEAN /\ o.test \in {"none", "missing", "reached"}
      /\ o.test = "reached" => o.error
      /\ o.test # "none" => o.values \in {{TRUE}, {FALSE}}
      /\ \A e \in E : /\ o.test # "missing" /\ TRUE \notin o.values => v[e] # True
                      /\ o.test # "missing" /\ FALSE \notin o.values => v[e] # False
                      /\ ~o.error /\ odd = {} => v[e] = Bool(TRUE \in o.values)
  BY <1>1 DEF Decides
<1>4. CASE p = "unfixed"
  BY <1>1, <1>4 DEF Settled
<1>5. CASE p # "unfixed" /\ o.test = "missing" /\ o.error
  <2>1. /\ TRUE \in o.values => FormOK(s, p, present, v, g)
        /\ TRUE \notin o.values => FormOK(s, p, NotForm(present), v, g)
    BY <1>5, SettledPresence
  <2>2. f = IF TRUE \in o.values THEN present ELSE NotForm(present)
    BY <1>2, <1>5 DEF Settled
  <2> QED BY <1>1, <1>2, <2>1, <2>2
<1>6. ASSUME ~o.error, f = Constant(E, Bool(TRUE \in o.values), odd) PROVE FormOK(s, p, f, v, g)
  <2>1. PICK b \in {True, False} : b = Bool(TRUE \in o.values)
    BY Constants
  <2>2. odd = {} => \A e \in E : v[e] = b
    BY <1>3, <1>6, <2>1
  <2>3. FormOK(s, p, Constant(E, b, odd), v, g)
    BY <1>1, <2>2, SettledConstant, Constants
  <2> QED BY <1>6, <2>1, <2>3
<1>7. CASE p # "unfixed" /\ o.test = "missing" /\ ~o.error
  <2>1. f = Constant(E, Bool(TRUE \in o.values), odd)
    BY <1>2, <1>7 DEF Settled
  <2> QED BY <1>1, <1>2, <1>6, <1>7, <2>1
<1>8. CASE p = "positive" /\ o.test # "missing" /\ TRUE \notin o.values
  <2>1. f = Constant(E, False, odd)
    BY <1>2, <1>8 DEF Settled
  <2>2. \A e \in E : v[e] # True
    BY <1>3, <1>8
  <2>3. FormOK(s, p, Constant(E, False, odd), v, g)
    BY <1>1, <1>8, <2>2, SettledConstant, Constants
  <2> QED BY <1>1, <1>2, <2>1, <2>3
<1>9. CASE p = "negative" /\ o.test # "missing" /\ FALSE \notin o.values
  <2>1. f = Constant(E, True, odd)
    BY <1>2, <1>9 DEF Settled
  <2>2. \A e \in E : v[e] # False
    BY <1>3, <1>9
  <2>3. FormOK(s, p, Constant(E, True, odd), v, g)
    BY <1>1, <1>9, <2>2, SettledConstant, Constants
  <2> QED BY <1>1, <1>2, <2>1, <2>3
<1>10. CASE /\ p # "unfixed" /\ o.test # "missing" /\ ~(p = "positive" /\ TRUE \notin o.values)
            /\ ~(p = "negative" /\ FALSE \notin o.values)
  <2>1. CASE o.test = "reached"
    <3>1. f = IF p = "positive" THEN present ELSE NotForm(present)
      BY <1>2, <1>10, <2>1 DEF Settled
    <3>2. /\ TRUE \in o.values => FormOK(s, p, present, v, g)
          /\ TRUE \notin o.values => FormOK(s, p, NotForm(present), v, g)
      BY <1>3, <2>1, SettledPresence
    <3>3. p = "positive" <=> TRUE \in o.values
      BY <1>3, <1>10, <2>1 DEF Polarities
    <3> QED BY <1>1, <1>2, <3>1, <3>2, <3>3
  <2>2. CASE o.test = "none" /\ ~o.error
    <3>1. f = Constant(E, Bool(TRUE \in o.values), odd)
      BY <1>2, <1>10, <2>2 DEF Settled
    <3> QED BY <1>1, <1>2, <1>6, <2>2, <3>1
  <2>3. CASE o.test = "none" /\ o.error
    <3>1. f = emitted
      BY <1>2, <1>10, <2>3 DEF Settled
    <3> QED BY <1>1, <1>2, <3>1
  <2> QED BY <1>3, <1>10, <2>1, <2>2, <2>3
<1> QED BY <1>4, <1>5, <1>7, <1>8, <1>9, <1>10

\* presence: what the application sends of a value, and an error of any other.
IsThere(x) == IF x \in {Undefined, Null} THEN Err ELSE True

LEMMA PresenceOK ==
  ASSUME NEW s, NEW p, NEW c, NEW xs, Column1(s, c, xs), c.shape # "list", NEW w, NEW g,
         \A e \in EnvsOf(s) : w[e] = IsThere(xs[e]) /\ g[e] = Gap(c, e, xs[e])
  PROVE  FormOK(s, p, Presence(c, xs), w, g) /\ Presence(c, xs).const = Undefined
<1>1. PICK E : E = EnvsOf(s)
  OBVIOUS
<1>2. ColumnOK(c) /\ DOMAIN xs = E /\ (s # "root" => c.hop = "none") /\ \A e \in E : Holds(c, xs[e])
  BY <1>1 DEF Column1
<1>3. PICK absent \in {False, Unknown} : absent = IF c.explicit /\ c.known = "bool" THEN False ELSE Unknown
  OBVIOUS
<1>4. PICK odd \in SUBSET Disagreements :
        odd = {t \in {"explicitPresence"} : c.explicit /\ c.known = "bool" /\ ~c.required}
  BY DEF Disagreements
<1>5. PICK is : is = [e \in E |-> Reached(xs[e], [y \in Held(xs[e]) |-> IF y = Null THEN absent ELSE True])]
  OBVIOUS
<1>6. ASSUME NEW x, Holds(c, x)
      PROVE  LET y == Reached(x, [z \in Held(x) |-> IF z = Null THEN absent ELSE True]) IN
             y = IF x = Undefined THEN False ELSE IF x = Null THEN absent ELSE True
  <2>1. PICK f : f = [z \in Held(x) |-> IF z = Null THEN absent ELSE True]
    OBVIOUS
  <2>2. CASE x = Undefined
    <3>1. Reached(x, f) = False
      BY <2>2, Constants DEF Reached
    <3> QED BY <2>1, <2>2, <3>1
  <2>3. CASE x # Undefined
    <3>1. Held(x) = {x} /\ Reached(x, f) = f[x]
      BY <1>2, <1>6, <2>3, TypedIs, NullIs DEF Holds, Cell
    <3>2. f[x] = IF x = Null THEN absent ELSE True
      BY <2>1, <3>1
    <3> QED BY <2>1, <2>3, <3>1, <3>2
  <2> QED BY <2>2, <2>3
<1>7. \A e \in E : is[e] = IF xs[e] = Undefined THEN False ELSE IF xs[e] = Null THEN absent ELSE True
  BY <1>2, <1>5, <1>6
<1>8. is \in [E -> Tri]
  BY <1>3, <1>5, <1>7 DEF Tri, Unknown
<1>9. PICK yes \in FilterOn(E) : yes = Filter(is, odd) /\ yes.is = is /\ yes.odd = odd
  BY <1>8, FilterOf
<1>10. PICK recorded : recorded = ~c.required
  OBVIOUS
<1>11. Presence(c, xs) = ColumnForm(c, xs, recorded, yes)
  BY <1>2, <1>3, <1>4, <1>5, <1>9, <1>10 DEF Presence
\* Without the named shape, the column has no NULL or is not an explicit boolean.
<1>12. Tr(yes) /\ ~c.required => absent = Err
  <2>1. Tr(yes) => odd = {}
    BY <1>9 DEF Tr
  <2> QED BY <1>3, <1>4, <2>1 DEF Unknown
<1>13. ASSUME NEW e \in E
       PROVE  /\ xs[e] = Undefined => g[e] /\ c.hop # "none"
              /\ Tr(yes) => CellOK(yes.is[e], w[e], g[e], xs[e] # Undefined)
              /\ s # "root" => /\ recorded /\ xs[e] = Null => g[e]
                               /\ Tr(yes) /\ yes.is[e] = Err => recorded /\ xs[e] = Null
  <2>1. PICK x : x = xs[e]
    OBVIOUS
  <2>2. Holds(c, x) /\ w[e] = IsThere(x) /\ g[e] = Gap(c, e, x)
        /\ is[e] = IF x = Undefined THEN False ELSE IF x = Null THEN absent ELSE True
    BY <1>1, <1>2, <1>7, <2>1
  <2>3. x = Undefined => g[e] /\ c.hop # "none"
    <3>1. \A y : Cell(c, y) \/ ListCell(c, y) => y # Undefined
      BY <1>2, TypedIs, NullIs, ListIs DEF Cell
    <3> QED BY <2>2, <3>1 DEF Gap, Holds
  <2>4. x = Null => ~c.required
    <3>1. Null # Undefined /\ ~Typed(c, Null)
      BY <1>2, TypedIs, Constants
    <3> QED BY <2>2, <3>1 DEF Holds, Cell
  <2>5. Tr(yes) => is[e] = IF x = Undefined THEN False ELSE IF x = Null THEN Err ELSE True
    BY <1>12, <2>2, <2>4
  <2>6. Tr(yes) => CellOK(is[e], w[e], g[e], x # Undefined)
    BY <2>2, <2>5, Constants DEF CellOK, IsThere, Tri
  <2>7. s # "root" => (x = Null => g[e])
    BY <1>1, <2>2, EnvIs DEF Gap
  <2>8. Tr(yes) /\ is[e] = Err => x = Null
    BY <2>5, Constants
  <2>9. (Tr(yes) => CellOK(yes.is[e], w[e], g[e], xs[e] # Undefined))
    BY <1>9, <2>1, <2>6 DEF CellOK
  <2> QED BY <1>9, <1>10, <2>1, <2>3, <2>4, <2>7, <2>8, <2>9
<1> QED BY <1>1, <1>2, <1>11, <1>13, ColumnFormOK

\* A value of a type the column has not.
LEMMA MistypedIs ==
  ASSUME NEW c, ColumnOK(c), c.known # "none", NEW lit \in Value, lit.t \in {"null", "num", "str", "bool"},
         Mistyped(c.known, lit), NEW x, Cell(c, x)
  PROVE  /\ lit # Null /\ lit # Err
         /\ ~ValuesEqual(x, lit) /\ ~ValuesEqual(lit, x)
         /\ \A op \in Orderings : CompareValues(op, x, lit) = Err
         /\ \A op \in Equalities : \A b : x # Err /\ b = (op = "ne") => CompareValues(op, x, lit) = Bool(b)
<1>1. lit # Null /\ lit.t # Family(c.type) /\ Family(c.type) \in Families
  BY FamilyIs DEF Mistyped, ColumnOK
<1>2. lit # Err /\ lit.t \in {"num", "str", "bool"}
  <2>1. lit.t = "null" => lit = Null
    <3>1. lit \in [t : Types, v : Int] /\ WellFormed(lit)
      BY DEF Value
    <3> QED BY <3>1 DEF WellFormed, Null
  <2> QED BY <1>1, <2>1, Constants
<1>3. x = Null \/ (x \in Value /\ x.t = Family(c.type))
  BY DEF Cell, Typed
<1>4. x.t \in {"null", Family(c.type)}
  BY <1>3, Constants
<1>5. x # lit /\ ~(IsNumeric(x) /\ IsNumeric(lit)) /\ ~SameOrderedType(x, lit)
  BY <1>1, <1>2, <1>4, Constants DEF IsNumeric, SameOrderedType, Families
<1>6. ~ValuesEqual(x, lit) /\ ~ValuesEqual(lit, x)
  BY <1>5 DEF ValuesEqual
<1>7. \A op \in Orderings : CompareValues(op, x, lit) = Err
  BY <1>5 DEF CompareValues, Orderings
<1>8. \A op \in Equalities : \A b : x # Err /\ b = (op = "ne") => CompareValues(op, x, lit) = Bool(b)
  BY <1>2, <1>6 DEF CompareValues, Equalities, Bool
<1> QED BY <1>1, <1>2, <1>6, <1>7, <1>8

\* A leaf that is the same of every value sent.
LEMMA DefiniteDecides ==
  ASSUME NEW s, NEW c, NEW xs, Column1(s, c, xs), c.shape # "list", NEW b \in BOOLEAN, NEW o, NEW odd,
         o.values = {b}, o.test \in {"none", "missing", "reached"}, o.test = "reached" => o.error,
         ~o.error => ~MayBeMissing(c), o.error /\ o.test # "none" => MayBeMissing(c) \/ c.omitted,
         NEW v, NEW w, NEW g,
         \A e \in EnvsOf(s) : /\ v[e] = IF Sent(c, xs[e]) = Err THEN Err ELSE Bool(b)
                              /\ w[e] = IsThere(xs[e]) /\ g[e] = Gap(c, e, xs[e])
  PROVE  Decides(EnvsOf(s), o, odd, v, w, g)
<1>1. PICK E : E = EnvsOf(s)
  OBVIOUS
<1>2. ColumnOK(c) /\ \A e \in E : Holds(c, xs[e])
  BY <1>1 DEF Column1
<1>3. ASSUME NEW e \in E
      PROVE  /\ v[e] \in {Err, Bool(b)} /\ w[e] \in {Err, True}
             /\ w[e] = True => v[e] = Bool(b)
             /\ v[e] = Bool(b) /\ ~g[e] /\ (MayBeMissing(c) \/ c.omitted) => w[e] = True
             /\ ~MayBeMissing(c) => v[e] = Bool(b)
  <2>1. PICK x : x = xs[e]
    OBVIOUS
  <2>2. /\ v[e] = IF Sent(c, x) = Err THEN Err ELSE Bool(b)
        /\ w[e] = IsThere(x) /\ g[e] = Gap(c, e, x) /\ Holds(c, x)
    BY <1>1, <1>2, <2>1
  <2>3. Sent(c, x) = Err <=> x = Undefined \/ (x = Null /\ c.omitted)
    <3>1. x # Err
      BY <1>2, <2>2, TypedIs, Constants DEF Holds, Cell
    <3> QED BY <3>1 DEF Sent
  <2>4. w[e] = True <=> x # Undefined /\ x # Null
    BY <2>2, Constants DEF IsThere
  <2>5. v[e] \in {Err, Bool(b)} /\ w[e] \in {Err, True} /\ (w[e] = True => v[e] = Bool(b))
    BY <2>2, <2>3, <2>4, Constants DEF IsThere
  <2>6. Bool(b) # Err
    BY BoolIs
  <2>7. ASSUME v[e] = Bool(b), ~g[e], MayBeMissing(c) \/ c.omitted PROVE w[e] = True
    <3>1. x # Undefined /\ ~(x = Null /\ c.omitted)
      BY <2>2, <2>3, <2>6, <2>7
    <3>2. CASE x = Null
      <4>1. e = Root /\ c.explicit /\ c.shape = "scalar" /\ c.hop = "none"
        BY <2>2, <2>7, <3>2 DEF Gap
      <4> QED BY <2>7, <3>1, <3>2, <4>1 DEF MayBeMissing
    <3> QED BY <2>4, <3>1, <3>2
  <2>8. ASSUME ~MayBeMissing(c) PROVE v[e] = Bool(b)
    <3>1. c.hop = "none"
      BY <1>2, <2>8 DEF MayBeMissing, ColumnOK
    <3>2. x # Undefined /\ (x = Null => ~c.required)
      BY <1>2, <2>2, <3>1, TypedIs, NullIs DEF Holds, Cell
    <3>3. x = Null => ~c.omitted
      BY <1>2, <2>8, <3>2 DEF MayBeMissing, ColumnOK
    <3> QED BY <2>2, <2>3, <3>2, <3>3
  <2> QED BY <2>5, <2>7, <2>8
<1>4. ASSUME NEW e \in E
      PROVE  /\ TRUE \notin o.values => v[e] # True
             /\ FALSE \notin o.values => v[e] # False
             /\ ~o.error => v[e] = Bool(TRUE \in o.values)
  <2>1. CASE b
    <3>1. TRUE \in o.values /\ FALSE \notin o.values
      BY <2>1
    <3>2. Bool(b) = True /\ Bool(TRUE \in o.values) = True
      BY <2>1, <3>1 DEF Bool
    <3> QED BY <1>3, <3>1, <3>2, Constants
  <2>2. CASE ~b
    <3>1. TRUE \notin o.values /\ FALSE \in o.values
      BY <2>2
    <3>2. Bool(b) = False /\ Bool(TRUE \in o.values) = False
      BY <2>2, <3>1 DEF Bool
    <3> QED BY <1>3, <3>1, <3>2, Constants
  <2> QED BY <2>1, <2>2
<1>5. ASSUME o.test # "none", o.error
      PROVE  /\ TRUE \in o.values => Agrees(E, v, w, g)
             /\ TRUE \notin o.values => Agrees(E, v, [e \in E |-> Not(w[e])], g)
  <2>1. CASE b
    <3>1. Bool(b) = True /\ TRUE \in o.values
      BY <2>1 DEF Bool
    <3> QED BY <1>3, <1>5, <3>1, Constants DEF Agrees
  <2>2. CASE ~b
    <3>1. Bool(b) = False /\ TRUE \notin o.values
      BY <2>2 DEF Bool
    <3>2. PICK n : n = [e \in E |-> Not(w[e])]
      OBVIOUS
    <3>3. \A e \in E : n[e] = Not(w[e]) /\ w[e] \in Tri
      BY <1>3, <3>2 DEF Tri
    <3>4. \A e \in E : (n[e] = True <=> w[e] = False) /\ (n[e] = False <=> w[e] = True)
      BY <3>3, NotIs
    <3>5. Agrees(E, v, n, g)
      BY <1>3, <1>5, <3>1, <3>4, Constants DEF Agrees
    <3> QED BY <3>1, <3>2, <3>5
  <2> QED BY <2>1, <2>2
<1>6. o.values \subseteq BOOLEAN /\ o.values \in {{TRUE}, {FALSE}}
  OBVIOUS
<1> QED BY <1>1, <1>4, <1>5, <1>6 DEF Decides

LEMMA OpenDecides ==
  ASSUME NEW E, NEW odd, NEW v, NEW w, NEW g
  PROVE  Decides(E, Open, odd, v, w, g) /\ Open.test = "none"
<1>1. PICK o : o = Open
  OBVIOUS
<1>2. o.values = BOOLEAN /\ o.error = TRUE /\ o.test = "none"
  BY <1>1 DEF Open, Outcomes
<1>3. TRUE \in o.values /\ FALSE \in o.values
  BY <1>2
<1> QED BY <1>1, <1>2, <1>3 DEF Decides

\* A leaf that has no overload.
LEMMA ErrorDecides ==
  ASSUME NEW E, NEW o, o = Outcomes({}, TRUE, "none"), NEW odd, NEW v, NEW w, NEW g, \A e \in E : v[e] = Err
  PROVE  Decides(E, o, odd, v, w, g) /\ o.test = "none"
<1>1. o.values = {} /\ o.error = TRUE /\ o.test = "none"
  BY DEF Outcomes
<1> QED BY <1>1, Constants DEF Decides

LEMMA SentIs ==
  ASSUME NEW c, ColumnOK(c), NEW x, Holds(c, x)
  PROVE  /\ Sent(c, x) = Err <=> x = Undefined \/ (x = Null /\ c.omitted)
         /\ Sent(c, x) # Err => Sent(c, x) = x /\ x # Undefined
<1>1. x # Err
  BY TypedIs, ListIs, Constants DEF Holds, Cell
<1> QED BY <1>1 DEF Sent

LEMMA CompareErr == \A op, y : CompareValues(op, Err, y) = Err
BY DEF CompareValues

\* A comparison with a value that the column has not.
LEMMA CompareMistyped ==
  ASSUME NEW c, ColumnOK(c), c.shape # "list", NEW l, LeafOK(c, l), l.test = "compare", c.known # "none",
         Mistyped(c.known, l.lit), NEW x, Holds(c, x)
  PROVE  /\ l.op \in Orderings => EvaluateLeaf(c, l, x) = Err
         /\ l.op \in Equalities => \A b : b = (l.op = "ne") =>
              EvaluateLeaf(c, l, x) = IF Sent(c, x) = Err THEN Err ELSE Bool(b)
<1>1. PICK op, lit : op = l.op /\ lit = l.lit
  OBVIOUS
<1>2. op \in Comparisons /\ lit \in Value /\ lit.t \in {"null", "num", "str", "bool"}
  BY <1>1 DEF LeafOK
<1>3. EvaluateLeaf(c, l, x) = CompareValues(op, Sent(c, x), lit)
  BY <1>1 DEF EvaluateLeaf
<1>4. CASE Sent(c, x) = Err
  BY <1>1, <1>3, <1>4, CompareErr
<1>5. CASE Sent(c, x) # Err
  <2>1. Sent(c, x) = x /\ x # Undefined
    BY <1>5, SentIs
  <2>2. Cell(c, x) /\ x # Err
    BY <1>5, <2>1 DEF Holds
  <2>3. /\ \A p \in Orderings : CompareValues(p, x, lit) = Err
        /\ \A p \in Equalities : \A b : x # Err /\ b = (p = "ne") => CompareValues(p, x, lit) = Bool(b)
    BY <1>1, <1>2, <2>2, MistypedIs
  <2> QED BY <1>1, <1>3, <1>5, <2>1, <2>2, <2>3
<1> QED BY <1>4, <1>5

\* Definite
LEMMA MistypedDecides ==
  ASSUME NEW s, NEW c, NEW xs, Column1(s, c, xs), c.shape # "list", NEW b \in BOOLEAN, NEW odd, NEW v, NEW w, NEW g,
         \A e \in EnvsOf(s) : /\ v[e] = IF Sent(c, xs[e]) = Err THEN Err ELSE Bool(b)
                              /\ w[e] = IsThere(xs[e]) /\ g[e] = Gap(c, e, xs[e])
  PROVE  Decides(EnvsOf(s), Definite(b, MayBeMissing(c)), odd, v, w, g)
<1>1. PICK o : o = Definite(b, MayBeMissing(c))
  OBVIOUS
<1>2. o.values = {b} /\ (o.error <=> MayBeMissing(c)) /\ o.test = "missing"
  BY <1>1 DEF Definite, Outcomes
<1>3. Decides(EnvsOf(s), o, odd, v, w, g)
  BY <1>2, DefiniteDecides
<1> QED BY <1>1, <1>3

\* omittedNullComparison
LEMMA OmittedDecides ==
  ASSUME NEW s, NEW c, NEW xs, Column1(s, c, xs), NEW l, LeafOK(c, l), l.test = "compare", l.op \in Equalities,
         l.lit = Null, c.omitted, NEW odd, NEW v, NEW w, NEW g,
         \A e \in EnvsOf(s) : v[e] = EvaluateLeaf(c, l, xs[e]) /\ w[e] = IsThere(xs[e]) /\ g[e] = Gap(c, e, xs[e])
  PROVE  Decides(EnvsOf(s), OmittedNullComparison(c, l.op), odd, v, w, g)
<1>1. PICK E, op : E = EnvsOf(s) /\ op = l.op
  OBVIOUS
<1>2. ColumnOK(c) /\ (\A e \in E : Holds(c, xs[e])) /\ c.shape # "list"
  BY <1>1 DEF Column1, LeafOK
<1>3. PICK o : o = OmittedNullComparison(c, op)
  OBVIOUS
<1>4. PICK b \in BOOLEAN : b = (op = "ne")
  OBVIOUS
<1>5. o.values = {b} /\ o.error = TRUE /\ o.test \in {"none", "missing", "reached"}
  BY <1>3, <1>4 DEF OmittedNullComparison, Outcomes
<1>6. ASSUME NEW e \in E PROVE v[e] = IF Sent(c, xs[e]) = Err THEN Err ELSE Bool(b)
  <2>1. PICK x : x = xs[e]
    OBVIOUS
  <2>2. v[e] = CompareValues(op, Sent(c, x), Null) /\ Holds(c, x)
    BY <1>1, <1>2, <2>1 DEF EvaluateLeaf
  <2>3. CASE Sent(c, x) # Err
    <3>1. Typed(c, x) /\ Sent(c, x) = x
      BY <1>2, <2>2, <2>3, SentIs DEF Holds, Cell
    <3>2. x \in Value /\ x.t \in Families
      BY <1>2, <3>1, TypedIs
    <3>3. CompareValues("eq", x, Null) = False /\ CompareValues("ne", x, Null) = True
      BY <3>2, CompareNull
    <3>4. CASE op = "eq"
      BY <1>4, <2>1, <2>2, <2>3, <3>1, <3>3, <3>4 DEF Bool
    <3>5. CASE op = "ne"
      BY <1>4, <2>1, <2>2, <2>3, <3>1, <3>3, <3>5 DEF Bool
    <3> QED BY <1>1, <3>4, <3>5 DEF Equalities
  <2> QED BY <2>1, <2>2, <2>3, CompareErr
<1>7. Decides(E, o, odd, v, w, g)
  BY <1>1, <1>2, <1>5, <1>6, DefiniteDecides
<1> QED BY <1>1, <1>3, <1>7

\* A receiver or a size that has no overload.
LEMMA NoOverload ==
  ASSUME NEW c, ColumnOK(c), c.shape # "list", NEW l, LeafOK(c, l), NEW x, Holds(c, x),
         \/ l.test = "startsWith" /\ (l.lit.t \notin {"str", "null"} \/ c.known \notin {"str", "none"})
         \/ l.test = "size" /\ c.known \notin {"str", "none"}
  PROVE  EvaluateLeaf(c, l, x) = Err
<1>1. PICK y : y = Sent(c, x)
  OBVIOUS
<1>2. y = Err \/ y = Null \/ (y \in Value /\ y.t = Family(c.type))
  BY <1>1 DEF Sent, Holds, Cell, Typed
<1>3. c.known # "none" => c.known = Family(c.type) /\ Family(c.type) \in Families
  BY FamilyIs DEF ColumnOK
<1>4. CASE l.test = "startsWith"
  <2>1. EvaluateLeaf(c, l, x) = StartsWith(y, l.lit)
    BY <1>1, <1>4 DEF EvaluateLeaf
  <2>2. l.lit.t # "str" \/ y.t # "str"
    BY <1>2, <1>3, <1>4, Constants
  <2> QED BY <2>1, <2>2 DEF StartsWith
<1>5. CASE l.test = "size"
  <2>1. EvaluateLeaf(c, l, x) = IF SizeOf(y) = Err THEN Err ELSE SizeSays(l.op, y, l.lit)
    BY <1>1, <1>5 DEF EvaluateLeaf, SizeSays
  <2>2. y.t \in {"error", "null", "num", "bool"}
    BY <1>2, <1>3, <1>5, Constants DEF Families
  <2>3. SizeOf(y) = Err
    BY <2>2 DEF SizeOf, IsCollection
  <2> QED BY <2>1, <2>3
<1> QED BY <1>4, <1>5

\* A membership of values that the column has not.
LEMMA MembershipMistyped ==
  ASSUME NEW c, ColumnOK(c), NEW l, LeafOK(c, l), l.test \in Membership, c.known # "none",
         \A k \in ValuesOf(l) : Mistyped(c.known, k), NEW x, Holds(c, x)
  PROVE  EvaluateLeaf(c, l, x) = IF Sent(c, x) = Err THEN Err ELSE False
<1>1. PICK y : y = Sent(c, x)
  OBVIOUS
<1>2. y # Err => y = x /\ x # Undefined
  BY <1>1, SentIs
<1>3. \A k \in ValuesOf(l) : k \in Value /\ k.t \in {"null", "num", "str", "bool"}
  <2>1. CASE l.test = "member"
    BY <2>1 DEF ValuesOf, LeafOK
  <2>2. CASE l.test # "member"
    <3>1. ValuesOf(l) = Members[l.lit] /\ l.lit \in DOMAIN Members
      BY <2>2 DEF ValuesOf, LeafOK, Membership
    <3>2. \A k \in Members[l.lit] : k \in Value /\ k.t \in Scalars /\ k.t # "int64"
      BY <3>1, MembersAssumption, ListsAssumption
    <3> QED BY <3>1, <3>2 DEF Scalars
  <2> QED BY <2>1, <2>2
<1>4. \A k \in ValuesOf(l) : \A z : Cell(c, z) => k # Err /\ ~ValuesEqual(k, z) /\ ~ValuesEqual(z, k)
  BY <1>3, MistypedIs
<1>5. CASE l.test = "in"
  <2>1. EvaluateLeaf(c, l, x) = In(y, l.lit) /\ ValuesOf(l) = Members[l.lit] /\ IsCollection(l.lit)
    BY <1>1, <1>5 DEF EvaluateLeaf, ValuesOf, LeafOK, IsCollection
  <2>2. CASE y = Err
    BY <1>1, <2>1, <2>2 DEF In
  <2>3. CASE y # Err
    <3>1. Cell(c, y)
      BY <1>2, <1>5, <2>3 DEF Holds, LeafOK
    <3>2. ~\E m \in Members[l.lit] : ValuesEqual(m, y)
      BY <1>4, <2>1, <3>1
    <3> QED BY <1>1, <2>1, <2>3, <3>2 DEF In, Bool
  <2> QED BY <2>2, <2>3
<1>6. CASE l.test = "member"
  <2>1. EvaluateLeaf(c, l, x) = In(l.lit, y) /\ ValuesOf(l) = {l.lit}
    BY <1>1, <1>6 DEF EvaluateLeaf, ValuesOf
  <2>2. CASE y = Err
    BY <1>1, <2>1, <2>2, Constants DEF In, IsCollection
  <2>3. CASE y # Err
    <3>1. ListCell(c, y)
      BY <1>2, <1>6, <2>3 DEF Holds, LeafOK
    <3>2. ~\E m \in Members[y] : ValuesEqual(m, l.lit)
      BY <1>4, <2>1, <3>1 DEF ListCell
    <3>3. l.lit # Err
      BY <1>6, Constants DEF LeafOK
    <3> QED BY <1>1, <2>1, <2>3, <3>1, <3>2, <3>3 DEF In, Bool, ListCell, IsCollection
  <2> QED BY <2>2, <2>3
<1>7. CASE l.test = "intersects"
  <2>1. EvaluateLeaf(c, l, x) = HasIntersection(y, l.lit) /\ ValuesOf(l) = Members[l.lit] /\ l.lit.t = "list"
    BY <1>1, <1>7 DEF EvaluateLeaf, ValuesOf, LeafOK
  <2>2. CASE y = Err
    BY <1>1, <2>1, <2>2, Constants DEF HasIntersection
  <2>3. CASE y # Err
    <3>1. ListCell(c, y)
      BY <1>2, <1>7, <2>3 DEF Holds, LeafOK
    <3>2. ~\E a \in Members[y], b \in Members[l.lit] : ValuesEqual(a, b)
      BY <1>4, <2>1, <3>1 DEF ListCell
    <3> QED BY <1>1, <2>1, <2>3, <3>1, <3>2 DEF HasIntersection, Meets, Bool, ListCell
  <2> QED BY <2>2, <2>3
<1> QED BY <1>5, <1>6, <1>7 DEF Membership

LEMMA LeafDecides ==
  ASSUME NEW s, NEW c, NEW xs, Column1(s, c, xs), NEW l, LeafOK(c, l), NEW odd, odd = {} => c.hop # "many",
         NEW v, NEW w, NEW g,
         \A e \in EnvsOf(s) : v[e] = EvaluateLeaf(c, l, xs[e]) /\ w[e] = IsThere(xs[e]) /\ g[e] = Gap(c, e, xs[e])
  PROVE  /\ Decides(EnvsOf(s), LeafOutcomes(c, l), odd, v, w, g)
         /\ LeafOutcomes(c, l).test # "none" => c.shape # "list"
<1>1. PICK E : E = EnvsOf(s)
  OBVIOUS
<1>2. ColumnOK(c) /\ \A e \in E : Holds(c, xs[e])
  BY <1>1 DEF Column1
<1>3. PICK o : o = LeafOutcomes(c, l)
  OBVIOUS
<1>4. CASE l.test = "compare" /\ l.op \in Equalities /\ l.lit = Null /\ c.omitted
  <2>1. o = OmittedNullComparison(c, l.op)
    BY <1>3, <1>4 DEF LeafOutcomes
  <2>2. Decides(EnvsOf(s), OmittedNullComparison(c, l.op), odd, v, w, g)
    BY <1>4, OmittedDecides
  <2>3. c.shape # "list"
    BY <1>4 DEF LeafOK
  <2> QED BY <1>3, <2>1, <2>2, <2>3
<1> DEFINE first == l.test = "compare" /\ l.op \in Equalities /\ l.lit = Null /\ c.omitted
<1>5. CASE ~first /\ o = Open
  BY <1>3, <1>5, OpenDecides
<1>6. CASE /\ c.shape # "list" /\ o = Outcomes({}, TRUE, "none")
           /\ \/ l.test = "startsWith" /\ (l.lit.t \notin {"str", "null"} \/ c.known \notin {"str", "none"})
              \/ l.test = "size" /\ c.known \notin {"str", "none"}
  <2>1. \A e \in E : v[e] = Err
    BY <1>1, <1>2, <1>6, NoOverload
  <2> QED BY <1>1, <1>3, <1>6, <2>1, ErrorDecides
<1>7. CASE ~first /\ l.test = "startsWith"
  <2>1. o = Open \/ (o = Outcomes({}, TRUE, "none") /\ (l.lit.t \notin {"str", "null"} \/ c.known \notin {"str", "none"}))
    BY <1>3, <1>7 DEF LeafOutcomes
  <2>2. c.shape # "list"
    BY <1>7 DEF LeafOK
  <2> QED BY <1>5, <1>6, <1>7, <2>1, <2>2
<1>8. CASE ~first /\ l.test # "startsWith" /\ c.known = "none"
  <2>1. o = Open
    BY <1>3, <1>8 DEF LeafOutcomes
  <2> QED BY <1>5, <1>8, <2>1
<1>9. CASE ~first /\ l.test = "compare" /\ c.known # "none" /\ Mistyped(c.known, l.lit)
  <2>1. c.shape # "list" /\ l.op \in Comparisons
    BY <1>9 DEF LeafOK
  <2>2. CASE l.op \in Orderings
    <3>1. o = Outcomes({}, TRUE, "none")
      BY <1>3, <1>9, <2>2 DEF LeafOutcomes
    <3>2. \A e \in E : v[e] = Err
      BY <1>1, <1>2, <1>9, <2>1, <2>2, CompareMistyped
    <3> QED BY <1>1, <1>3, <3>1, <3>2, ErrorDecides
  <2>3. CASE l.op \in Equalities
    <3>1. l.op \notin Orderings
      BY <2>3 DEF Equalities, Orderings
    <3>2. PICK b \in BOOLEAN : b = (l.op = "ne")
      OBVIOUS
    <3>3. o = Definite(b, MayBeMissing(c))
      BY <1>3, <1>9, <3>1, <3>2 DEF LeafOutcomes
    <3>4. \A e \in E : v[e] = IF Sent(c, xs[e]) = Err THEN Err ELSE Bool(b)
      BY <1>1, <1>2, <1>9, <2>1, <2>3, <3>2, CompareMistyped
    <3>5. Decides(EnvsOf(s), Definite(b, MayBeMissing(c)), odd, v, w, g)
      BY <1>1, <2>1, <3>4, MistypedDecides
    <3> QED BY <1>3, <2>1, <3>3, <3>5
  <2> QED BY <2>1, <2>2, <2>3 DEF Comparisons
<1>10. CASE ~first /\ l.test = "compare" /\ c.known # "none" /\ ~Mistyped(c.known, l.lit)
  <2>1. o = Open
    BY <1>3, <1>10 DEF LeafOutcomes, Membership
  <2> QED BY <1>5, <1>10, <2>1
<1>11. CASE ~first /\ l.test = "bare" /\ c.known # "none"
  <2>1. o = Open
    BY <1>3, <1>11 DEF LeafOutcomes, Membership
  <2> QED BY <1>5, <1>11, <2>1
<1>12. CASE ~first /\ l.test = "size" /\ c.known # "none"
  <2>1. CASE c.shape # "list" /\ c.known # "str"
    <3>1. o = Outcomes({}, TRUE, "none")
      BY <1>3, <1>12, <2>1 DEF LeafOutcomes
    <3> QED BY <1>6, <1>12, <2>1, <3>1
  <2>2. CASE ~(c.shape # "list" /\ c.known # "str")
    <3>1. o = Open
      BY <1>3, <1>12, <2>2 DEF LeafOutcomes, Membership
    <3> QED BY <1>5, <1>12, <3>1
  <2> QED BY <2>1, <2>2
<1>13. CASE ~first /\ l.test \in Membership /\ c.known # "none"
  <2>1. l.test \notin {"compare", "startsWith", "size", "bare"}
    BY <1>13 DEF Membership
  <2>2. CASE ~\A k \in ValuesOf(l) : Mistyped(c.known, k)
    <3>1. o = Open
      BY <1>3, <1>13, <2>1, <2>2 DEF LeafOutcomes
    <3> QED BY <1>5, <1>13, <3>1
  <2>3. CASE \A k \in ValuesOf(l) : Mistyped(c.known, k)
    <3>1. \A e \in E : v[e] = IF Sent(c, xs[e]) = Err THEN Err ELSE False
      BY <1>1, <1>2, <1>13, <2>3, MembershipMistyped
    <3>2. CASE l.test = "in"
      <4>1. o = Definite(FALSE, MayBeMissing(c))
        BY <1>3, <1>13, <2>1, <2>3, <3>2 DEF LeafOutcomes
      <4>2. c.shape # "list"
        BY <3>2 DEF LeafOK
      <4>3. \A e \in E : v[e] = IF Sent(c, xs[e]) = Err THEN Err ELSE Bool(FALSE)
        BY <3>1, Constants
      <4>4. PICK b \in BOOLEAN : b = FALSE
        OBVIOUS
      <4>5. Decides(EnvsOf(s), Definite(b, MayBeMissing(c)), odd, v, w, g)
        BY <1>1, <4>2, <4>3, <4>4, MistypedDecides
      <4> QED BY <1>3, <4>1, <4>2, <4>4, <4>5
    <3>3. CASE l.test # "in"
      <4>1. o = Outcomes({FALSE}, c.hop = "one", "none")
        BY <1>3, <1>13, <2>1, <2>3, <3>3 DEF LeafOutcomes
      <4>2. o.values = {FALSE} /\ (o.error <=> c.hop = "one") /\ o.test = "none"
        BY <4>1 DEF Outcomes
      <4>3. c.shape = "list"
        BY <1>13, <3>3 DEF LeafOK, Membership
      <4>4. ASSUME ~o.error, odd = {}, NEW e \in E PROVE v[e] = False
        <5>1. c.hop = "none"
          BY <1>2, <4>2, <4>4 DEF ColumnOK
        <5>2. PICK x : x = xs[e]
          OBVIOUS
        <5>3. ListCell(c, x) /\ Holds(c, x)
          BY <1>2, <4>3, <5>1, <5>2 DEF Holds
        <5>4. Sent(c, x) = x /\ x # Err
          BY <5>3, ListIs
        <5> QED BY <3>1, <5>2, <5>4
      <4>5. \A e \in E : v[e] # True
        BY <3>1, Constants
      <4>6. TRUE \notin o.values /\ FALSE \in o.values /\ Bool(TRUE \in o.values) = False
        BY <4>2 DEF Bool
      <4>7. Decides(E, o, odd, v, w, g)
        BY <4>2, <4>4, <4>5, <4>6 DEF Decides
      <4> QED BY <1>1, <1>3, <4>2, <4>7
    <3> QED BY <3>2, <3>3
  <2> QED BY <2>2, <2>3
<1> QED BY <1>4, <1>7, <1>8, <1>9, <1>10, <1>11, <1>12, <1>13 DEF LeafOK, Tests, Membership

\* pruneLiteralList: what is dropped is no value of the column.
LEMMA PrunedIs ==
  ASSUME NEW c, ColumnOK(c), NEW l, LeafOK(c, l)
  PROVE  /\ LeafOK(c, Pruned(c, l))
         /\ \A x : Holds(c, x) => EvaluateLeaf(c, Pruned(c, l), x) = EvaluateLeaf(c, l, x)
<1>1. PICK k : k = Pruned(c, l)
  OBVIOUS
<1>2. PICK kept : kept = {m \in Members[l.lit] : ~Mistyped(c.known, m)}
  OBVIOUS
<1>3. CASE l.test \notin {"in", "intersects"} \/ c.known = "none" \/ kept = {}
  <2>1. k = l
    BY <1>1, <1>2, <1>3 DEF Pruned
  <2> QED BY <1>1, <2>1
<1>4. CASE l.test \in {"in", "intersects"} /\ c.known # "none" /\ kept # {}
  <2>1. l.lit.t = "list" /\ l.lit \in DOMAIN Members
    BY <1>4 DEF LeafOK
  <2>2. c.known \in {"num", "str", "bool"}
    BY <1>4, FamilyIs DEF ColumnOK, Families
  <2>3. kept = {m \in Members[l.lit] : m = Null \/ m.t = c.known}
    BY <1>2 DEF Mistyped
  <2>4. PICK q : q = ListOf(kept)
    OBVIOUS
  <2>5. q \in DOMAIN Members /\ q.t = "list" /\ Members[q] = kept
    <3>1. \E z \in DOMAIN Members : z.t = "list" /\ Members[z] = {m \in Members[l.lit] : m = Null \/ m.t = c.known}
      BY <2>1, <2>2, ListsAssumption
    <3> QED BY <2>3, <2>4, <3>1 DEF ListOf
  <2>6. q \in Value
    <3>1. q \in [t : {"list", "map"}, v : Int]
      BY <2>5, MembersAssumption
    <3> QED BY <2>5, <3>1 DEF Value, WellFormed, Types
  <2>7. k = [l EXCEPT !.lit = q]
    BY <1>1, <1>2, <1>4, <2>4 DEF Pruned
  <2>8. k.test = l.test /\ k.op = l.op /\ k.lit = q
    BY <2>7 DEF LeafOK
  <2>9. LeafOK(c, k)
    <3>1. k \in [test : Tests \ {"pair"}, op : Comparisons, lit : Value]
      BY <2>6, <2>7 DEF LeafOK
    <3> QED BY <1>4, <2>5, <2>8, <3>1 DEF LeafOK
  <2>10. \A m \in Members[l.lit] \ kept : \A z : Cell(c, z) => ~ValuesEqual(m, z) /\ ~ValuesEqual(z, m)
    <3>1. \A m \in Members[l.lit] : m \in Value /\ m.t \in {"null", "num", "str", "bool"}
      <4>1. \A m \in Members[l.lit] : m \in Value /\ m.t \in Scalars /\ m.t # "int64"
        BY <2>1, MembersAssumption, ListsAssumption
      <4> QED BY <4>1 DEF Scalars
    <3>2. \A m \in Members[l.lit] \ kept : Mistyped(c.known, m)
      BY <1>2
    <3> QED BY <1>4, <3>1, <3>2, MistypedIs
  <2>11. kept \subseteq Members[l.lit]
    BY <1>2
  <2>12. ASSUME NEW x, Holds(c, x) PROVE EvaluateLeaf(c, k, x) = EvaluateLeaf(c, l, x)
    <3>1. PICK y : y = Sent(c, x)
      OBVIOUS
    <3>2. y # Err => y = x /\ x # Undefined
      BY <2>12, <3>1, SentIs
    <3>3. CASE l.test = "in"
      <4>1. EvaluateLeaf(c, k, x) = In(y, q) /\ EvaluateLeaf(c, l, x) = In(y, l.lit)
        BY <2>8, <3>1, <3>3 DEF EvaluateLeaf
      <4>2. CASE y = Err
        BY <4>1, <4>2 DEF In
      <4>3. CASE y # Err
        <5>1. Cell(c, y)
          BY <2>12, <3>2, <3>3, <4>3 DEF Holds, LeafOK
        <5>2. (\E m \in Members[q] : ValuesEqual(m, y)) <=> \E m \in Members[l.lit] : ValuesEqual(m, y)
          BY <2>5, <2>10, <2>11, <5>1
        <5> QED BY <2>1, <2>5, <4>1, <4>3, <5>2 DEF In, IsCollection, Bool
      <4> QED BY <4>2, <4>3
    <3>4. CASE l.test = "intersects"
      <4>1. EvaluateLeaf(c, k, x) = HasIntersection(y, q) /\ EvaluateLeaf(c, l, x) = HasIntersection(y, l.lit)
        BY <2>8, <3>1, <3>4 DEF EvaluateLeaf
      <4>2. CASE y = Err
        BY <4>1, <4>2, Constants DEF HasIntersection
      <4>3. CASE y # Err
        <5>1. ListCell(c, y)
          BY <2>12, <3>2, <3>4, <4>3 DEF Holds, LeafOK
        <5>2. \A a \in Members[y] : Cell(c, a)
          BY <5>1 DEF ListCell
        <5>3. (\E a \in Members[y], b \in Members[q] : ValuesEqual(a, b))
                <=> \E a \in Members[y], b \in Members[l.lit] : ValuesEqual(a, b)
          BY <2>5, <2>10, <2>11, <5>2
        <5> QED BY <2>1, <2>5, <4>1, <5>1, <5>3 DEF HasIntersection, Meets, Bool, ListCell
      <4> QED BY <4>2, <4>3
    <3> QED BY <1>4, <3>3, <3>4
  <2> QED BY <1>1, <2>9, <2>12
<1> QED BY <1>3, <1>4

\* settleTypeMismatches, or rewriteLiteralLists
LEMMA SettledLeafOK ==
  ASSUME NEW s, NEW p \in Polarities, NEW c, NEW xs, Column1(s, c, xs), NEW l, LeafOK(c, l), NEW v,
         NEW g \in [EnvsOf(s) -> BOOLEAN],
         \A e \in EnvsOf(s) : v[e] = EvaluateLeaf(c, l, xs[e]) /\ g[e] = Gap(c, e, xs[e])
  PROVE  /\ FormOK(s, p, SettledLeaf(p, c, l, xs), v, g)
         /\ p = "unfixed" => SettledLeaf(p, c, l, xs).const = Undefined
<1>1. PICK E : E = EnvsOf(s)
  OBVIOUS
<1>2. ColumnOK(c) /\ DOMAIN xs = E /\ \A e \in E : Holds(c, xs[e])
  BY <1>1 DEF Column1
<1>3. PICK k : k = IF p # "unfixed" /\ LeafOutcomes(c, l) = Open THEN Pruned(c, l) ELSE l
  OBVIOUS
<1>4. LeafOK(c, k) /\ \A e \in E : v[e] = EvaluateLeaf(c, k, xs[e])
  BY <1>1, <1>2, <1>3, PrunedIs
<1>5. PICK emitted : emitted = Emitted(c, k, xs)
  OBVIOUS
<1>6. FormOK(s, p, emitted, v, g) /\ emitted.const = Undefined
  BY <1>1, <1>4, <1>5, EmittedOK
<1>7. PICK odd \in SUBSET Disagreements : odd = {t \in {"foldedChain"} : c.hop = "many"}
  BY DEF Disagreements
<1>8. PICK w : w = [e \in E |-> IsThere(xs[e])]
  OBVIOUS
<1>9. \A e \in EnvsOf(s) : v[e] = EvaluateLeaf(c, l, xs[e]) /\ w[e] = IsThere(xs[e]) /\ g[e] = Gap(c, e, xs[e])
  BY <1>1, <1>8
<1>10. odd = {} => c.hop # "many"
  BY <1>7
<1>11. PICK o, present : o = LeafOutcomes(c, l) /\ present = Presence(c, xs)
  OBVIOUS
<1>12. Decides(EnvsOf(s), o, odd, v, w, g) /\ (o.test # "none" => c.shape # "list")
  BY <1>9, <1>10, <1>11, LeafDecides
<1>13. ASSUME o.test # "none" PROVE Verdicts(s, w, g) /\ \A q \in Polarities : FormOK(s, q, present, w, g)
  <2>1. w \in [EnvsOf(s) -> Tri]
    BY <1>1, <1>8, Constants DEF IsThere, Tri
  <2>2. ASSUME NEW q \in Polarities PROVE FormOK(s, q, present, w, g)
    BY <1>9, <1>11, <1>12, <1>13, PresenceOK
  <2> QED BY <2>1, <2>2 DEF Verdicts
<1>14. SettledLeaf(p, c, l, xs) = Settled(p, o, E, present, odd, emitted)
  BY <1>2, <1>3, <1>5, <1>7, <1>11 DEF SettledLeaf
<1>15. FormOK(s, p, Settled(p, o, EnvsOf(s), present, odd, emitted), v, g)
  BY <1>6, <1>12, <1>13, SettledOK
<1>16. p = "unfixed" => Settled(p, o, EnvsOf(s), present, odd, emitted) = emitted
  BY DEF Settled
<1> QED BY <1>1, <1>6, <1>14, <1>15, <1>16

-----------------------------------------------------------------------------
(* A leaf of the plan *)

LEMMA GapIs == \A c, e, x : Gap(c, e, x) \in BOOLEAN
BY DEF Gap

\* An equality that errs reads a column whose convention, or whose absent parent, loses the row.
LEMMA EqualityErrs ==
  ASSUME NEW c, ColumnOK(c), NEW l, LeafOK(c, l), l.test = "in" \/ (l.test = "compare" /\ l.op = "eq"),
         NEW x, Holds(c, x), NEW e, EvaluateLeaf(c, l, x) = Err
  PROVE  Gap(c, e, x)
<1>1. c.shape # "list"
  BY DEF LeafOK
<1>2. PICK y : y = Sent(c, x)
  OBVIOUS
<1>3. CASE y = Err
  <2>1. x = Undefined \/ (x = Null /\ ~c.explicit)
    BY <1>2, <1>3, SentIs DEF ColumnOK
  <2> QED BY <2>1 DEF Gap
<1>4. CASE y # Err
  <2>1. CASE l.test = "in"
    <3>1. EvaluateLeaf(c, l, x) = In(y, l.lit)
      BY <1>2, <2>1 DEF EvaluateLeaf
    <3>2. IsCollection(l.lit)
      BY <2>1 DEF LeafOK, IsCollection
    <3> QED BY <1>4, <3>1, <3>2, Constants DEF In, Bool
  <2>2. CASE l.test = "compare" /\ l.op = "eq"
    <3>1. EvaluateLeaf(c, l, x) = CompareValues("eq", y, l.lit)
      BY <1>2, <2>2 DEF EvaluateLeaf
    <3>2. l.lit # Err
      BY <2>2, Constants DEF LeafOK
    <3> QED BY <1>4, <3>1, <3>2, Constants DEF CompareValues, Bool
  <2> QED BY <2>1, <2>2
<1> QED BY <1>3, <1>4

LEMMA LeafNodeOK ==
  ASSUME NEW c, NEW l, NEW xs, Column1(Scope(c, xs), c, xs), LeafOK(c, l)
  PROVE  NodeOK(LeafNode(c, l, xs))
<1>1. PICK s : s = Scope(c, xs)
  OBVIOUS
<1>2. s \in {"root", "row", "element"}
  BY <1>1 DEF Scope
<1>3. Column1(s, c, xs) /\ ColumnOK(c) /\ DOMAIN xs = EnvsOf(s) /\ \A e \in EnvsOf(s) : Holds(c, xs[e])
  BY <1>1 DEF Column1
<1>4. PICK v : v = [e \in EnvsOf(s) |-> EvaluateLeaf(c, l, xs[e])]
  OBVIOUS
<1>5. PICK g : g = [e \in EnvsOf(s) |-> Gap(c, e, xs[e])]
  OBVIOUS
<1>6. PICK form : form = [p \in Polarities |-> SettledLeaf(p, c, l, xs)]
  OBVIOUS
<1>7. PICK n : n = LeafNode(c, l, xs)
  OBVIOUS
<1>8. /\ n.scope = s /\ n.cel = v /\ n.gap = g /\ n.form = form
      /\ n.equality <=> l.test = "in" \/ (l.test = "compare" /\ l.op = "eq")
  BY <1>1, <1>3, <1>4, <1>5, <1>6, <1>7 DEF LeafNode
<1>9. v \in [EnvsOf(s) -> Tri]
  BY <1>3, <1>4, EvaluateTri
<1>10. g \in [EnvsOf(s) -> BOOLEAN]
  BY <1>5, GapIs
<1>11. \A e \in EnvsOf(s) : v[e] = EvaluateLeaf(c, l, xs[e]) /\ g[e] = Gap(c, e, xs[e])
  BY <1>4, <1>5
<1>12. ASSUME NEW p \in Polarities
       PROVE  FormOK(s, p, form[p], v, g) /\ (p = "unfixed" => form[p].const = Undefined)
  <2>1. form[p] = SettledLeaf(p, c, l, xs)
    BY <1>6
  <2> QED BY <1>3, <1>10, <1>11, <2>1, SettledLeafOK
<1>13. CondOK(n)
  BY <1>2, <1>8, <1>9, <1>10, <1>12 DEF CondOK, FormsOK, Verdicts
<1>14. n.form["unfixed"].const = Undefined
  BY <1>8, <1>12 DEF Polarities
<1>15. ASSUME n.equality, NEW e \in EnvsOf(n.scope), n.cel[e] = Err PROVE n.gap[e]
  BY <1>3, <1>8, <1>11, <1>15, EqualityErrs
<1> QED BY <1>7, <1>13, <1>14, <1>15 DEF NodeOK

-----------------------------------------------------------------------------
(* The branches of a compared conditional *)

\* COMPLEMENT_OPERATOR complements.
LEMMA ComplementCompares ==
  ASSUME NEW op \in Comparisons, NEW x \in Value, NEW y \in Value
  PROVE  /\ Complement(op) \in Comparisons
         /\ CompareValues(Complement(op), x, y) = Not(CompareValues(op, x, y))
<1>1. x.v \in Int /\ y.v \in Int
  BY ValueIs
<1>2. \A P : Bool(~P) = Not(Bool(P))
  BY Constants DEF Not, Bool, AsBoolean
<1>3. Not(Err) = Err
  BY Constants DEF Not, AsBoolean
<1>4. CASE Err \in {x, y}
  BY <1>3, <1>4 DEF CompareValues, Complement, Comparisons, Equalities, Orderings
<1>5. CASE Err \notin {x, y}
  <2>1. CASE op \in Equalities
    <3>1. CASE op = "eq"
      BY <1>2, <1>5, <3>1 DEF CompareValues, Complement, Comparisons, Equalities
    <3>2. CASE op = "ne"
      <4>1. CompareValues("ne", x, y) = Bool(~ValuesEqual(x, y)) /\ CompareValues("eq", x, y) = Bool(ValuesEqual(x, y))
        BY <1>5 DEF CompareValues
      <4>2. Complement(op) = "eq"
        BY <3>2 DEF Complement
      <4>3. Bool(ValuesEqual(x, y)) = Not(Bool(~ValuesEqual(x, y)))
        BY Constants DEF Not, Bool, AsBoolean
      <4> QED BY <3>2, <4>1, <4>2, <4>3 DEF Comparisons, Equalities
    <3> QED BY <2>1, <3>1, <3>2 DEF Equalities
  <2>2. CASE op \in Orderings
    <3>1. PICK k : k = Complement(op)
      OBVIOUS
    <3>2. k \in Orderings /\ (Ordered(k, x.v, y.v) <=> ~Ordered(op, x.v, y.v))
      BY <1>1, <2>2, <3>1 DEF Complement, Orderings, Ordered
    <3>3. \A o \in Orderings :
            CompareValues(o, x, y) = IF SameOrderedType(x, y) THEN Bool(Ordered(o, x.v, y.v)) ELSE Err
      BY <1>5 DEF CompareValues, Orderings
    <3>4. Bool(Ordered(k, x.v, y.v)) = Not(Bool(Ordered(op, x.v, y.v)))
      BY <3>2, Constants DEF Not, Bool, AsBoolean
    <3>5. CompareValues(k, x, y) = Not(CompareValues(op, x, y))
      BY <1>3, <2>2, <3>2, <3>3, <3>4
    <3> QED BY <3>1, <3>2, <3>5 DEF Comparisons
  <2> QED BY <2>1, <2>2 DEF Comparisons
<1> QED BY <1>4, <1>5

LEMMA ComplementIs ==
  ASSUME NEW c, ColumnOK(c), NEW l, LeafOK(c, l), l.test = "compare"
  PROVE  LET k == [l EXCEPT !.op = Complement(@)] IN
         LeafOK(c, k) /\ \A x : Holds(c, x) => EvaluateLeaf(c, k, x) = Not(EvaluateLeaf(c, l, x))
<1>1. PICK op : op = Complement(l.op)
  OBVIOUS
<1>2. PICK k : k = [l EXCEPT !.op = op]
  OBVIOUS
<1>3. l \in [test : Tests \ {"pair"}, op : Comparisons, lit : Value]
  BY DEF LeafOK
<1>4. op \in Comparisons
  BY <1>1, <1>3 DEF Complement, Comparisons, Equalities, Orderings
<1>5. /\ k \in [test : Tests \ {"pair"}, op : Comparisons, lit : Value]
      /\ k.test = "compare" /\ k.op = op /\ k.lit = l.lit
  BY <1>2, <1>3, <1>4
<1>6. LeafOK(c, k)
  BY <1>5 DEF LeafOK
<1>7. ASSUME NEW x, Holds(c, x) PROVE EvaluateLeaf(c, k, x) = Not(EvaluateLeaf(c, l, x))
  <2>1. PICK y : y = Sent(c, x)
    OBVIOUS
  <2>2. y = Err \/ y \in Value
    <3>1. c.shape # "list"
      BY DEF LeafOK
    <3>2. x = Undefined \/ Cell(c, x)
      BY <1>7, <3>1 DEF Holds
    <3>3. Null \in Value
      BY DEF Null, Value, Types, Scalars, WellFormed
    <3>4. Cell(c, x) => x \in Value
      BY <3>3 DEF Cell, Typed
    <3> QED BY <1>7, <2>1, <3>2, <3>4, SentIs
  <2>3. EvaluateLeaf(c, k, x) = CompareValues(op, y, l.lit) /\ EvaluateLeaf(c, l, x) = CompareValues(l.op, y, l.lit)
    BY <1>5, <2>1 DEF EvaluateLeaf
  <2>4. CASE y = Err
    <3>1. Not(Err) = Err
      BY Constants DEF Not, AsBoolean
    <3> QED BY <2>3, <2>4, <3>1, CompareErr
  <2>5. CASE y \in Value
    BY <1>1, <1>3, <2>3, <2>5, ComplementCompares
  <2> QED BY <2>2, <2>4, <2>5
<1> QED BY <1>1, <1>2, <1>6, <1>7

\* A comparison, and its complement in place of its negation.
LEMMA BranchFormOK ==
  ASSUME NEW f, NEW k, NEW v, NEW w, NEW g, FormOK("root", "unfixed", f, v, g), FormOK("root", "unfixed", k, w, g),
         f.const = Undefined, ~f.macro, ~k.macro, \A e \in {Root} : f.present[e] <=> k.present[e],
         \A e \in {Root} : v[e] \in Tri /\ w[e] = Not(v[e])
  PROVE  FormOK("root", "unfixed", [f EXCEPT !.no = k.yes], v, g)
<1>1. EnvsOf("root") = {Root}
  BY DEF EnvsOf
<1>2. PICK b : b = [f EXCEPT !.no = k.yes]
  OBVIOUS
<1>3. f \in FormOn({Root}) /\ k \in FormOn({Root})
  BY <1>1 DEF FormOK
<1>4. /\ b \in FormOn({Root}) /\ b.const = Undefined /\ b.macro = f.macro /\ b.hopped = f.hopped
      /\ b.present = f.present /\ b.nulls = f.nulls /\ b.yes = f.yes /\ b.no = k.yes
  BY <1>2, <1>3 DEF FormOn
<1>5. ASSUME NEW e \in {Root}
      PROVE  ConstantOK(b, e) /\ HopsOK(b, g, e) /\ TrueSide(b, v, g, e) /\ FalseSide(b, v, g, e)
  <2>1. /\ HopsOK(f, g, e) /\ TrueSide(f, v, g, e) /\ FalseSide(f, v, g, e)
        /\ TrueSide(k, w, g, e) /\ FalseSide(k, w, g, e)
    BY <1>1 DEF FormOK
  <2>2. ConstantOK(b, e)
    BY <1>4 DEF ConstantOK
  <2>3. HopsOK(b, g, e)
    BY <1>4, <2>1 DEF HopsOK
  <2>4. (w[e] = True <=> v[e] = False) /\ (w[e] = False <=> v[e] = True)
    BY NotIs
  <2>5. TrueSide(b, v, g, e)
    BY <1>4, <2>1, <2>4 DEF TrueSide, FalseSide
  <2>6. FalseSide(b, v, g, e)
    BY <1>4, <2>1, <2>4 DEF TrueSide, FalseSide
  <2> QED BY <2>2, <2>3, <2>5, <2>6
<1> QED BY <1>1, <1>2, <1>4, <1>5 DEF FormOK

LEMMA EmittedShape ==
  ASSUME NEW c, NEW l, NEW xs
  PROVE  /\ ~Emitted(c, l, xs).macro
         /\ Emitted(c, l, xs).present = [e \in DOMAIN xs |-> xs[e] # Undefined]
BY DEF Emitted, ColumnForm, NegateRequiringHops, Form

LEMMA BranchIsOK ==
  ASSUME NEW c, NEW l, NEW xs, Column1("root", c, xs), LeafOK(c, l), l.test \in {"in", "compare"}
  PROVE  BranchOK(Branch(c, l, xs))
<1>1. EnvsOf("root") = {Root}
  BY DEF EnvsOf
<1>2. ColumnOK(c) /\ DOMAIN xs = {Root} /\ Holds(c, xs[Root])
  BY <1>1 DEF Column1
<1>3. PICK cel : cel = EvaluateLeaf(c, l, xs[Root])
  OBVIOUS
<1>4. PICK gap \in BOOLEAN : gap = Gap(c, Root, xs[Root])
  BY GapIs
<1>5. PICK v : v = [e \in {Root} |-> cel]
  OBVIOUS
<1>6. PICK g : g = [e \in {Root} |-> gap]
  OBVIOUS
<1>7. cel \in Tri
  BY <1>2, <1>3, EvaluateTri
<1>8. PICK f : f = Emitted(c, l, xs)
  OBVIOUS
<1>9. FormOK("root", "unfixed", f, v, g) /\ f.const = Undefined
  <2>1. \A e \in EnvsOf("root") : v[e] = EvaluateLeaf(c, l, xs[e]) /\ g[e] = Gap(c, e, xs[e])
    BY <1>1, <1>3, <1>4, <1>5, <1>6
  <2> QED BY <1>8, <2>1, EmittedOK
<1>10. PICK b : b = Branch(c, l, xs)
  OBVIOUS
<1>11. b.cel = cel /\ b.gap = gap
  BY <1>3, <1>4, <1>8, <1>10 DEF Branch
<1>12. FormOK("root", "unfixed", b.form, v, g)
  <2>1. CASE l.test = "in"
    <3>1. b.form = f
      BY <1>8, <1>10, <2>1 DEF Branch
    <3> QED BY <1>9, <3>1
  <2>2. CASE l.test = "compare"
    <3>1. PICK o : o = [l EXCEPT !.op = Complement(@)]
      OBVIOUS
    <3>2. LeafOK(c, o) /\ \A x : Holds(c, x) => EvaluateLeaf(c, o, x) = Not(EvaluateLeaf(c, l, x))
      BY <1>2, <2>2, <3>1, ComplementIs
    <3>3. PICK k : k = Emitted(c, o, xs)
      OBVIOUS
    <3>4. PICK w : w = [e \in {Root} |-> Not(cel)]
      OBVIOUS
    <3>5. FormOK("root", "unfixed", k, w, g)
      <4>1. \A e \in EnvsOf("root") : w[e] = EvaluateLeaf(c, o, xs[e]) /\ g[e] = Gap(c, e, xs[e])
        BY <1>1, <1>2, <1>3, <1>4, <1>6, <3>2, <3>4
      <4> QED BY <3>2, <3>3, <4>1, EmittedOK
    <3>6. b.form = [f EXCEPT !.no = k.yes]
      BY <1>8, <1>10, <2>2, <3>1, <3>3 DEF Branch
    <3>7. ~f.macro /\ ~k.macro /\ f.present = k.present
      <4>1. ~f.macro /\ f.present = [e \in DOMAIN xs |-> xs[e] # Undefined]
        BY <1>8, EmittedShape
      <4>2. ~k.macro /\ k.present = [e \in DOMAIN xs |-> xs[e] # Undefined]
        BY <3>3, EmittedShape
      <4> QED BY <4>1, <4>2
    <3>8. \A e \in {Root} : v[e] \in Tri /\ w[e] = Not(v[e])
      BY <1>5, <1>7, <3>4
    <3> QED BY <1>9, <3>5, <3>6, <3>7, <3>8, BranchFormOK
  <2> QED BY <2>1, <2>2
<1> QED BY <1>5, <1>6, <1>7, <1>10, <1>11, <1>12 DEF BranchOK

-----------------------------------------------------------------------------
(* Two columns of one model *)

\* What PairNodes compares.
Near2(c) == ColumnOK(c) /\ c.shape = "scalar" /\ c.hop = "none"

LEMMA NearCell ==
  ASSUME NEW c, Near2(c), NEW x, Cell(c, x)
  PROVE  /\ x # Err /\ x # Undefined
         /\ x # Null => x \in Value /\ x.t = Family(c.type) /\ x.t \in Families /\ Sent(c, x) = x
         /\ x = Null => ~c.required /\ Sent(c, x) = IF c.omitted THEN Err ELSE Null
         /\ \A e : Gap(c, e, x) <=> x = Null /\ ~(e = Root /\ c.explicit)
<1>1. x # Err /\ x # Undefined
  BY TypedIs, NullIs DEF Near2, Cell
<1>2. x # Null => x \in Value /\ x.t = Family(c.type) /\ x.t \in Families /\ Sent(c, x) = x
  BY TypedIs DEF Near2, Cell
<1>3. x = Null => ~c.required
  BY TypedIs DEF Near2, Cell
<1>4. x = Null => Sent(c, x) = IF c.omitted THEN Err ELSE Null
  BY NullIs
<1>5. \A e : Gap(c, e, x) <=> x = Null /\ ~(e = Root /\ c.explicit)
  BY <1>1 DEF Gap, Near2
<1> QED BY <1>1, <1>2, <1>3, <1>4, <1>5

\* buildFieldToFieldFilter's equality of a column whose NULL is a value and one whose NULL is not.
MixedEquals(e, other) ==
  Not(Or({And({Bool(e = Null), SqlCompare("eq", other, other)}), Not(SqlCompare("eq", e, other))}))

\* Its equality of two columns whose NULL is a value.
ExplicitEquals(x, y) ==
  Or({Bool(x = Null /\ y = Null), And({Bool(x # Null), Bool(y # Null), SqlCompare("eq", x, y)})})

LEMMA SqlNull == \A op, x : SqlCompare(op, Null, x) = Err /\ SqlCompare(op, x, Null) = Err
BY DEF SqlCompare, Unknown

LEMMA PairTri ==
  ASSUME NEW x \in Tri, NEW y \in Tri
  PROVE  /\ And({x, y}) \in Tri /\ Or({x, y}) \in Tri
         /\ And({x, y}) = False <=> x = False \/ y = False
         /\ And({x, y}) = True <=> x = True /\ y = True
         /\ Or({x, y}) = True <=> x = True \/ y = True
         /\ Or({x, y}) = False <=> x = False /\ y = False
<1>1. PICK S : S = {x, y}
  OBVIOUS
<1>2. S \subseteq Tri /\ x \in S /\ y \in S /\ \A z \in S : z = x \/ z = y
  BY <1>1
<1>3. And(S) \in Tri /\ (And(S) = False <=> False \in S) /\ (And(S) = True <=> \A z \in S : z = True)
  BY <1>2, AndIs
<1>4. Or(S) \in Tri /\ (Or(S) = True <=> True \in S) /\ (Or(S) = False <=> \A z \in S : z = False)
  BY <1>2, OrIs
<1> QED BY <1>1, <1>2, <1>3, <1>4

LEMMA MixedIs ==
  ASSUME NEW e, NEW other, SqlCompare("eq", e, other) \in Tri, SqlCompare("eq", other, other) \in Tri
  PROVE  /\ MixedEquals(e, other) \in Tri
         /\ other = Null => MixedEquals(e, other) = Err
         /\ other # Null /\ e # Null => MixedEquals(e, other) = SqlCompare("eq", e, other)
         /\ other # Null /\ e = Null /\ SqlCompare("eq", other, other) = True => MixedEquals(e, other) = False
<1>1. PICK b \in Tri : b = Bool(e = Null)
  BY BoolIs
<1>2. (b = True <=> e = Null) /\ (b = False <=> e # Null)
  BY <1>1, BoolIs
<1>3. PICK q \in Tri, r \in Tri : q = SqlCompare("eq", other, other) /\ r = SqlCompare("eq", e, other)
  OBVIOUS
<1>4. PICK i : i = And({b, q})
  OBVIOUS
<1>5. i \in Tri /\ (i = False <=> b = False \/ q = False) /\ (i = True <=> b = True /\ q = True)
  BY <1>4, PairTri
<1>6. PICK n : n = Not(r)
  OBVIOUS
<1>7. n \in Tri /\ (n = True <=> r = False) /\ (n = False <=> r = True)
  BY <1>6, NotIs
<1>8. PICK o : o = Or({i, n})
  OBVIOUS
<1>9. o \in Tri /\ (o = True <=> i = True \/ n = True) /\ (o = False <=> i = False /\ n = False)
  BY <1>5, <1>7, <1>8, PairTri
<1>10. PICK m : m = Not(o)
  OBVIOUS
<1>11. m \in Tri /\ (m = True <=> o = False) /\ (m = False <=> o = True)
  BY <1>9, <1>10, NotIs
<1>12. MixedEquals(e, other) = m
  BY <1>1, <1>3, <1>4, <1>6, <1>8, <1>10 DEF MixedEquals
<1>13. other = Null => q = Err /\ r = Err
  BY <1>3, SqlNull
<1>14. e = Null => r = Err
  BY <1>3, SqlNull
<1> QED BY <1>2, <1>3, <1>5, <1>7, <1>9, <1>11, <1>12, <1>13, <1>14, Constants DEF Tri

LEMMA ExplicitIs ==
  ASSUME NEW x, NEW y, SqlCompare("eq", x, y) \in Tri
  PROVE  /\ x # Null /\ y # Null => ExplicitEquals(x, y) = SqlCompare("eq", x, y)
         /\ x = Null \/ y = Null => ExplicitEquals(x, y) = Bool(x = Null /\ y = Null)
<1>1. PICK b \in Tri, j \in Tri, k \in Tri : b = Bool(x = Null /\ y = Null) /\ j = Bool(x # Null) /\ k = Bool(y # Null)
  BY BoolIs
<1>2. /\ b # Err /\ (b = True <=> x = Null /\ y = Null)
      /\ (j = False <=> x = Null) /\ (j = True <=> x # Null) /\ (k = False <=> y = Null) /\ (k = True <=> y # Null)
  BY <1>1, BoolIs
<1>3. PICK r \in Tri : r = SqlCompare("eq", x, y)
  OBVIOUS
<1>4. PICK S : S = {j, k, r}
  OBVIOUS
<1>5. PICK a : a = And(S)
  OBVIOUS
<1>6. a \in Tri /\ (a = False <=> j = False \/ k = False \/ r = False) /\ (a = True <=> j = True /\ k = True /\ r = True)
  <2>1. S \subseteq Tri /\ j \in S /\ k \in S /\ r \in S /\ \A z \in S : z = j \/ z = k \/ z = r
    BY <1>4
  <2>2. And(S) \in Tri /\ (And(S) = False <=> False \in S) /\ (And(S) = True <=> \A z \in S : z = True)
    BY <2>1, AndIs
  <2> QED BY <1>5, <2>1, <2>2
<1>7. PICK o : o = Or({b, a})
  OBVIOUS
<1>8. o \in Tri /\ (o = True <=> b = True \/ a = True) /\ (o = False <=> b = False /\ a = False)
  BY <1>6, <1>7, PairTri
<1>9. ExplicitEquals(x, y) = o
  BY <1>1, <1>3, <1>4, <1>5, <1>7 DEF ExplicitEquals
<1> QED BY <1>1, <1>2, <1>3, <1>6, <1>8, <1>9, Constants DEF Tri

EqualityCell(c, d, x, y) ==
  IF c.explicit # d.explicit
  THEN MixedEquals(IF c.explicit THEN x ELSE y, IF c.explicit THEN y ELSE x)
  ELSE ExplicitEquals(x, y)

\* What an equality of the two columns says, and what its filter does.
LEMMA PairEquals ==
  ASSUME NEW c, Near2(c), NEW d, Near2(d), Family(c.type) = Family(d.type), c.explicit \/ d.explicit,
         NEW x, Cell(c, x), NEW y, Cell(d, y), NEW e, NEW q, NEW v, NEW g \in BOOLEAN,
         q = EqualityCell(c, d, x, y),
         v = CompareValues("eq", Sent(c, x), Sent(d, y)), g <=> Gap(c, e, x) \/ Gap(d, e, y)
  PROVE  /\ CellOK(q, v, g, TRUE) /\ v \in Tri
         /\ q = Err => x = Null \/ y = Null
<1>1. /\ x # Err /\ x # Undefined
      /\ x # Null => x \in Value /\ x.t = Family(c.type) /\ x.t \in Families /\ Sent(c, x) = x
      /\ x = Null => ~c.required /\ Sent(c, x) = IF c.omitted THEN Err ELSE Null
      /\ Gap(c, e, x) <=> x = Null /\ ~(e = Root /\ c.explicit)
  BY NearCell
<1>2. /\ y # Err /\ y # Undefined
      /\ y # Null => y \in Value /\ y.t = Family(d.type) /\ y.t \in Families /\ Sent(d, y) = y
      /\ y = Null => ~d.required /\ Sent(d, y) = IF d.omitted THEN Err ELSE Null
      /\ Gap(d, e, y) <=> y = Null /\ ~(e = Root /\ d.explicit)
  BY NearCell
<1>3. /\ v \in Tri
      /\ q = IF c.explicit # d.explicit
             THEN MixedEquals(IF c.explicit THEN x ELSE y, IF c.explicit THEN y ELSE x)
             ELSE ExplicitEquals(x, y)
  BY CompareTri DEF EqualityCell
<1>4. (c.explicit => ~c.omitted) /\ (d.explicit => ~d.omitted) /\ c.explicit \in BOOLEAN /\ d.explicit \in BOOLEAN
  BY DEF Near2, ColumnOK
<1>5. \A a, b : SqlCompare("eq", a, b) \in Tri
  BY CompareTri
<1>6. \A a : a \in Value /\ a.t \in Families => SqlCompare("eq", a, a) = True
  <2>1. \A a : a \in Value /\ a.t \in Families => SqlCompare("eq", a, a) = Bool(Compares("eq", a.v, a.v))
    BY CompareSame DEF Comparisons, Equalities
  <2> QED BY <2>1 DEF Compares, Bool
<1>7. CASE x # Null /\ y # Null
  <2>1. PICK r : r = SqlCompare("eq", x, y)
    OBVIOUS
  <2>2. v = r /\ r \in {True, False}
    <3>1. /\ CompareValues("eq", x, y) = Bool(Compares("eq", x.v, y.v))
          /\ SqlCompare("eq", x, y) = Bool(Compares("eq", x.v, y.v))
      BY <1>1, <1>2, <1>7, CompareSame DEF Comparisons, Equalities
    <3> QED BY <1>1, <1>2, <1>7, <2>1, <3>1, Constants
  <2>3. q = r
    <3>1. CASE c.explicit /\ ~d.explicit
      BY <1>3, <1>4, <1>5, <1>7, <2>1, <3>1, MixedIs
    <3>2. CASE ~c.explicit /\ d.explicit
      <4>1. q = SqlCompare("eq", y, x)
        BY <1>3, <1>4, <1>5, <1>7, <3>2, MixedIs
      <4>2. /\ SqlCompare("eq", x, y) = Bool(Compares("eq", x.v, y.v))
            /\ SqlCompare("eq", y, x) = Bool(Compares("eq", y.v, x.v))
        BY <1>1, <1>2, <1>7, CompareSame DEF Comparisons, Equalities
      <4>3. Compares("eq", x.v, y.v) <=> Compares("eq", y.v, x.v)
        BY DEF Compares, Ordered
      <4> QED BY <2>1, <4>1, <4>2, <4>3 DEF Bool
    <3>3. CASE c.explicit = d.explicit
      BY <1>3, <1>5, <1>7, <2>1, <3>3, ExplicitIs
    <3> QED BY <1>4, <3>1, <3>3, <3>2
  <2> QED BY <1>7, <2>2, <2>3, Constants DEF CellOK, Tri
<1>8. CASE (x = Null \/ y = Null) /\ c.explicit /\ d.explicit
  <2>1. q = Bool(x = Null /\ y = Null)
    BY <1>3, <1>5, <1>8, ExplicitIs
  <2>2. Sent(c, x) = x /\ Sent(d, y) = y
    BY <1>1, <1>2, <1>4, <1>8
  <2>3. v = Bool(x = Null /\ y = Null)
    <3>1. CASE x = Null /\ y = Null
      <4>1. v = CompareValues("eq", Null, Null)
        BY <2>2, <3>1
      <4> QED BY <3>1, <4>1, Constants DEF CompareValues, ValuesEqual, IsNumeric, Bool
    <3>2. CASE x # Null
      BY <1>1, <1>8, <2>2, <3>2, CompareNull, Constants
    <3>3. CASE y # Null
      BY <1>2, <1>8, <2>2, <3>3, CompareNull, Constants
    <3> QED BY <3>1, <3>2, <3>3
  <2> QED BY <1>8, <2>1, <2>3, BoolIs DEF CellOK, Tri
<1>9. CASE c.explicit /\ ~d.explicit /\ y = Null
  <2>1. q = Err
    BY <1>3, <1>5, <1>9, MixedIs
  <2>2. Gap(d, e, y)
    BY <1>2, <1>9
  <2> QED BY <1>3, <1>9, <2>1, <2>2, Constants DEF CellOK, Tri
<1>10. CASE c.explicit /\ ~d.explicit /\ y # Null /\ x = Null
  <2>1. q = False
    BY <1>3, <1>2, <1>5, <1>6, <1>10, MixedIs
  <2>2. Sent(c, x) = Null /\ Sent(d, y) = y
    BY <1>1, <1>2, <1>4, <1>10
  <2>3. v = False
    BY <1>2, <1>10, <2>2, CompareNull
  <2> QED BY <1>10, <2>1, <2>3, Constants DEF CellOK, Tri
<1>11. CASE ~c.explicit /\ d.explicit /\ x = Null
  <2>1. q = Err
    BY <1>3, <1>5, <1>11, MixedIs
  <2>2. Gap(c, e, x)
    BY <1>1, <1>11
  <2> QED BY <1>3, <1>11, <2>1, <2>2, Constants DEF CellOK, Tri
<1>12. CASE ~c.explicit /\ d.explicit /\ x # Null /\ y = Null
  <2>1. q = False
    BY <1>3, <1>1, <1>5, <1>6, <1>12, MixedIs
  <2>2. Sent(d, y) = Null /\ Sent(c, x) = x
    BY <1>1, <1>2, <1>4, <1>12
  <2>3. v = False
    BY <1>1, <1>12, <2>2, CompareNull
  <2> QED BY <1>12, <2>1, <2>3, Constants DEF CellOK, Tri
<1> QED BY <1>4, <1>7, <1>8, <1>9, <1>10, <1>11, <1>12

LEMMA PairCellIs ==
  ASSUME NEW c, NEW d, NEW op, NEW x, NEW y
  PROVE  /\ op \in Equalities /\ (c.explicit \/ d.explicit) =>
              PairCell(c, d, op, x, y) =
                IF op = "eq" THEN EqualityCell(c, d, x, y) ELSE Not(EqualityCell(c, d, x, y))
         /\ ~(op \in Equalities /\ (c.explicit \/ d.explicit)) => PairCell(c, d, op, x, y) = SqlCompare(op, x, y)
BY DEF PairCell, EqualityCell, MixedEquals, ExplicitEquals

LEMMA CompareNegated == \A x, y : CompareValues("ne", x, y) = Not(CompareValues("eq", x, y))
BY Constants DEF CompareValues, Not, Bool, AsBoolean

LEMMA PairCellOK ==
  ASSUME NEW c, Near2(c), NEW d, Near2(d), c.type = d.type, NEW op \in Comparisons,
         NEW x, Cell(c, x), NEW y, Cell(d, y), NEW e
  PROVE  LET q == PairCell(c, d, op, x, y) IN
         /\ CellOK(q, CompareValues(op, Sent(c, x), Sent(d, y)), Gap(c, e, x) \/ Gap(d, e, y), TRUE)
         /\ q = Err => x = Null \/ y = Null
<1>1. PICK q, v : q = PairCell(c, d, op, x, y) /\ v = CompareValues(op, Sent(c, x), Sent(d, y))
  OBVIOUS
<1>2. PICK g \in BOOLEAN : g = (Gap(c, e, x) \/ Gap(d, e, y))
  OBVIOUS
<1>3. v \in Tri
  BY <1>1, CompareTri
<1>4. CASE op \in Equalities /\ (c.explicit \/ d.explicit)
  <2>1. PICK k : k = EqualityCell(c, d, x, y)
    OBVIOUS
  <2>2. PICK u : u = CompareValues("eq", Sent(c, x), Sent(d, y))
    OBVIOUS
  <2>3. CellOK(k, u, g, TRUE) /\ u \in Tri /\ (k = Err => x = Null \/ y = Null)
    BY <1>2, <1>4, <2>1, <2>2, PairEquals
  <2>4. q = IF op = "eq" THEN k ELSE Not(k)
    BY <1>1, <1>4, <2>1, PairCellIs
  <2>5. CASE op = "eq"
    BY <1>1, <1>2, <2>2, <2>3, <2>4, <2>5
  <2>6. CASE op = "ne"
    <3>1. v = Not(u)
      BY <1>1, <2>2, <2>6, CompareNegated
    <3>2. k \in Tri
      BY <2>3 DEF CellOK
    <3>3. Not(k) \in Tri /\ (Not(k) = True <=> k = False) /\ (Not(k) = False <=> k = True)
      BY <3>2, NotIs
    <3>4. (Not(u) = True <=> u = False) /\ (Not(u) = False <=> u = True)
      BY <2>3, NotIs
    <3>5. CellOK(q, v, g, TRUE)
      BY <2>3, <2>4, <2>6, <3>1, <3>3, <3>4 DEF CellOK
    <3>6. q = Err => k = Err
      BY <2>4, <2>6, <3>2, <3>3, Constants DEF Tri
    <3> QED BY <1>1, <1>2, <2>3, <3>5, <3>6
  <2> QED BY <1>4, <2>5, <2>6 DEF Equalities
<1>5. CASE ~(op \in Equalities /\ (c.explicit \/ d.explicit))
  <2>1. q = SqlCompare(op, x, y)
    BY <1>1, <1>5, PairCellIs
  <2>2. /\ x # Err /\ x # Undefined
        /\ x # Null => x \in Value /\ x.t = Family(c.type) /\ x.t \in Families /\ Sent(c, x) = x
        /\ x = Null => ~c.required /\ Sent(c, x) = IF c.omitted THEN Err ELSE Null
        /\ Gap(c, e, x) <=> x = Null /\ ~(e = Root /\ c.explicit)
    BY NearCell
  <2>3. /\ y # Err /\ y # Undefined
        /\ y # Null => y \in Value /\ y.t = Family(d.type) /\ y.t \in Families /\ Sent(d, y) = y
        /\ y = Null => ~d.required /\ Sent(d, y) = IF d.omitted THEN Err ELSE Null
        /\ Gap(d, e, y) <=> y = Null /\ ~(e = Root /\ d.explicit)
    BY NearCell
  <2>4. CASE x # Null /\ y # Null
    <3>1. /\ CompareValues(op, x, y) = Bool(Compares(op, x.v, y.v))
          /\ SqlCompare(op, x, y) = Bool(Compares(op, x.v, y.v))
      BY <2>2, <2>3, <2>4, CompareSame
    <3>2. v = q /\ q \in {True, False}
      BY <1>1, <2>1, <2>2, <2>3, <2>4, <3>1, Constants
    <3> QED BY <1>1, <1>2, <2>4, <3>2, Constants DEF CellOK, Tri
  <2>5. CASE x = Null \/ y = Null
    <3>1. q = Err
      BY <2>1, <2>5, SqlNull
    <3>2. v = Err \/ g
      <4>1. CASE op \in Equalities
        BY <1>2, <1>5, <2>2, <2>3, <2>5, <4>1
      <4>2. CASE op \in Orderings
        <5>1. \A a, b : (a = Null \/ b = Null) => CompareValues(op, a, b) = Err
          BY <4>2, Constants DEF CompareValues, SameOrderedType, IsNumeric, Orderings
        <5>2. \A a, b : (a = Err \/ b = Err) => CompareValues(op, a, b) = Err
          BY DEF CompareValues
        <5>3. Sent(c, x) \in {Null, Err} \/ Sent(d, y) \in {Null, Err}
          BY <2>2, <2>3, <2>5
        <5> QED BY <1>1, <5>1, <5>2, <5>3
      <4> QED BY <4>1, <4>2 DEF Comparisons
    <3> QED BY <1>1, <1>2, <1>3, <2>5, <3>1, <3>2, Constants DEF CellOK, Tri
  <2> QED BY <2>4, <2>5
<1> QED BY <1>4, <1>5

\* The values of two columns at each environment of a scope.
Pair1(s, c, d, xs, ys) ==
  /\ Near2(c) /\ Near2(d) /\ DOMAIN xs = EnvsOf(s) /\ DOMAIN ys = EnvsOf(s)
  /\ \A e \in EnvsOf(s) : Cell(c, xs[e]) /\ Cell(d, ys[e])

LEMMA PairColumns ==
  ASSUME NEW s, NEW c, NEW d, NEW xs, NEW ys, Pair1(s, c, d, xs, ys)
  PROVE  Column1(s, c, xs) /\ Column1(s, d, ys)
BY DEF Pair1, Near2, Column1, Holds

\* What the form of a column reads, and the form of two.
ReadsOne(f, E, xs, missing) ==
  /\ f \in FormOn(E) /\ ~f.macro /\ ~f.hopped
  /\ \A e \in E : (f.present[e] <=> xs[e] # Undefined) /\ (f.nulls[e] <=> missing /\ xs[e] = Null)
ReadsTwo(f, E, xs, ys, missing, lost) ==
  /\ f \in FormOn(E) /\ ~f.macro /\ ~f.hopped
  /\ \A e \in E : /\ f.present[e] <=> xs[e] # Undefined /\ ys[e] # Undefined
                  /\ f.nulls[e] <=> (missing /\ xs[e] = Null) \/ (lost /\ ys[e] = Null)

LEMMA ColumnShape ==
  ASSUME NEW E, NEW c, c.hop = "none", NEW xs, DOMAIN xs = E, NEW recorded
  PROVE  ReadsOne(ColumnForm(c, xs, recorded, Refusal), E, xs, recorded)
<1>1. Refusal \in FilterOn(E)
  BY RefusalIs
<1>2. PICK f \in FormOn(E) :
        /\ f.const = Undefined /\ ~f.macro /\ (f.hopped <=> c.hop # "none") /\ f.yes = Refusal
        /\ \A e \in E : (f.present[e] <=> xs[e] # Undefined) /\ (f.nulls[e] <=> recorded /\ xs[e] = Null)
        /\ ColumnForm(c, xs, recorded, Refusal) = NegateRequiringHops(f)
  BY <1>1, ColumnFormIs
<1>3. PICK n : n = RequiringHops(f, Negate(f.yes))
  OBVIOUS
<1>4. NegateRequiringHops(f) = [f EXCEPT !.no = n] /\ n \in FilterOn(E)
  BY <1>3, NegateRequiringHopsIs
<1>5. PICK k : k = [f EXCEPT !.no = n]
  OBVIOUS
<1>6. k \in FormOn(E) /\ k.macro = f.macro /\ k.hopped = f.hopped /\ k.present = f.present /\ k.nulls = f.nulls
  BY <1>4, <1>5 DEF FormOn
<1>7. ReadsOne(k, E, xs, recorded)
  BY <1>2, <1>6 DEF ReadsOne
<1> QED BY <1>2, <1>4, <1>5, <1>7

LEMMA PairShape ==
  ASSUME NEW E, NEW c, NEW d, c.hop = "none", d.hop = "none", NEW xs, NEW ys, DOMAIN xs = E, DOMAIN ys = E,
         NEW missing, NEW lost, NEW yes \in FilterOn(E)
  PROVE  LET both == Combined({ColumnForm(c, xs, missing, Refusal), ColumnForm(d, ys, lost, Refusal)}, yes) IN
         ReadsTwo(both, E, xs, ys, missing, lost) /\ both.const = Undefined /\ both.yes = yes
<1>1. PICK f : f = ColumnForm(c, xs, missing, Refusal)
  OBVIOUS
<1>2. PICK k : k = ColumnForm(d, ys, lost, Refusal)
  OBVIOUS
<1>3. ReadsOne(f, E, xs, missing) /\ ReadsOne(k, E, ys, lost)
  BY <1>1, <1>2, ColumnShape
<1>4. f \in FormOn(E) /\ k \in FormOn(E)
  BY <1>3 DEF ReadsOne
<1> DEFINE both == Combined({f, k}, yes)
<1>5. /\ both \in FormOn(E) /\ both.const = Undefined /\ both.yes = yes /\ both.no = yes
      /\ both.macro <=> f.macro \/ k.macro
      /\ both.hopped <=> f.hopped \/ k.hopped
      /\ \A e \in E : (both.present[e] <=> f.present[e] /\ k.present[e]) /\ (both.nulls[e] <=> f.nulls[e] \/ k.nulls[e])
  BY <1>4, CombinedPair
<1> HIDE DEF both
<1>6. ReadsTwo(both, E, xs, ys, missing, lost)
  BY <1>3, <1>5 DEF ReadsOne, ReadsTwo
<1> QED BY <1>1, <1>2, <1>5, <1>6 DEF both

\* buildFieldToFieldFilter
LEMMA PairFormOK ==
  ASSUME NEW s, NEW p, NEW c, NEW d, NEW xs, NEW ys, Pair1(s, c, d, xs, ys), NEW op \in Comparisons, NEW v, NEW g,
         \A e \in EnvsOf(s) : /\ v[e] = CompareValues(op, Sent(c, xs[e]), Sent(d, ys[e]))
                              /\ g[e] <=> Gap(c, e, xs[e]) \/ Gap(d, e, ys[e])
  PROVE  FormOK(s, p, PairForm(c, d, op, xs, ys), v, g) /\ PairForm(c, d, op, xs, ys).const = Undefined
<1>1. PICK E : E = EnvsOf(s)
  OBVIOUS
<1>2. /\ Near2(c) /\ Near2(d) /\ DOMAIN xs = E /\ DOMAIN ys = E
      /\ \A e \in E : Cell(c, xs[e]) /\ Cell(d, ys[e])
  BY <1>1 DEF Pair1
<1>3. PICK is : is = [e \in E |-> PairCell(c, d, op, xs[e], ys[e])]
  OBVIOUS
<1>4. PICK differ \in BOOLEAN : differ = (c.type # d.type)
  OBVIOUS
<1>5. PICK yes : yes = Unless(differ, Filter(is, {}))
  OBVIOUS
<1>6. ASSUME ~differ, NEW e \in E
      PROVE  /\ CellOK(is[e], v[e], g[e], TRUE)
             /\ is[e] = Err => xs[e] = Null \/ ys[e] = Null
  <2>1. PICK x, y : x = xs[e] /\ y = ys[e]
    OBVIOUS
  <2>2. Cell(c, x) /\ Cell(d, y) /\ c.type = d.type
    BY <1>2, <1>4, <1>6, <2>1
  <2>3. PICK q, u : q = PairCell(c, d, op, x, y) /\ u = CompareValues(op, Sent(c, x), Sent(d, y))
    OBVIOUS
  <2>4. PICK h \in BOOLEAN : h = (Gap(c, e, x) \/ Gap(d, e, y))
    OBVIOUS
  <2>5. CellOK(q, u, h, TRUE) /\ (q = Err => x = Null \/ y = Null)
    BY <1>2, <2>2, <2>3, <2>4, PairCellOK
  <2>6. is[e] = q /\ v[e] = u /\ (g[e] <=> h)
    BY <1>1, <1>3, <2>1, <2>3, <2>4
  <2> QED BY <2>1, <2>5, <2>6 DEF CellOK
<1>7. yes \in FilterOn(E) /\ (Tr(yes) => ~differ /\ yes.is = is)
  <2>1. CASE differ
    <3>1. yes = Refusal
      BY <1>5, <2>1 DEF Unless
    <3> QED BY <3>1, RefusalIs
  <2>2. CASE ~differ
    <3>1. yes = Filter(is, {})
      BY <1>5, <2>2 DEF Unless
    <3>2. is \in [E -> Tri]
      <4>1. \A e \in E : is[e] \in Tri
        BY <1>6, <2>2 DEF CellOK
      <4> QED BY <1>3, <4>1
    <3>3. PICK odd \in SUBSET Disagreements : odd = {}
      OBVIOUS
    <3>4. yes \in FilterOn(E) /\ yes.is = is
      BY <3>1, <3>2, <3>3, FilterOf
    <3> QED BY <2>2, <3>4
  <2> QED BY <2>1, <2>2
<1>8. PICK missing \in BOOLEAN, lost \in BOOLEAN : missing = ~c.required /\ lost = ~d.required
  OBVIOUS
<1>9. PICK both : both = Combined({ColumnForm(c, xs, missing, Refusal), ColumnForm(d, ys, lost, Refusal)}, yes)
  OBVIOUS
<1>10. c.hop = "none" /\ d.hop = "none"
  BY <1>2 DEF Near2
<1>11. ReadsTwo(both, E, xs, ys, missing, lost) /\ both.const = Undefined /\ both.yes = yes
  BY <1>2, <1>7, <1>9, <1>10, PairShape
<1>12. /\ both \in FormOn(E) /\ both.const = Undefined /\ both.yes = yes
       /\ ~both.macro /\ ~both.hopped
       /\ \A e \in E : /\ both.present[e] <=> xs[e] # Undefined /\ ys[e] # Undefined
                       /\ both.nulls[e] <=> (missing /\ xs[e] = Null) \/ (lost /\ ys[e] = Null)
  BY <1>11 DEF ReadsTwo
<1>13. PairForm(c, d, op, xs, ys) = NegateRequiringHops(both)
  BY <1>2, <1>3, <1>4, <1>5, <1>8, <1>9 DEF PairForm
<1>14. PICK n : n = RequiringHops(both, Negate(both.yes))
  OBVIOUS
<1>15. NegateRequiringHops(both) = [both EXCEPT !.no = n] /\ NegationOf(n, both, E)
  BY <1>12, <1>14, NegateRequiringHopsIs
<1>16. ASSUME NEW e \in E
       PROVE  /\ HopsOK(both, g, e)
              /\ Tr(both.yes) => CellOK(both.yes.is[e], v[e], g[e], ~both.macro /\ both.present[e])
              /\ s # "root" => /\ ~both.macro /\ ~both.hopped /\ (both.nulls[e] => g[e])
                               /\ Tr(both.yes) /\ both.yes.is[e] = Err => both.nulls[e]
  <2>1. xs[e] # Undefined /\ ys[e] # Undefined /\ (xs[e] = Null => missing) /\ (ys[e] = Null => lost)
    BY <1>2, <1>8, NearCell
  <2>2. both.present[e]
    BY <1>12, <2>1
  <2>3. HopsOK(both, g, e)
    BY <2>2 DEF HopsOK
  <2>4. ASSUME Tr(both.yes)
        PROVE  /\ CellOK(both.yes.is[e], v[e], g[e], ~both.macro /\ both.present[e])
               /\ both.yes.is[e] = Err => both.nulls[e]
    <3>1. ~differ /\ both.yes.is = is
      BY <1>7, <1>12, <2>4
    <3>2. CellOK(is[e], v[e], g[e], TRUE) /\ (is[e] = Err => xs[e] = Null \/ ys[e] = Null)
      BY <1>6, <3>1
    <3>3. CellOK(both.yes.is[e], v[e], g[e], ~both.macro /\ both.present[e])
      BY <1>12, <2>2, <3>1, <3>2 DEF CellOK
    <3> QED BY <1>12, <2>1, <3>1, <3>2, <3>3
  <2>5. ASSUME s # "root" PROVE both.nulls[e] => g[e]
    <3>1. both.nulls[e] => xs[e] = Null \/ ys[e] = Null
      BY <1>12
    <3>2. e # Root
      BY <1>1, <2>5, EnvIs
    <3>3. g[e] <=> Gap(c, e, xs[e]) \/ Gap(d, e, ys[e])
      BY <1>1
    <3> QED BY <3>1, <3>2, <3>3 DEF Gap
  <2> QED BY <1>12, <2>3, <2>4, <2>5
<1>17. FormOK(s, p, [both EXCEPT !.no = n], v, g)
  BY <1>1, <1>12, <1>15, <1>16, FormOfCells
<1>18. [both EXCEPT !.no = n].const = Undefined
  BY <1>12 DEF FormOn
<1> QED BY <1>13, <1>15, <1>17, <1>18

\* What the presence test of a pair says of a row.
PairThere(c, d, x, y) ==
  IF ~MayBeMissing(c) THEN IsThere(y)
  ELSE IF ~MayBeMissing(d) THEN IsThere(x)
  ELSE Junction(FALSE, {IsThere(x), IsThere(y)})

LEMMA ThereTri == \A x : IsThere(x) \in Tri /\ IsThere(x) # False /\ (IsThere(x) = True <=> x \notin {Undefined, Null})
BY Constants DEF IsThere, Tri

LEMMA PairThereIs ==
  ASSUME NEW c, NEW d, NEW x, NEW y
  PROVE  LET w == PairThere(c, d, x, y) IN
         /\ w \in Tri /\ w # False
         /\ MayBeMissing(c) /\ MayBeMissing(d) => Joins("and", w, IsThere(x), IsThere(y))
         /\ w = True <=> /\ ~MayBeMissing(c) \/ MayBeMissing(d) => y \notin {Undefined, Null}
                         /\ MayBeMissing(c) => x \notin {Undefined, Null}
<1>1. PICK i \in Tri, j \in Tri : i = IsThere(x) /\ j = IsThere(y)
  BY ThereTri
<1>2. /\ i # False /\ (i = True <=> x \notin {Undefined, Null})
      /\ j # False /\ (j = True <=> y \notin {Undefined, Null})
  BY <1>1, ThereTri
<1>3. PICK z : z = Junction(FALSE, {i, j})
  OBVIOUS
<1>4. z \in Tri /\ Joins("and", z, i, j)
  <2>1. z = And({i, j})
    BY <1>3 DEF And
  <2> QED BY <2>1, PairTri DEF Joins
<1>5. PICK w : w = PairThere(c, d, x, y)
  OBVIOUS
<1>6. w = IF ~MayBeMissing(c) THEN j ELSE IF ~MayBeMissing(d) THEN i ELSE z
  BY <1>1, <1>3, <1>5 DEF PairThere
<1> QED BY <1>1, <1>2, <1>4, <1>5, <1>6, Constants DEF Joins

LEMMA PairPresenceOK ==
  ASSUME NEW s, NEW p, NEW c, NEW d, NEW xs, NEW ys, Pair1(s, c, d, xs, ys), NEW w, NEW g,
         \A e \in EnvsOf(s) : /\ w[e] = PairThere(c, d, xs[e], ys[e])
                              /\ g[e] <=> Gap(c, e, xs[e]) \/ Gap(d, e, ys[e])
  PROVE  FormOK(s, p, PairPresence(c, d, xs, ys), w, g)
<1>1. Column1(s, c, xs) /\ Column1(s, d, ys) /\ c.shape # "list" /\ d.shape # "list"
  BY PairColumns DEF Pair1, Near2
<1>2. PICK i, j : i = [e \in EnvsOf(s) |-> IsThere(xs[e])] /\ j = [e \in EnvsOf(s) |-> IsThere(ys[e])]
  OBVIOUS
<1>3. PICK gi, gj : gi = [e \in EnvsOf(s) |-> Gap(c, e, xs[e])] /\ gj = [e \in EnvsOf(s) |-> Gap(d, e, ys[e])]
  OBVIOUS
<1>4. FormOK(s, p, Presence(c, xs), i, gi)
  <2>1. \A e \in EnvsOf(s) : i[e] = IsThere(xs[e]) /\ gi[e] = Gap(c, e, xs[e])
    BY <1>2, <1>3
  <2> QED BY <1>1, <2>1, PresenceOK
<1>5. FormOK(s, p, Presence(d, ys), j, gj)
  <2>1. \A e \in EnvsOf(s) : j[e] = IsThere(ys[e]) /\ gj[e] = Gap(d, e, ys[e])
    BY <1>2, <1>3
  <2> QED BY <1>1, <2>1, PresenceOK
<1>6. \A e \in EnvsOf(s) : g[e] <=> gi[e] \/ gj[e]
  BY <1>3
<1>7. CASE ~MayBeMissing(c)
  <2>1. PairPresence(c, d, xs, ys) = Presence(d, ys) /\ \A e \in EnvsOf(s) : w[e] = j[e]
    BY <1>2, <1>7 DEF PairPresence, PairThere
  <2> QED BY <1>5, <1>6, <2>1, Refines
<1>8. CASE MayBeMissing(c) /\ ~MayBeMissing(d)
  <2>1. PairPresence(c, d, xs, ys) = Presence(c, xs) /\ \A e \in EnvsOf(s) : w[e] = i[e]
    BY <1>2, <1>8 DEF PairPresence, PairThere
  <2> QED BY <1>4, <1>6, <2>1, Refines
<1>9. CASE MayBeMissing(c) /\ MayBeMissing(d)
  <2>1. PairPresence(c, d, xs, ys) = JunctionForm("and", Presence(c, xs), Presence(d, ys))
    BY <1>9 DEF PairPresence
  <2>2. \A e \in EnvsOf(s) : Joins("and", w[e], i[e], j[e])
    BY <1>2, <1>9, PairThereIs
  <2>3. PICK op \in Junctions : op = "and"
    BY DEF Junctions
  <2>4. \A e \in EnvsOf(s) : Joins(op, w[e], i[e], j[e]) /\ (g[e] <=> gi[e] \/ gj[e])
    BY <1>6, <2>2, <2>3
  <2>5. FormOK(s, p, JunctionForm(op, Presence(c, xs), Presence(d, ys)), w, g)
    BY <1>4, <1>5, <2>4, JunctionFormOK
  <2> QED BY <2>1, <2>3, <2>5
<1> QED BY <1>7, <1>8, <1>9

\* Columns of different types hold no two equal values but the nulls.
LEMMA PairMistyped ==
  ASSUME NEW c, Near2(c), NEW d, Near2(d), c.known # "none", d.known # "none", c.known # d.known,
         NEW x, Cell(c, x), NEW y, Cell(d, y)
  PROVE  /\ \A op \in Orderings : CompareValues(op, Sent(c, x), Sent(d, y)) = Err
         /\ \A op \in Equalities : x # Null \/ y # Null => Sent(c, x) = Err \/ Sent(d, y) = Err
                                     \/ CompareValues(op, Sent(c, x), Sent(d, y)) = IF op = "ne" THEN True ELSE False
<1>1. Family(c.type) \in Families /\ Family(d.type) \in Families /\ Family(c.type) # Family(d.type)
  BY FamilyIs DEF Near2, ColumnOK
<1>2. PICK a, b : a = Sent(c, x) /\ b = Sent(d, y)
  OBVIOUS
<1>3. /\ x # Null => a = x /\ x \in Value /\ x.t = Family(c.type)
      /\ x = Null => a \in {Null, Err}
      /\ y # Null => b = y /\ y \in Value /\ y.t = Family(d.type)
      /\ y = Null => b \in {Null, Err}
  BY <1>2, NearCell
<1>4. a = Err \/ b = Err \/ (a = Null /\ b = Null) \/ (a.t # b.t /\ ~(IsNumeric(a) /\ IsNumeric(b)))
  BY <1>1, <1>3, Constants DEF IsNumeric, Families
<1>5. \A op \in Orderings : CompareValues(op, a, b) = Err
  <2>1. a = Err \/ b = Err \/ ~SameOrderedType(a, b)
    BY <1>4, Constants DEF SameOrderedType, IsNumeric
  <2> QED BY <2>1 DEF CompareValues, Orderings
<1>6. ASSUME NEW op \in Equalities, x # Null \/ y # Null, a # Err, b # Err
      PROVE  CompareValues(op, a, b) = IF op = "ne" THEN True ELSE False
  <2>1. ~ValuesEqual(a, b)
    <3>1. ~(a = Null /\ b = Null)
      BY <1>3, <1>6, ValueOfFamily, <1>1
    <3>2. a.t # b.t /\ ~(IsNumeric(a) /\ IsNumeric(b))
      BY <1>4, <1>6, <3>1
    <3> QED BY <3>2 DEF ValuesEqual
  <2> QED BY <1>6, <2>1 DEF CompareValues, Equalities, Bool
<1> QED BY <1>2, <1>5, <1>6

\* The nulls two columns of different types share.
NullPairs(c, d, op) == op \in Equalities /\ c.explicit /\ d.explicit /\ ~c.required /\ ~d.required

Differ(op) == IF op = "ne" THEN True ELSE False

\* Where the presence test w finds what it has to, the comparison q is the constant.
RowDiffers(c, d, op, e, x, y, q, w) ==
  LET there == ~MayBeMissing(c) /\ ~MayBeMissing(d) IN
  /\ w = True => q = Differ(op) \/ there
  /\ ~Gap(c, e, x) /\ ~Gap(d, e, y) => w = True \/ there
  /\ there /\ ~NullPairs(c, d, op) => q = Differ(op)

LEMMA PairRow ==
  ASSUME NEW c, Near2(c), NEW d, Near2(d), c.known # "none", d.known # "none", c.known # d.known,
         NEW x, Cell(c, x), NEW y, Cell(d, y), NEW op \in Equalities, NEW e
  PROVE  RowDiffers(c, d, op, e, x, y, CompareValues(op, Sent(c, x), Sent(d, y)), PairThere(c, d, x, y))
<1>1. PICK q, w : q = CompareValues(op, Sent(c, x), Sent(d, y)) /\ w = PairThere(c, d, x, y)
  OBVIOUS
<1>2. /\ MayBeMissing(c) <=> ~c.explicit /\ ~c.required
      /\ MayBeMissing(d) <=> ~d.explicit /\ ~d.required
  BY DEF MayBeMissing, Near2
<1>3. (c.explicit => ~c.omitted) /\ (d.explicit => ~d.omitted)
  BY DEF Near2, ColumnOK
<1>4. /\ x # Err /\ x # Undefined
      /\ x # Null => Sent(c, x) = x
      /\ x = Null => ~c.required /\ Sent(c, x) = IF c.omitted THEN Err ELSE Null
      /\ Gap(c, e, x) <=> x = Null /\ ~(e = Root /\ c.explicit)
  BY NearCell
<1>5. /\ y # Err /\ y # Undefined
      /\ y # Null => Sent(d, y) = y
      /\ y = Null => ~d.required /\ Sent(d, y) = IF d.omitted THEN Err ELSE Null
      /\ Gap(d, e, y) <=> y = Null /\ ~(e = Root /\ d.explicit)
  BY NearCell
<1>6. x # Null \/ y # Null => Sent(c, x) = Err \/ Sent(d, y) = Err \/ q = Differ(op)
  BY <1>1, PairMistyped DEF Differ
<1>7. /\ w = True <=> /\ ~MayBeMissing(c) \/ MayBeMissing(d) => y # Null
                      /\ MayBeMissing(c) => x # Null
  BY <1>1, <1>4, <1>5, PairThereIs
<1>8. w = True => q = Differ(op) \/ (~MayBeMissing(c) /\ ~MayBeMissing(d))
  BY <1>2, <1>3, <1>4, <1>5, <1>6, <1>7, Constants
<1>9. ~Gap(c, e, x) /\ ~Gap(d, e, y) => w = True \/ (~MayBeMissing(c) /\ ~MayBeMissing(d))
  BY <1>2, <1>4, <1>5, <1>7
<1>10. ~MayBeMissing(c) /\ ~MayBeMissing(d) /\ ~NullPairs(c, d, op) => q = Differ(op)
  BY <1>2, <1>3, <1>4, <1>5, <1>6, Constants DEF NullPairs
<1>11. RowDiffers(c, d, op, e, x, y, q, w)
  BY <1>8, <1>9, <1>10 DEF RowDiffers
<1> QED BY <1>1, <1>11

LEMMA PairDecides ==
  ASSUME NEW s, NEW c, NEW d, NEW xs, NEW ys, Pair1(s, c, d, xs, ys), NEW op \in Comparisons, NEW odd,
         odd = {} => ~NullPairs(c, d, op), NEW v, NEW w, NEW g,
         \A e \in EnvsOf(s) : /\ v[e] = CompareValues(op, Sent(c, xs[e]), Sent(d, ys[e]))
                              /\ w[e] = PairThere(c, d, xs[e], ys[e])
                              /\ g[e] <=> Gap(c, e, xs[e]) \/ Gap(d, e, ys[e])
  PROVE  Decides(EnvsOf(s), PairOutcomes(c, d, op), odd, v, w, g)
<1>1. PICK E : E = EnvsOf(s)
  OBVIOUS
<1>2. Near2(c) /\ Near2(d) /\ \A e \in E : Cell(c, xs[e]) /\ Cell(d, ys[e])
  BY <1>1 DEF Pair1
<1>3. PICK o : o = PairOutcomes(c, d, op)
  OBVIOUS
<1>4. CASE "none" \in {c.known, d.known} \/ c.known = d.known
  <2>1. o = Open
    BY <1>3, <1>4 DEF PairOutcomes
  <2> QED BY <1>3, <2>1, OpenDecides
<1>5. CASE ~("none" \in {c.known, d.known} \/ c.known = d.known) /\ op \in Orderings
  <2>1. o = Outcomes({}, TRUE, "none")
    BY <1>3, <1>5 DEF PairOutcomes
  <2>2. \A e \in EnvsOf(s) : v[e] = Err
    BY <1>1, <1>2, <1>5, PairMistyped
  <2> QED BY <1>3, <2>1, <2>2, ErrorDecides
<1>6. CASE ~("none" \in {c.known, d.known} \/ c.known = d.known) /\ op \in Equalities
  <2>1. PICK b \in BOOLEAN, m \in BOOLEAN : b = (op = "ne") /\ m = (MayBeMissing(c) \/ MayBeMissing(d))
    OBVIOUS
  <2>2. op \notin Orderings
    BY <1>6 DEF Orderings, Equalities
  <2>3. o = Outcomes({b}, m, "missing")
    BY <1>3, <1>6, <2>1, <2>2 DEF PairOutcomes, Definite
  <2>4. o.values = {b} /\ (o.error <=> m) /\ o.test = "missing"
    BY <2>3 DEF Outcomes
  <2>5. (TRUE \in o.values <=> b) /\ Bool(TRUE \in o.values) = Differ(op)
    BY <2>1, <2>4 DEF Bool, Differ
  <2>6. Differ(op) = IF b THEN True ELSE False
    BY <2>1 DEF Differ
  <2>7. ASSUME NEW e \in E
        PROVE  /\ w[e] \in Tri /\ w[e] # False
               /\ m => /\ w[e] = True => v[e] = Differ(op)
                       /\ ~g[e] => w[e] = True
               /\ ~m /\ odd = {} => v[e] = Differ(op)
    <3>1. PICK x, y, q, u : x = xs[e] /\ y = ys[e] /\ q = v[e] /\ u = w[e]
      OBVIOUS
    <3>2. Cell(c, x) /\ Cell(d, y) /\ q = CompareValues(op, Sent(c, x), Sent(d, y)) /\ u = PairThere(c, d, x, y)
      BY <1>1, <1>2, <3>1
    <3>3. g[e] <=> Gap(c, e, x) \/ Gap(d, e, y)
      BY <1>1, <3>1
    <3>4. u \in Tri /\ u # False
      BY <3>2, PairThereIs
    <3>5. RowDiffers(c, d, op, e, x, y, q, u)
      BY <1>2, <1>6, <3>2, PairRow
    <3>6. /\ u = True => q = Differ(op) \/ (~MayBeMissing(c) /\ ~MayBeMissing(d))
          /\ ~Gap(c, e, x) /\ ~Gap(d, e, y) => u = True \/ (~MayBeMissing(c) /\ ~MayBeMissing(d))
          /\ ~MayBeMissing(c) /\ ~MayBeMissing(d) /\ ~NullPairs(c, d, op) => q = Differ(op)
      BY <3>5 DEF RowDiffers
    <3> QED BY <2>1, <3>1, <3>3, <3>4, <3>6
  <2>8. ASSUME m PROVE /\ TRUE \in o.values => Agrees(E, v, w, g)
                       /\ TRUE \notin o.values => Agrees(E, v, [e \in E |-> Not(w[e])], g)
    <3>1. ASSUME b PROVE Agrees(E, v, w, g)
      BY <2>6, <2>7, <2>8, <3>1, Constants DEF Agrees
    <3>2. ASSUME ~b PROVE Agrees(E, v, [e \in E |-> Not(w[e])], g)
      <4>1. PICK n : n = [e \in E |-> Not(w[e])]
        OBVIOUS
      <4>2. \A e \in E : n[e] # True /\ (n[e] = False <=> w[e] = True)
        BY <2>7, <4>1, NotIs
      <4>3. Agrees(E, v, n, g)
        BY <2>6, <2>7, <2>8, <3>2, <4>2, Constants DEF Agrees
      <4> QED BY <4>1, <4>3
    <3> QED BY <2>5, <3>1, <3>2
  <2>9. Decides(E, o, odd, v, w, g)
    <3>1. o.values \subseteq BOOLEAN /\ o.test = "missing" /\ o.values \in {{TRUE}, {FALSE}}
      BY <2>4
    <3>2. \A e \in E : ~o.error /\ odd = {} => v[e] = Bool(TRUE \in o.values)
      <4>1. PICK z : z = Bool(TRUE \in o.values)
        OBVIOUS
      <4>2. z = Differ(op)
        BY <2>5, <4>1
      <4>3. \A e \in E : ~o.error /\ odd = {} => v[e] = z
        BY <2>4, <2>7, <4>2
      <4> QED BY <4>1, <4>3
    <3>3. o.error => /\ TRUE \in o.values => Agrees(E, v, w, g)
                     /\ TRUE \notin o.values => Agrees(E, v, [e \in E |-> Not(w[e])], g)
      BY <2>4, <2>8
    <3> QED BY <3>1, <3>2, <3>3 DEF Decides
  <2> QED BY <1>1, <1>3, <2>9
<1> QED BY <1>4, <1>5, <1>6 DEF Comparisons

LEMMA PairNodeOK ==
  ASSUME NEW c, NEW d, NEW xs, NEW ys, Pair1(Scope(c, xs), c, d, xs, ys), NEW op \in Comparisons
  PROVE  NodeOK(PairNode(c, d, op, xs, ys))
<1>1. PICK s : s = Scope(c, xs)
  OBVIOUS
<1>2. s \in {"root", "row", "element"}
  BY <1>1 DEF Scope
<1>3. PICK E : E = EnvsOf(s)
  OBVIOUS
<1>4. DOMAIN xs = E /\ Pair1(s, c, d, xs, ys)
  BY <1>1, <1>3 DEF Pair1
<1>5. PICK v : v = [e \in E |-> CompareValues(op, Sent(c, xs[e]), Sent(d, ys[e]))]
  OBVIOUS
<1>6. PICK g : g = [e \in E |-> Gap(c, e, xs[e]) \/ Gap(d, e, ys[e])]
  OBVIOUS
<1>7. PICK w : w = [e \in E |-> PairThere(c, d, xs[e], ys[e])]
  OBVIOUS
<1>8. v \in [E -> Tri] /\ w \in [E -> Tri]
  BY <1>5, <1>7, CompareTri, PairThereIs
<1>9. g \in [E -> BOOLEAN] /\ \A e \in E : g[e] <=> Gap(c, e, xs[e]) \/ Gap(d, e, ys[e])
  BY <1>6
<1>10. PICK odd : odd = {t \in {"explicitPair"} : NullPairs(c, d, op)}
  OBVIOUS
<1>11. odd \in SUBSET Disagreements /\ (odd = {} => ~NullPairs(c, d, op))
  BY <1>10 DEF Disagreements
<1>12. PICK o, present, emitted : o = PairOutcomes(c, d, op) /\ present = PairPresence(c, d, xs, ys)
                                  /\ emitted = PairForm(c, d, op, xs, ys)
  OBVIOUS
<1>13. \A e \in EnvsOf(s) : /\ v[e] = CompareValues(op, Sent(c, xs[e]), Sent(d, ys[e]))
                            /\ w[e] = PairThere(c, d, xs[e], ys[e])
                            /\ g[e] <=> Gap(c, e, xs[e]) \/ Gap(d, e, ys[e])
  BY <1>3, <1>5, <1>7, <1>9
<1>14. Decides(EnvsOf(s), o, odd, v, w, g)
  BY <1>4, <1>11, <1>12, <1>13, PairDecides
<1>15. Verdicts(s, w, g) /\ Verdicts(s, v, g)
  BY <1>3, <1>8, <1>9 DEF Verdicts
<1>16. \A q \in Polarities : FormOK(s, q, present, w, g)
  <2>1. ASSUME NEW q \in Polarities PROVE FormOK(s, q, PairPresence(c, d, xs, ys), w, g)
    BY <1>4, <1>13, PairPresenceOK
  <2> QED BY <1>12, <2>1
<1>17. ASSUME NEW p \in Polarities
       PROVE  FormOK(s, p, emitted, v, g) /\ emitted.const = Undefined
  <2>1. FormOK(s, p, PairForm(c, d, op, xs, ys), v, g) /\ PairForm(c, d, op, xs, ys).const = Undefined
    BY <1>4, <1>13, PairFormOK
  <2> QED BY <1>12, <2>1
<1>18. PICK form : form = [p \in Polarities |-> Settled(p, o, E, present, odd, emitted)]
  OBVIOUS
<1>19. ASSUME NEW p \in Polarities
       PROVE  FormOK(s, p, form[p], v, g) /\ (p = "unfixed" => form[p].const = Undefined)
  <2>1. FormOK(s, p, Settled(p, o, EnvsOf(s), present, odd, emitted), v, g)
    BY <1>11, <1>14, <1>15, <1>16, <1>17, SettledOK
  <2>2. p = "unfixed" => Settled(p, o, EnvsOf(s), present, odd, emitted) = emitted
    BY DEF Settled
  <2> QED BY <1>3, <1>17, <1>18, <2>1, <2>2
<1>20. PICK n : n = PairNode(c, d, op, xs, ys)
  OBVIOUS
<1>21. n.scope = s /\ n.cel = v /\ n.gap = g /\ n.form = form /\ ~n.equality
  BY <1>1, <1>4, <1>5, <1>6, <1>10, <1>12, <1>18, <1>20 DEF PairNode, NullPairs
<1>22. CondOK(n)
  BY <1>2, <1>15, <1>19, <1>21 DEF CondOK, FormsOK
<1>23. n.form["unfixed"].const = Undefined
  BY <1>19, <1>21 DEF Polarities
<1> QED BY <1>20, <1>21, <1>22, <1>23 DEF NodeOK

-----------------------------------------------------------------------------
(* What a plan reads *)

LEMMA ColumnIs ==
  ASSUME NEW m \in Columns
  PROVE  /\ m \in Column
         /\ m \in RootColumns => m.shape # "element" /\ (m.shape = "scalar" => m.hop # "many")
         /\ m \notin RootColumns => m.shape # "list" /\ m.hop = "none"
BY ColumnsAssumption DEF Columns

LEMMA FieldIs ==
  ASSUME NEW m \in Columns, NEW nulls
  PROVE  LET c == Field(m, nulls) IN
         /\ ColumnOK(c)
         /\ c.shape = m.shape /\ c.hop = m.hop /\ c.type = m.type /\ c.required = m.required
<1>1. PICK c : c = Field(m, nulls)
  OBVIOUS
<1>2. /\ c.shape = m.shape /\ c.hop = m.hop /\ c.type = m.type /\ c.required = m.required
      /\ c.known = IF m.declared THEN Family(m.type) ELSE "none"
      /\ c.explicit = (m.nulls = "explicit" \/ m.shape = "element")
      /\ c.omitted = (m.shape # "element" /\ (m.nulls = "omitted" \/ (m.nulls = "undeclared" /\ nulls = "omitted")))
  BY <1>1 DEF Field
<1>3. /\ m.shape \in {"scalar", "list", "element"} /\ m.hop \in {"none", "one", "many"}
      /\ m.type \in {"int", "float", "str", "bool"} /\ m.required \in BOOLEAN
  BY ColumnIs DEF Column
<1>4. c.explicit \in BOOLEAN /\ c.omitted \in BOOLEAN /\ ~(c.explicit /\ c.omitted)
  BY <1>2
<1>5. (c.shape = "element" => c.explicit /\ c.hop = "none") /\ (c.shape # "list" => c.hop # "many")
  BY <1>2, <1>3, ColumnIs
<1>6. c.known \in {"none", Family(c.type)}
  BY <1>2
<1>7. ColumnOK(c)
  BY <1>2, <1>3, <1>4, <1>5, <1>6 DEF ColumnOK
<1> QED BY <1>1, <1>2, <1>7

LEMMA StoredHolds ==
  ASSUME NEW m \in Columns, NEW nulls, NEW x \in Stored(m)
  PROVE  Holds(Field(m, nulls), x)
<1>1. PICK c : c = Field(m, nulls)
  OBVIOUS
<1>2. ColumnOK(c) /\ c.shape = m.shape /\ c.hop = m.hop /\ c.type = m.type /\ c.required = m.required
  BY <1>1, FieldIs
<1>3. \A y : y \in Value /\ OfType(m, y) => Cell(c, y)
  BY <1>2 DEF OfType, Cell, Typed
<1>4. CASE x \in Cells /\ m.shape # "list" /\ OfType(m, x)
  <2>1. x \in Value
    BY <1>4, LiteralsAssumption
  <2> QED BY <1>1, <1>2, <1>3, <1>4, <2>1 DEF Holds
<1>5. CASE x \in DOMAIN Members /\ m.shape = "list" /\ x.t = "list" /\ \A y \in Members[x] : OfType(m, y)
  <2>1. x \in [t : {"list", "map"}, v : Int] /\ \A y \in Members[x] : y \in Value
    BY <1>5, MembersAssumption
  <2>2. x \in Value
    BY <1>5, <2>1 DEF Value, WellFormed, Types
  <2>3. \A y \in Members[x] : Cell(c, y)
    BY <1>3, <1>5, <2>1
  <2>4. ListCell(c, x)
    BY <1>5, <2>2, <2>3 DEF ListCell
  <2> QED BY <1>1, <1>2, <1>5, <2>4 DEF Holds
<1>6. CASE x = Undefined /\ m.hop # "none"
  BY <1>1, <1>2, <1>6 DEF Holds
<1> QED BY <1>4, <1>5, <1>6 DEF Stored

LEMMA LiteralIs ==
  ASSUME NEW k \in Literals
  PROVE  /\ k \in Value
         /\ k \in ScalarLiterals => k.t \in {"null", "num", "str", "bool"}
         /\ k \notin ScalarLiterals => k.t = "list" /\ k \in DOMAIN Members /\ Members[k] # {}
<1>1. k \in Value /\ k.t \in {"null", "num", "str", "bool", "list"} /\ (k.t = "list" => Members[k] # {})
  BY LiteralsAssumption
<1>2. k.t = "list" => k \in DOMAIN Members
  BY <1>1 DEF Value, WellFormed
<1> QED BY <1>1, <1>2 DEF ScalarLiterals

LEMMA LeavesAre ==
  ASSUME NEW m \in Columns, NEW nulls, NEW l \in LeavesOf(m)
  PROVE  LeafOK(Field(m, nulls), l)
<1>1. PICK c : c = Field(m, nulls)
  OBVIOUS
<1>2. c.shape = m.shape
  BY <1>1, FieldIs
<1>3. \A test, ops, lits : l \in Leaf(test, ops, lits) =>
        /\ l \in [test : {test}, op : ops, lit : lits] /\ l.test = test /\ l.op \in ops /\ l.lit \in lits
  BY DEF Leaf
<1>4. PICK lists, numbers : lists = Literals \ ScalarLiterals /\ numbers = {k \in ScalarLiterals : k.t = "num"}
  OBVIOUS
<1>5. \A k \in ScalarLiterals : k \in Value /\ k.t \in {"null", "num", "str", "bool"}
  BY LiteralIs DEF ScalarLiterals
<1>6. \A k \in lists : k \in Value /\ k.t = "list" /\ k \in DOMAIN Members /\ Members[k] # {}
  BY <1>4, LiteralIs
<1>7. numbers \subseteq ScalarLiterals /\ \A k \in numbers : k.t = "num"
  BY <1>4
<1>8. True \in Value /\ True.t = "bool"
  BY DEF True, Value, WellFormed, Types, Scalars
<1>9. {"eq"} \subseteq Comparisons
  BY DEF Comparisons, Equalities
<1>10. CASE m.shape = "list"
  <2>1. \/ l \in Leaf("member", {"eq"}, ScalarLiterals)
        \/ l \in Leaf("intersects", {"eq"}, lists)
        \/ l \in Leaf("size", Comparisons, numbers)
    BY <1>4, <1>10 DEF LeavesOf
  <2>2. CASE l \in Leaf("member", {"eq"}, ScalarLiterals)
    BY <1>1, <1>2, <1>3, <1>5, <1>9, <1>10, <2>2 DEF LeafOK, Tests
  <2>3. CASE l \in Leaf("intersects", {"eq"}, lists)
    BY <1>1, <1>2, <1>3, <1>6, <1>9, <1>10, <2>3 DEF LeafOK, Tests
  <2>4. CASE l \in Leaf("size", Comparisons, numbers)
    BY <1>1, <1>2, <1>3, <1>5, <1>7, <1>10, <2>4 DEF LeafOK, Tests
  <2> QED BY <2>1, <2>2, <2>3, <2>4
<1>11. CASE m.shape # "list"
  <2>1. \/ l \in Leaf("bare", {"eq"}, {x \in {True} : m.type = "bool"})
        \/ l \in Leaf("compare", Comparisons, ScalarLiterals)
        \/ l \in Leaf("in", {"eq"}, lists)
        \/ l \in Leaf("startsWith", {"eq"}, ScalarLiterals)
        \/ l \in Leaf("size", Comparisons, numbers)
    BY <1>4, <1>11 DEF LeavesOf
  <2>2. CASE l \in Leaf("bare", {"eq"}, {x \in {True} : m.type = "bool"})
    <3>1. l \in [test : {"bare"}, op : {"eq"}, lit : {True}]
      BY <1>3, <2>2
    <3> QED BY <1>1, <1>2, <1>8, <1>9, <1>11, <3>1 DEF LeafOK, Tests
  <2>3. CASE l \in Leaf("compare", Comparisons, ScalarLiterals)
    BY <1>1, <1>2, <1>3, <1>5, <1>11, <2>3 DEF LeafOK, Tests
  <2>4. CASE l \in Leaf("in", {"eq"}, lists)
    BY <1>1, <1>2, <1>3, <1>6, <1>9, <1>11, <2>4 DEF LeafOK, Tests
  <2>5. CASE l \in Leaf("startsWith", {"eq"}, ScalarLiterals)
    BY <1>1, <1>2, <1>3, <1>5, <1>9, <1>11, <2>5 DEF LeafOK, Tests
  <2>6. CASE l \in Leaf("size", Comparisons, numbers)
    BY <1>1, <1>2, <1>3, <1>5, <1>7, <1>11, <2>6 DEF LeafOK, Tests
  <2> QED BY <2>1, <2>2, <2>3, <2>4, <2>5, <2>6
<1> QED BY <1>10, <1>11

LEMMA EnvsAre ==
  ASSUME NEW m \in Columns, NEW c, NEW xs, DOMAIN xs = Envs(m)
  PROVE  /\ DOMAIN xs = EnvsOf(Scope(c, xs))
         /\ Scope(c, xs) = "root" <=> m \in RootColumns
<1>1. Root \notin Rows
  BY DEF Root, Rows
<1> QED BY <1>1 DEF Envs, EnvsOf, Scope

LEMMA FieldColumn ==
  ASSUME NEW m \in Columns, NEW nulls, NEW xs \in [Envs(m) -> Stored(m)]
  PROVE  LET c == Field(m, nulls) IN Column1(Scope(c, xs), c, xs)
<1>1. PICK c : c = Field(m, nulls)
  OBVIOUS
<1>2. PICK s : s = Scope(c, xs)
  OBVIOUS
<1>3. ColumnOK(c) /\ c.shape = m.shape /\ c.hop = m.hop
  BY <1>1, FieldIs
<1>4. DOMAIN xs = EnvsOf(s) /\ (s = "root" <=> m \in RootColumns)
  BY <1>2, EnvsAre
<1>5. s # "root" => c.hop = "none" /\ c.shape # "list"
  BY <1>3, <1>4, ColumnIs
<1>6. \A e \in EnvsOf(s) : Holds(c, xs[e])
  BY <1>1, <1>4, StoredHolds
<1> QED BY <1>1, <1>2, <1>3, <1>4, <1>5, <1>6 DEF Column1

LEMMA LeafNodesOK ==
  ASSUME NEW nulls, NEW n \in LeafNodes(nulls)
  PROVE  NodeOK(n)
<1>1. PICK m \in Columns : \E l \in LeavesOf(m), xs \in [Envs(m) -> Stored(m)] : n = LeafNode(Field(m, nulls), l, xs)
  BY DEF LeafNodes
<1>2. PICK l \in LeavesOf(m), xs \in [Envs(m) -> Stored(m)] : n = LeafNode(Field(m, nulls), l, xs)
  BY <1>1
<1>3. Column1(Scope(Field(m, nulls), xs), Field(m, nulls), xs) /\ LeafOK(Field(m, nulls), l)
  BY FieldColumn, LeavesAre
<1> QED BY <1>2, <1>3, LeafNodeOK

LEMMA PairNodesOK ==
  ASSUME NEW nulls, NEW n \in PairNodes(nulls)
  PROVE  NodeOK(n)
<1>1. PICK m \in Columns, k \in Columns : Comparable(m, k) /\ n \in NodesOfPair(m, k, nulls)
  BY DEF PairNodes
<1>2. PICK op \in Comparisons, xs \in [Envs(m) -> Stored(m)], ys \in [Envs(k) -> Stored(k)] :
        n = PairNode(Field(m, nulls), Field(k, nulls), op, xs, ys)
  BY <1>1 DEF NodesOfPair
<1>3. PICK c, d : c = Field(m, nulls) /\ d = Field(k, nulls)
  OBVIOUS
<1>4. PICK s : s = Scope(c, xs)
  OBVIOUS
<1>5. Near2(c) /\ Near2(d)
  BY <1>1, <1>3, FieldIs DEF Comparable, Near2
<1>6. DOMAIN xs = EnvsOf(s) /\ DOMAIN ys = EnvsOf(s)
  BY <1>1, <1>4, EnvsAre DEF Comparable
<1>7. \A x \in Stored(m) : Cell(c, x)
  BY <1>3, <1>5, StoredHolds DEF Holds, Near2
<1>8. \A y \in Stored(k) : Cell(d, y)
  BY <1>3, <1>5, StoredHolds DEF Holds, Near2
<1>9. Pair1(s, c, d, xs, ys)
  BY <1>5, <1>6, <1>7, <1>8 DEF Pair1
<1> QED BY <1>2, <1>3, <1>4, <1>9, PairNodeOK

LEMMA BranchesOK ==
  ASSUME NEW nulls, NEW pair \in BranchPairs(nulls)
  PROVE  BranchOK(pair[1]) /\ BranchOK(pair[2])
<1>1. PICK l \in BranchTests : pair \in BranchesOf(l, nulls) \X BranchesOf(l, nulls)
  BY DEF BranchPairs
<1>2. l.test \in {"in", "compare"}
  BY DEF BranchTests, Leaf
<1>3. ASSUME NEW b \in BranchesOf(l, nulls) PROVE BranchOK(b)
  <2>1. PICK m \in RootColumns :
          Unsettled(m, l, nulls) /\ \E xs \in [{Root} -> Stored(m)] : b = Branch(Field(m, nulls), l, xs)
    BY DEF BranchesOf
  <2>2. PICK xs \in [{Root} -> Stored(m)] : b = Branch(Field(m, nulls), l, xs)
    BY <2>1
  <2>3. m \in Columns /\ Envs(m) = {Root}
    BY DEF Columns, Envs
  <2>4. Column1(Scope(Field(m, nulls), xs), Field(m, nulls), xs)
    BY <2>3, FieldColumn
  <2>5. Scope(Field(m, nulls), xs) = "root"
    BY DEF Scope
  <2>6. LeafOK(Field(m, nulls), l)
    BY <2>3, <2>1, LeavesAre DEF Unsettled
  <2> QED BY <1>2, <2>2, <2>4, <2>5, <2>6, BranchIsOK
<1> QED BY <1>1, <1>3

-----------------------------------------------------------------------------
(* The operands read so far *)

LEMMA ReadsLeaf ==
  ASSUME NEW o \in Options, NEW n \in AllLeafNodes[o]
  PROVE  NodeOK(n)
<1>1. n \in LeafNodes(o) \union PairNodes(o)
  BY DEF AllLeafNodes
<1> QED BY <1>1, LeafNodesOK, PairNodesOK

LEMMA ReadsBranches ==
  ASSUME NEW o \in Options, NEW pair \in AllBranchPairs[o]
  PROVE  BranchOK(pair[1]) /\ BranchOK(pair[2])
<1>1. pair \in BranchPairs(o)
  BY DEF AllBranchPairs
<1> QED BY <1>1, BranchesOK

\* A sequence of nodes, each of which is right about its condition.
NodesOK(s) ==
  /\ s \in Seq({s[i] : i \in DOMAIN s})
  /\ \A i \in DOMAIN s : NodeOK(s[i])

LEMMA OwnMembers ==
  ASSUME NEW S, NEW s \in Seq(S)
  PROVE  s \in Seq({s[i] : i \in DOMAIN s})
<1>1. PICK T : T = {s[i] : i \in DOMAIN s}
  OBVIOUS
<1>2. Len(s) \in Nat /\ s \in [1 .. Len(s) -> S] /\ DOMAIN s = 1 .. Len(s)
  OBVIOUS
<1>3. \A i \in 1 .. Len(s) : s[i] \in T
  BY <1>1, <1>2
<1>4. s \in [1 .. Len(s) -> T]
  BY <1>2, <1>3
<1>5. s \in Seq(T)
  BY <1>2, <1>4
<1> QED BY <1>1, <1>5

LEMMA NoNodes == NodesOK(<<>>)
BY DEF NodesOK

\* A node that replaces what it consumed.
LEMMA Pushed ==
  ASSUME NEW s, NodesOK(s), NEW k \in 0 .. Len(s), NEW n, NodeOK(n)
  PROVE  NodesOK(Append(SubSeq(s, 1, k), n))
<1>1. PICK S : S = {s[i] : i \in DOMAIN s}
  OBVIOUS
<1>2. s \in Seq(S) /\ \A i \in 1 .. Len(s) : NodeOK(s[i])
  BY <1>1 DEF NodesOK
<1>3. PICK T : T = S \union {n}
  OBVIOUS
<1>4. k \in Nat /\ k <= Len(s) /\ Len(s) \in Nat
  BY <1>2
<1>5. \A i \in 1 .. k : s[i] \in T
  BY <1>2, <1>3, <1>4
<1>6. PICK t : t = SubSeq(s, 1, k)
  OBVIOUS
<1>7. t \in Seq(T) /\ Len(t) = k /\ \A i \in 1 .. k : t[i] = s[i]
  <2>1. 1 \in Int /\ k \in Int
    BY <1>4
  <2>2. /\ SubSeq(s, 1, k) \in Seq(T)
        /\ Len(SubSeq(s, 1, k)) = IF 1 <= k THEN k - 1 + 1 ELSE 0
        /\ \A i \in 1 .. k - 1 + 1 : SubSeq(s, 1, k)[i] = s[1 + i - 1]
    BY <1>5, <2>1, SubSeqProperties
  <2> QED BY <1>4, <1>6, <2>2
<1>8. PICK u : u = Append(t, n)
  OBVIOUS
<1>9. u \in Seq(T) /\ Len(u) = k + 1 /\ (\A i \in 1 .. k : u[i] = t[i]) /\ u[k + 1] = n
  BY <1>3, <1>7, <1>8, AppendProperties
<1>10. \A i \in 1 .. k : NodeOK(u[i])
  BY <1>2, <1>4, <1>7, <1>9
<1>11. \A i \in DOMAIN u : i \in 1 .. k \/ i = k + 1
  BY <1>4, <1>9
<1>12. \A i \in DOMAIN u : NodeOK(u[i])
  BY <1>9, <1>10, <1>11
<1>13. u \in Seq({u[i] : i \in DOMAIN u})
  BY <1>9, OwnMembers
<1> QED BY <1>6, <1>8, <1>12, <1>13 DEF NodesOK

\* What an operator consumes are nodes of one scope.
LEMMA OperandsOK ==
  ASSUME NodesOK(stack), NEW k \in 1 .. 3, Operands(k), NEW i \in 1 .. k
  PROVE  NodeOK(Top(k)[i]) /\ Top(k)[i].scope = Top(k)[1].scope
<1>1. PICK S : S = {stack[j] : j \in DOMAIN stack}
  OBVIOUS
<1>2. stack \in Seq(S) /\ \A j \in 1 .. Len(stack) : NodeOK(stack[j])
  BY <1>1 DEF NodesOK
<1>3. PICK m, l : l = Len(stack) /\ m = l - k + 1
  OBVIOUS
<1>4. l \in Nat /\ k <= l /\ m \in 1 .. l /\ m + i - 1 \in 1 .. l /\ m <= l /\ k \in Nat /\ i \in Nat /\ 1 <= i
  BY <1>2, <1>3 DEF Operands
<1>5. \A j \in m .. l : stack[j] \in S
  BY <1>2, <1>3, <1>4
<1>6. m \in Int /\ l \in Int /\ i \in 1 .. l - m + 1
  BY <1>3, <1>4
<1>7. SubSeq(stack, m, l)[i] = stack[m + i - 1]
  BY <1>5, <1>6, SubSeqProperties
<1>8. Top(k)[i] = stack[m + i - 1]
  BY <1>3, <1>7 DEF Top
<1>9. Top(k)[i].scope = Top(k)[1].scope
  BY DEF Operands
<1> QED BY <1>2, <1>3, <1>4, <1>8, <1>9

-----------------------------------------------------------------------------
(* The inductive invariant *)

\* While the plan is read nothing is matched; what is matched afterwards is proven, where no
\* disagreement is admitted; and what is returned was matched.
AnswerOK ==
  /\ phase = "reading" => ~matched /\ ~returned
  /\ Admitted = {} /\ matched => root = True
  /\ returned => matched

IInv ==
  /\ option \in Options
  /\ NodesOK(stack)
  /\ leaves \in 0 .. MaxLeaves
  /\ nodes \in 0 .. MaxNodes
  /\ phase \in {"reading", "refused", "translated", "answered"}
  /\ root \in {True, False, Err, Null}
  /\ matched \in BOOLEAN
  /\ returned \in BOOLEAN
  /\ AnswerOK

LEMMA InitIInv == Init => IInv
<1> SUFFICES ASSUME Init PROVE IInv
  OBVIOUS
<1>1. NodesOK(stack)
  BY NoNodes DEF Init
<1>2. 0 \in 0 .. MaxLeaves /\ 0 \in 0 .. MaxNodes
  BY BoundsAssumption
<1>3. AnswerOK
  BY DEF Init, AnswerOK
<1> QED BY <1>1, <1>2, <1>3 DEF Init, IInv

\* Every read consumes some operands and pushes one node.
LEMMA PushIInv ==
  ASSUME IInv, NEW read \in {0, 1}, NEW k \in 0 .. Len(stack), NEW n, NodeOK(n),
         Push(read, SubSeq(stack, 1, k), n)
  PROVE  IInv'
<1>1. NodesOK(stack)
  BY DEF IInv
<1>2. NodesOK(Append(SubSeq(stack, 1, k), n))
  BY <1>1, Pushed
<1>3. NodesOK(stack')
  BY <1>2 DEF Push
<1>4. /\ leaves \in 0 .. MaxLeaves /\ nodes \in 0 .. MaxNodes
      /\ nodes < MaxNodes /\ leaves + read <= MaxLeaves /\ nodes' = nodes + 1 /\ leaves' = leaves + read
  BY DEF IInv, Push
<1>5. leaves' \in 0 .. MaxLeaves /\ nodes' \in 0 .. MaxNodes
  BY <1>4, BoundsAssumption
<1>6. option' = option /\ phase' = phase /\ root' = root /\ matched' = matched /\ returned' = returned
  BY DEF Push
<1>7. AnswerOK'
  BY <1>6 DEF IInv, AnswerOK
<1> QED BY <1>3, <1>5, <1>6, <1>7 DEF IInv

LEMMA PushUnder ==
  ASSUME IInv, NEW k \in 1 .. 3, Operands(k), NEW read \in {0, 1}, NEW n, NodeOK(n), Push(read, Under(k), n)
  PROVE  IInv'
<1>1. Len(stack) \in Nat
  BY DEF IInv, NodesOK
<1>2. Len(stack) - k \in 0 .. Len(stack)
  BY <1>1 DEF Operands
<1>3. Push(read, SubSeq(stack, 1, Len(stack) - k), n)
  BY DEF Under
<1> QED BY <1>2, <1>3, PushIInv

LEMMA ReadLeafIInv == IInv /\ ReadLeaf => IInv'
<1> SUFFICES ASSUME IInv, ReadLeaf PROVE IInv'
  OBVIOUS
<1>1. PICK n \in AllLeafNodes[option] : Push(1, stack, n)
  BY DEF ReadLeaf
<1>2. NodeOK(n)
  BY ReadsLeaf DEF IInv
<1>3. PICK S : S = {stack[i] : i \in DOMAIN stack}
  OBVIOUS
<1>4. stack \in Seq(S)
  BY <1>3 DEF IInv, NodesOK
<1>5. SubSeq(stack, 1, Len(stack)) = stack /\ Len(stack) \in 0 .. Len(stack)
  BY <1>4, SubSeqFull
<1>6. Push(1, SubSeq(stack, 1, Len(stack)), n)
  BY <1>1, <1>5
<1> QED BY <1>2, <1>5, <1>6, PushIInv

LEMMA ReadNotIInv == IInv /\ ReadNot => IInv'
<1> SUFFICES ASSUME IInv, ReadNot PROVE IInv'
  OBVIOUS
<1>1. Operands(1) /\ Push(0, Under(1), NotNode(Top(1)[1]))
  BY DEF ReadNot
<1>2. NodesOK(stack)
  BY DEF IInv
<1>3. NodeOK(Top(1)[1])
  BY <1>1, <1>2, OperandsOK
<1>4. NodeOK(NotNode(Top(1)[1]))
  BY <1>3, NotNodeOK
<1> QED BY <1>1, <1>4, PushUnder

LEMMA ReadJunctionIInv == IInv /\ ReadJunction => IInv'
<1> SUFFICES ASSUME IInv, ReadJunction PROVE IInv'
  OBVIOUS
<1>1. PICK op \in Junctions : Operands(2) /\ Push(0, Under(2), JunctionNode(op, Top(2)[1], Top(2)[2]))
  BY DEF ReadJunction
<1>2. NodesOK(stack)
  BY DEF IInv
<1>3. PICK n, m : n = Top(2)[1] /\ m = Top(2)[2]
  OBVIOUS
<1>4. NodeOK(n)
  BY <1>1, <1>2, <1>3, OperandsOK
<1>5. NodeOK(m) /\ n.scope = m.scope
  BY <1>1, <1>2, <1>3, OperandsOK
<1>6. NodeOK(JunctionNode(op, n, m))
  BY <1>4, <1>5, JunctionNodeOK
<1> QED BY <1>1, <1>3, <1>6, PushUnder

\* A constant branch is of the scope of its condition.
LEMMA ReadTernaryIInv == IInv /\ ReadTernary => IInv'
<1> SUFFICES ASSUME IInv, ReadTernary PROVE IInv'
  OBVIOUS
<1>1. PICK k \in 1 .. 3 :
        /\ Operands(k)
        /\ \E then, else \in {Top(k)[i] : i \in 2 .. k} \union {ConstantNode(Top(k)[1].scope, b) : b \in BOOLEAN} :
             Push(0, Under(k), TernaryNode(Top(k)[1], then, else))
  BY DEF ReadTernary
<1>2. PICK c : c = Top(k)[1]
  OBVIOUS
<1>3. PICK then, else \in {Top(k)[i] : i \in 2 .. k} \union {ConstantNode(c.scope, b) : b \in BOOLEAN} :
        Push(0, Under(k), TernaryNode(c, then, else))
  BY <1>1, <1>2
<1>4. NodesOK(stack)
  BY DEF IInv
<1>5. NodeOK(c) /\ c.scope \in {"root", "row", "element"}
  BY <1>1, <1>2, <1>4, OperandsOK DEF NodeOK, CondOK
<1>6. ASSUME NEW a \in {Top(k)[i] : i \in 2 .. k} \union {ConstantNode(c.scope, b) : b \in BOOLEAN}
      PROVE  CondOK(a) /\ a.scope = c.scope
  <2>1. CASE a \in {Top(k)[i] : i \in 2 .. k}
    <3>1. PICK i \in 1 .. k : a = Top(k)[i]
      BY <2>1
    <3>2. NodeOK(Top(k)[i]) /\ Top(k)[i].scope = Top(k)[1].scope
      BY <1>1, <1>4, OperandsOK
    <3> QED BY <1>2, <3>1, <3>2 DEF NodeOK
  <2>2. CASE a \in {ConstantNode(c.scope, b) : b \in BOOLEAN}
    BY <1>5, <2>2, ConstantNodeOK
  <2> QED BY <2>1, <2>2
<1>7. CondOK(then) /\ then.scope = c.scope /\ CondOK(else) /\ else.scope = c.scope
  BY <1>6
<1>8. NodeOK(TernaryNode(c, then, else))
  BY <1>5, <1>7, TernaryNodeOK
<1> QED BY <1>1, <1>3, <1>8, PushUnder

LEMMA ReadComparedTernaryIInv == IInv /\ ReadComparedTernary => IInv'
<1> SUFFICES ASSUME IInv, ReadComparedTernary PROVE IInv'
  OBVIOUS
<1>1. PICK pair \in AllBranchPairs[option] : Push(1, Under(1), ComparedTernaryNode(Top(1)[1], pair[1], pair[2]))
  BY DEF ReadComparedTernary
<1>2. Operands(1) /\ Top(1)[1].scope = "root"
  BY DEF ReadComparedTernary
<1>3. NodesOK(stack) /\ option \in Options
  BY DEF IInv
<1>4. NodeOK(Top(1)[1])
  BY <1>2, <1>3, OperandsOK
<1>5. BranchOK(pair[1]) /\ BranchOK(pair[2])
  BY <1>3, ReadsBranches
<1>6. NodeOK(ComparedTernaryNode(Top(1)[1], pair[1], pair[2]))
  BY <1>2, <1>4, <1>5, ComparedTernaryNodeOK
<1> QED BY <1>1, <1>2, <1>6, PushUnder

LEMMA ReadQuantifierIInv == IInv /\ ReadQuantifier => IInv'
<1> SUFFICES ASSUME IInv, ReadQuantifier PROVE IInv'
  OBVIOUS
<1>1. PICK op \in {"exists", "all"}, coll \in Collection :
        Operands(1) /\ Top(1)[1].scope # "root" /\ Push(0, Under(1), QuantifierNode(op, coll, Top(1)[1]))
  BY DEF ReadQuantifier
<1>2. NodesOK(stack)
  BY DEF IInv
<1>3. NodeOK(Top(1)[1])
  BY <1>1, <1>2, OperandsOK
<1>4. NodeOK(QuantifierNode(op, coll, Top(1)[1]))
  BY <1>1, <1>3, QuantifierNodeOK
<1> QED BY <1>1, <1>4, PushUnder

LEMMA ReadDerivedListIInv == IInv /\ ReadDerivedList => IInv'
<1> SUFFICES ASSUME IInv, ReadDerivedList PROVE IInv'
  OBVIOUS
<1>1. NodesOK(stack)
  BY DEF IInv
<1>2. PICK coll \in Collection :
        \/ Operands(1) /\ Top(1)[1].scope # "root" /\ Push(0, Under(1), MappedNode(coll, Top(1)[1]))
        \/ /\ Operands(2) /\ Top(2)[1].scope = "element" /\ Top(2)[1].equality
           /\ Push(0, Under(2), InFilterNode(coll, Top(2)[1], Top(2)[2]))
  BY DEF ReadDerivedList
<1>3. CASE Operands(1) /\ Top(1)[1].scope # "root" /\ Push(0, Under(1), MappedNode(coll, Top(1)[1]))
  <2>1. NodeOK(Top(1)[1])
    BY <1>1, <1>3, OperandsOK
  <2>2. NodeOK(MappedNode(coll, Top(1)[1]))
    BY <1>3, <2>1, MappedNodeOK
  <2> QED BY <1>3, <2>2, PushUnder
<1>4. CASE /\ Operands(2) /\ Top(2)[1].scope = "element" /\ Top(2)[1].equality
           /\ Push(0, Under(2), InFilterNode(coll, Top(2)[1], Top(2)[2]))
  <2>1. PICK n, m : n = Top(2)[1] /\ m = Top(2)[2]
    OBVIOUS
  <2>2. NodeOK(n)
    BY <1>1, <1>4, <2>1, OperandsOK
  <2>3. NodeOK(m) /\ m.scope = n.scope
    BY <1>1, <1>4, <2>1, OperandsOK
  <2>4. NodeOK(InFilterNode(coll, n, m))
    BY <1>4, <2>1, <2>2, <2>3, InFilterNodeOK
  <2> QED BY <1>4, <2>1, <2>4, PushUnder
<1> QED BY <1>2, <1>3, <1>4

\* What the adapter answers is the filter of the plan's one node, or the constant it folds to.
LEMMA TranslateIInv == IInv /\ Translate => IInv'
<1> SUFFICES ASSUME IInv, Translate PROVE IInv'
  OBVIOUS
<1>1. PICK n : n = stack[1]
  OBVIOUS
<1>2. PICK f : f = n.form["positive"]
  OBVIOUS
<1>3. /\ phase = "reading" /\ Len(stack) = 1 /\ n.scope = "root" /\ f.yes.odd \subseteq Admitted
      /\ root' = n.cel[Root] /\ stack' = <<>>
      /\ option' = option /\ leaves' = leaves /\ nodes' = nodes /\ returned' = returned
  BY <1>1, <1>2 DEF Translate
<1>4. \/ f.const = Undefined /\ f.yes.refused /\ phase' = "refused" /\ matched' = matched
      \/ /\ ~(f.const = Undefined /\ f.yes.refused)
         /\ phase' = "translated" /\ matched' = (f.yes.is[Root] = True)
  BY <1>1, <1>2 DEF Translate
<1>5. NodeOK(n)
  BY <1>1, <1>3 DEF IInv, NodesOK
<1>6. CondOK(n) /\ Root \in EnvsOf("root")
  BY <1>5 DEF NodeOK, EnvsOf
<1>7. n.cel[Root] \in Tri /\ FormOK("root", "positive", f, n.cel, n.gap)
  BY <1>2, <1>3, <1>6, CondIs DEF Polarities
<1>8. ~matched /\ ~returned
  BY <1>3 DEF IInv, AnswerOK
<1>9. ASSUME Admitted = {}, matched' PROVE root' = True
  <2>1. f.yes.is[Root] = True /\ ~(f.const = Undefined /\ f.yes.refused)
    BY <1>4, <1>8, <1>9
  <2>2. ~f.yes.refused
    BY <1>6, <1>7, <2>1 DEF FormOK, ConstantOK
  <2>3. Tr(f.yes)
    BY <1>3, <1>9, <2>2 DEF Tr
  <2>4. TrueSide(f, n.cel, n.gap, Root)
    BY <1>6, <1>7 DEF FormOK
  <2> QED BY <1>3, <2>1, <2>3, <2>4 DEF TrueSide
<1>10. matched' \in BOOLEAN /\ phase' \in {"refused", "translated"}
  <2>1. matched \in BOOLEAN
    BY DEF IInv
  <2>2. matched' \in BOOLEAN
    BY <1>4, <2>1, Zenon
  <2>3. phase' \in {"refused", "translated"}
    BY <1>4
  <2> QED BY <2>2, <2>3
<1>11. NodesOK(stack')
  BY <1>3, NoNodes
<1>12. AnswerOK'
  BY <1>3, <1>8, <1>9, <1>10 DEF AnswerOK
<1> QED BY <1>3, <1>7, <1>8, <1>10, <1>11, <1>12 DEF IInv, Tri

LEMMA TranslateUnconditionalIInv == IInv /\ TranslateUnconditional => IInv'
<1> SUFFICES ASSUME IInv, TranslateUnconditional PROVE IInv'
  OBVIOUS
<1>1. PICK allowed \in BOOLEAN : root' = Bool(allowed) /\ matched' = allowed
  BY DEF TranslateUnconditional
<1>2. /\ phase = "reading" /\ phase' = "translated"
      /\ option' = option /\ stack' = stack /\ leaves' = leaves /\ nodes' = nodes /\ returned' = returned
  BY DEF TranslateUnconditional
<1>3. root' \in {True, False} /\ matched' \in BOOLEAN /\ (matched' => root' = True)
  BY <1>1, Constants DEF Bool
<1>4. AnswerOK'
  BY <1>2, <1>3 DEF IInv, AnswerOK
<1>5. NodesOK(stack')
  BY <1>2 DEF IInv
<1> QED BY <1>2, <1>3, <1>4, <1>5 DEF IInv

LEMMA RunQueryIInv == IInv /\ RunQuery => IInv'
<1> SUFFICES ASSUME IInv, RunQuery PROVE IInv'
  OBVIOUS
<1>1. /\ phase = "translated" /\ phase' = "answered" /\ returned' = matched
      /\ option' = option /\ stack' = stack /\ leaves' = leaves /\ nodes' = nodes
      /\ root' = root /\ matched' = matched
  BY DEF RunQuery
<1>2. NodesOK(stack') /\ returned' \in BOOLEAN
  BY <1>1 DEF IInv
<1>3. AnswerOK'
  BY <1>1 DEF IInv, AnswerOK
<1> QED BY <1>1, <1>2, <1>3 DEF IInv

LEMMA StepIInv == IInv /\ [Next]_vars => IInv'
<1> SUFFICES ASSUME IInv, [Next]_vars PROVE IInv'
  OBVIOUS
<1>1. CASE ReadLeaf
  BY <1>1, ReadLeafIInv
<1>2. CASE ReadNot
  BY <1>2, ReadNotIInv
<1>3. CASE ReadJunction
  BY <1>3, ReadJunctionIInv
<1>4. CASE ReadTernary
  BY <1>4, ReadTernaryIInv
<1>5. CASE ReadComparedTernary
  BY <1>5, ReadComparedTernaryIInv
<1>6. CASE ReadQuantifier
  BY <1>6, ReadQuantifierIInv
<1>7. CASE ReadDerivedList
  BY <1>7, ReadDerivedListIInv
<1>8. CASE Translate
  BY <1>8, TranslateIInv
<1>9. CASE TranslateUnconditional
  BY <1>9, TranslateUnconditionalIInv
<1>10. CASE RunQuery
  BY <1>10, RunQueryIInv
<1>11. CASE UNCHANGED vars
  <2>1. /\ option' = option /\ stack' = stack /\ leaves' = leaves /\ nodes' = nodes
        /\ phase' = phase /\ root' = root /\ matched' = matched /\ returned' = returned
    BY <1>11 DEF vars
  <2>2. NodesOK(stack')
    BY <2>1 DEF IInv
  <2>3. AnswerOK'
    BY <2>1 DEF IInv, AnswerOK
  <2> QED BY <2>1, <2>2, <2>3 DEF IInv
<1> QED BY <1>1, <1>2, <1>3, <1>4, <1>5, <1>6, <1>7, <1>8, <1>9, <1>10, <1>11 DEF Next

LEMMA Inductive == Spec => []IInv
BY InitIInv, StepIInv, PTL DEF Spec

-----------------------------------------------------------------------------
(* The results *)

LEMMA TypedNode ==
  ASSUME NEW n, NodeOK(n)
  PROVE  /\ \A e \in DOMAIN n.cel : n.cel[e] \in {True, False, Err}
         /\ \A p \in Polarities : LET f == n.form[p] IN
              /\ f.const \in {True, False, Undefined}
              /\ \A filter \in {f.yes, f.no} :
                   filter.refused \/ filter.is \in [DOMAIN n.cel -> {True, False, Unknown}]
<1>1. PICK E : E = EnvsOf(n.scope)
  OBVIOUS
<1>2. n.cel \in [E -> Tri] /\ DOMAIN n.cel = E /\ \A p \in Polarities : FormOK(n.scope, p, n.form[p], n.cel, n.gap)
  BY <1>1, CondIs DEF NodeOK
<1>3. \A e \in DOMAIN n.cel : n.cel[e] \in {True, False, Err}
  BY <1>2 DEF Tri
<1>4. ASSUME NEW p \in Polarities, NEW f, f = n.form[p]
      PROVE  /\ f.const \in {True, False, Undefined}
             /\ \A filter \in {f.yes, f.no} :
                  filter.refused \/ filter.is \in [DOMAIN n.cel -> {True, False, Unknown}]
  <2>1. f \in FormOn(E)
    BY <1>1, <1>2, <1>4 DEF FormOK
  <2>2. f.const \in {True, False, Undefined} /\ f.yes \in FilterOn(E) /\ f.no \in FilterOn(E)
    BY <2>1, FormIs
  <2>3. ASSUME NEW filter \in {f.yes, f.no}
        PROVE  filter.refused \/ filter.is \in [DOMAIN n.cel -> {True, False, Unknown}]
    <3>1. filter \in FilterOn(E)
      BY <2>2
    <3>2. filter.refused \/ filter.is \in [E -> Tri]
      BY <3>1, FilterIs
    <3>3. Tri = {True, False, Unknown}
      BY Constants DEF Tri
    <3> QED BY <1>2, <3>2, <3>3
  <2> QED BY <2>2, <2>3
<1> QED BY <1>3, <1>4

\* The call is typed whatever the mapper, the rows and the plan: every node has a form for every
\* polarity it may be settled under, and a filter that was built says something of every environment.
THEOREM TypeCorrect == Spec => []TypeOK
<1>1. IInv => TypeOK
  <2> SUFFICES ASSUME IInv PROVE TypeOK
    OBVIOUS
  <2>1. \A i \in DOMAIN stack : NodeOK(stack[i])
    BY DEF IInv, NodesOK
  <2>2. \A i \in DOMAIN stack : LET n == stack[i] IN
          /\ \A e \in DOMAIN n.cel : n.cel[e] \in {True, False, Err}
          /\ \A p \in Polarities : LET f == n.form[p] IN
               /\ f.const \in {True, False, Undefined}
               /\ \A filter \in {f.yes, f.no} :
                    filter.refused \/ filter.is \in [DOMAIN n.cel -> {True, False, Unknown}]
    BY <2>1, TypedNode
  <2> QED BY <2>2 DEF IInv, TypeOK
<1> QED BY <1>1, Inductive, PTL

\* Both sides of a node's forms, where nothing left out is read.
LEMMA SidesOf ==
  ASSUME Admitted = {}, NEW n, NodeOK(n), NEW e \in DOMAIN n.cel
  PROVE  /\ n.cel[e] \in Tri
         /\ \A p \in {"positive", "unfixed"} : TrueSide(n.form[p], n.cel, n.gap, e)
         /\ \A p \in {"negative", "unfixed"} : FalseSide(n.form[p], n.cel, n.gap, e)
         /\ \A filter : Trusted(filter) => Tr(filter)
<1>1. /\ n.cel \in [EnvsOf(n.scope) -> Tri] /\ e \in EnvsOf(n.scope)
      /\ \A p \in Polarities : FormOK(n.scope, p, n.form[p], n.cel, n.gap)
  BY CondIs DEF NodeOK
<1>2. \A p \in {"positive", "unfixed"} : p \in Polarities /\ p # "negative"
  BY DEF Polarities
<1>3. \A p \in {"negative", "unfixed"} : p \in Polarities /\ p # "positive"
  BY DEF Polarities
<1>4. \A filter : Trusted(filter) => Tr(filter)
  BY DEF Trusted, Tr
<1> QED BY <1>1, <1>2, <1>3, <1>4 DEF FormOK

\* translate.ts, comparison.ts and relations.ts: where none of the listed disagreements is
\* read, no filter built of any plan, and no row it returns, goes beyond what CEL allows, and no
\* negated one beyond what CEL denies.
THEOREM EveryMatchIsProven ==
  ASSUME Admitted = {}
  PROVE  Spec => []MatchesProven
<1>1. IInv => MatchesProven
  <2> SUFFICES ASSUME IInv PROVE MatchesProven
    OBVIOUS
  <2>1. returned => root = True
    BY DEF IInv, AnswerOK
  <2>2. ASSUME NEW i \in DOMAIN stack, NEW n, n = stack[i], NEW e \in DOMAIN n.cel
        PROVE  /\ \A p \in {"positive", "unfixed"} : LET yes == n.form[p].yes IN
                    Trusted(yes) /\ yes.is[e] = True => n.cel[e] = True
               /\ \A p \in {"negative", "unfixed"} : LET no == n.form[p].no IN
                    Trusted(no) /\ no.is[e] = True => n.cel[e] = False
    <3>1. NodeOK(n)
      BY <2>2 DEF IInv, NodesOK
    <3>2. /\ \A p \in {"positive", "unfixed"} : TrueSide(n.form[p], n.cel, n.gap, e)
          /\ \A p \in {"negative", "unfixed"} : FalseSide(n.form[p], n.cel, n.gap, e)
          /\ \A filter : Trusted(filter) => Tr(filter)
      BY <3>1, SidesOf
    <3> QED BY <3>2 DEF TrueSide, FalseSide
  <2> QED BY <2>1, <2>2 DEF MatchesProven
<1> QED BY <1>1, Inductive, PTL

\* The guards of comparison.ts and of relations.ts lose no more rows than they must: where none
\* of the listed disagreements is read, what CEL allows is found in every environment where no
\* parent is absent and no null is undeclared or of a related row.
THEOREM OnlyMissingIsLost ==
  ASSUME Admitted = {}
  PROVE  Spec => []LostOnlyMissing
<1>1. IInv => LostOnlyMissing
  <2> SUFFICES ASSUME IInv PROVE LostOnlyMissing
    OBVIOUS
  <2>1. ASSUME NEW i \in DOMAIN stack, NEW n, n = stack[i], NEW e \in DOMAIN n.cel
        PROVE  /\ LET yes == n.form["positive"].yes IN
                    Trusted(yes) /\ n.cel[e] = True => yes.is[e] = True \/ n.gap[e]
               /\ LET no == n.form["negative"].no IN
                    Trusted(no) /\ n.cel[e] = False => no.is[e] = True \/ n.gap[e]
    <3>1. NodeOK(n)
      BY <2>1 DEF IInv, NodesOK
    <3>2. /\ \A p \in {"positive", "unfixed"} : TrueSide(n.form[p], n.cel, n.gap, e)
          /\ \A p \in {"negative", "unfixed"} : FalseSide(n.form[p], n.cel, n.gap, e)
          /\ \A filter : Trusted(filter) => Tr(filter)
      BY <3>1, SidesOf
    <3> QED BY <3>2 DEF TrueSide, FalseSide
  <2> QED BY <2>1 DEF LostOnlyMissing
<1> QED BY <1>1, Inductive, PTL
==============================================================================

---------------------------- MODULE MCInvocation ----------------------------
(* Procedures whose types cover every kind, alone and nested. *)
EXTENDS Invocation

A  == Letter
Ns == {0, 1, 12}
Ints == {<<>>, <<1>>, <<12, 0>>}
Strings == {<<>>, <<A>>, <<1, Blank>>, <<Blank, A, 1>>, <<A, Nul, A>>}

Two(t, u)      == PairOf(t, PairOf(u, UnitType))
Three(t, u, w) == PairOf(t, Two(u, w))
Nothing        == {<<>>}

Table == <<
  \* name            arguments                    values
  [name |-> <<A>>,
   args |-> Three(IntType, StringType, CharType),
   vals |-> Ns \X (Strings \X ({A, 0, Blank} \X Nothing)),
   ret  |-> StringType, rets |-> Strings],
  [name |-> <<A, 1>>,
   args |-> Three(Of("stack", IntType), Of("queue", StringType), Of("vector", CharType)),
   vals |-> Ints \X ({<<>>, <<<<A>>, <<1, Blank>>>>} \X ({<<>>, <<A, 1>>} \X Nothing)),
   ret  |-> Of("stack", StringType), rets |-> {<<>>, <<<<A>>, <<>>, <<Blank>>>>}],
  [name |-> <<A, 2>>,
   args |-> Two(Of("vector", Of("queue", IntType)), Of("queue", Of("queue", IntType))),
   vals |-> {<<>>, <<<<1>>, <<>>, <<0, 2>>>>} \X ({<<>>, <<<<1, 2>>>>, <<<<1>>, <<2>>>>} \X Nothing),
   ret  |-> MapOf(IntType, Of("vector", IntType)),
   rets |-> {{}, {<<1, <<1, 2>>>>, <<2, <<0>>>>}}],
  [name |-> <<A, 3>>,
   args |-> Three(PairOf(StringType, IntType), Of("set", IntType),
                  MapOf(IntType, Of("set", IntType))),
   vals |-> {<<<<1, A>>, 12>>} \X ({{}, {1, 12}}
              \X ({{<<1, {2}>>}, {<<1, {2}>>, <<2, {1, 3}>>}} \X Nothing)),
   ret  |-> IntType, rets |-> {0, 12}],
  [name |-> <<A, Blank, A>>,
   args |-> PairOf(IntType, UnitType), vals |-> {1} \X Nothing, ret |-> CharType, rets |-> {A, 1}],
  [name |-> <<>>,
   args |-> UnitType, vals |-> Nothing, ret |-> IntType, rets |-> {0}],
  [name |-> <<4>>,
   args |-> PairOf(Of("vector", Of("stack", Of("vector", IntType))), UnitType),
   vals |-> ({<<<<v>>>> : v \in Ints} \cup {<<<<<<>>, <<1>>, <<2, 3>>>>, <<<<1>>>>>>}) \X Nothing,
   ret  |-> CharType, rets |-> {A, 1, Blank}]>>

Entry(n) == CHOOSE e \in {Table[i] : i \in DOMAIN Table} : e.name = n

MCNames     == {Table[i].name : i \in DOMAIN Table}
MCArgs      == [n \in MCNames |-> Entry(n).args]
MCRet       == [n \in MCNames |-> Entry(n).ret]
MCArgValues == [n \in MCNames |-> Entry(n).vals]
MCRetValues == [n \in MCNames |-> Entry(n).rets]
MCResidues  == {0, 3, Huge}
=============================================================================

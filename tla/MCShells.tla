------------------------------ MODULE MCShells ------------------------------
(* Shells with the values TLC needs: arrays that two or three elements fill,   *)
(* and lines of every kind.  The table of words is doubled by the third and,   *)
(* if it comes to that, by the seventh word; seven names bring the path list   *)
(* from three places over six, more than the table has then, to twelve, more   *)
(* than it has when it is doubled.                                             *)
EXTENDS Shells

CONSTANTS d1, d2, d3, n1, n2, n3, n4, f, g, s, cf, cg, folder

ThreeDirs == {d1, d2, d3}
PathNames == ThreeDirs \cup {n1, n2, n3, n4}
ThreeFiles == {f, g, s}
TwoHolders == {d1, d2}
OneDeep == {d2}
OneFleeting == {d3}
OneLeft == {d2}
Contents == (f :> cf) @@ (g :> cg) @@ (s :> folder)

PathLines ==
  {<<"path", sign, name>> : sign \in {"+", "-"}, name \in ThreeDirs \cup {n1}}
    \cup {<<"path">>, <<"path", "+">>, <<"path", "-">>,
          <<"path", "+", d1, n1>>, <<"path", "+", d2, d1, d3>>, <<"path", "-", d1, d2, n1>>,
          <<"path", "+", n1, n2, n3, n4>>, <<"path", "+", n4, d3, n2, d2, d1>>}
DirLines ==
  {<<cmd, d>> : cmd \in {"cd", "pushd"}, d \in ThreeDirs \cup {n1}}
    \cup {<<"cd">>, <<"pushd">>, <<"pushd", d1, d2>>, <<"popd">>, <<"dir">>, <<"exit">>, <<>>}
ProgramLines ==
  {<<Program, f, where>> : where \in {g, d1, d2, d3}}
    \cup {<<Program, g, f>>, <<Program, s, f>>, <<Program, s, d2>>, <<Program, d2, g>>, <<Program>>,
          <<Program, f, d2, d3, d1>>}
AllLines == PathLines \cup DirLines \cup ProgramLines
=============================================================================

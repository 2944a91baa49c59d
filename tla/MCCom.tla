-------------------------------- MODULE MCCom --------------------------------
(***************************************************************************)
(* Instances of ComInstall for TLC: a COM server with a function of a      *)
(* vtable and an exported factory, and another image that exports a        *)
(* function of the factory's name. A hook of each route.                   *)
(***************************************************************************)
EXTENDS ComInstall, TLC

CONSTANTS server, other,            \* images
          method, factory, namesake \* functions

Images    == {server, other}
Functions == {method, factory, namesake}
Homes     == method :> server @@ factory :> server @@ namesake :> other

\* 1 is a symbol that only an image outside its lists exports, 2 a method of a
\* live object with the factory's name to fall back on, 3 has a name and 4 a
\* pointer into an image that it also names. 5 is a symbol that both images export,
\* to be resolved in one and installed in the other.
Routes        == <<"symbol", "slot", "explicit", "explicit", "symbol">>
Preferred     == <<namesake, method, namesake, namesake, factory>>
Symbols       == << {namesake}, {factory, namesake}, {factory}, {factory},
                    {factory, namesake} >>
ImportLists   == << <<server>>, <<>>, <<>>, <<>>, <<other>> >>
ResolveLists  == << <<server>>, <<>>, <<>>, <<>>, <<server>> >>
FallbackLists == << <<>>, <<server>>, <<>>, <<other>>, <<>> >>
=============================================================================

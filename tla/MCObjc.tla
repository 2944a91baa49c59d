------------------------------- MODULE MCObjc -------------------------------
(***************************************************************************)
(* Three classes in a line with their metaclasses. Hooks on the instance   *)
(* methods of two generations and on a class method, which inherits what   *)
(* the root's instances have; one with a bad class name and one with a bad *)
(* selector.                                                               *)
(***************************************************************************)
EXTENDS ObjcRuntime, TLC

CONSTANTS root, base, target, rootMeta, baseMeta, targetMeta,
          p, q, r, s, t

Classes == {root, base, target, rootMeta, baseMeta, targetMeta}
Names   == {root, base, target}
Metas   == root :> rootMeta @@ base :> baseMeta @@ target :> targetMeta
Lines   == root       :> {root}                                 @@
           base       :> {base, root}                           @@
           target     :> {target, base, root}                   @@
           rootMeta   :> {rootMeta, root}                       @@
           baseMeta   :> {baseMeta, rootMeta, root}             @@
           targetMeta :> {targetMeta, baseMeta, rootMeta, root}

Apart  == p :> base @@ q :> target @@ r :> target @@ s :> base @@ t :> root
Shared == p :> target @@ q :> target
Kinds  == p :> "Instance" @@ q :> "Instance" @@ r :> "Class" @@ s :> "Class" @@ t :> "Class"
Bad    == p :> {} @@ q :> {} @@ r :> {} @@ s :> {"selector"} @@ t :> {"class"}

Alike == [h \in {p, q} |-> "Instance"]
Good  == [h \in {p, q} |-> {}]
=============================================================================

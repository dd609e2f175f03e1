------------------------------ MODULE ItemMesh ------------------------------
(***************************************************************************)
(* UFaerieItemMeshComponent and the asynchronous side of                    *)
(* UFaerieItemMeshLoader: which mesh of a token suits a purpose, the load   *)
(* of it, and the mesh component that is generated for it.  A component is  *)
(* a record; an operation gives the component it leaves and whether it      *)
(* ended in a rebuild, which listeners are told of.                         *)
(***************************************************************************)
EXTENDS Integers, SequencesExt

CONSTANTS
  NoToken,   \* no source token
  NoLoad,    \* no load is running
  Default,   \* the purpose MeshPurpose.Default
  MeshesOf,  \* of each token: [dynamic, skeletal, static], the meshes as
             \* sequences of [purposes, mesh]
  NoMesh     \* a mesh that is not there: no fragments, or an asset that fails

-----------------------------------------------------------------------------
(* Mesh data has the kinds of mesh it holds.                                *)

Mesh(kind, mesh) == [kinds |-> IF mesh = NoMesh THEN {} ELSE {kind}, mesh |-> mesh]
Empty == [kinds |-> {}, mesh |-> NoMesh]
Unsuitable == [kinds |-> {}, mesh |-> NoToken]

(* The first mesh of a list for any of the purposes, 0 if there is none:    *)
(* the order of the list decides, not that of the purposes.                 *)
FirstFor(list, purposes) == SelectInSeq(list, LAMBDA d : d.purposes \cap purposes # {})

(* What a load for a purpose gives.  Dynamic skeletal meshes are not        *)
(* implemented: one that is found gives an empty mesh.                      *)
MeshFor(token, purpose) ==
  LET of == MeshesOf[token]
      skeletal == FirstFor(of.skeletal, {purpose, Default})
      static == FirstFor(of.static, {purpose, Default})
  IN  IF skeletal > 0 THEN IF of.dynamic THEN Empty ELSE Mesh("Skeletal", of.skeletal[skeletal].mesh)
      ELSE IF static > 0 THEN Mesh(IF of.dynamic THEN "Dynamic" ELSE "Static", of.static[static].mesh)
      ELSE Unsuitable

-----------------------------------------------------------------------------
(* RebuildMesh: the preferred type and those it falls through to, then what *)
(* there is.  A component of another type is destroyed.                     *)

Preference(type) ==
  CASE type \in {"None", "Dynamic"} -> <<"Dynamic", "Skeletal", "Static">>
    [] type = "Skeletal" -> <<"Skeletal", "Static">>
    [] type = "Static" -> <<"Static">>

NewMeshType(c) ==
  LET order == Preference(c.preferred) \o <<"Static", "Dynamic", "Skeletal">>
      i == SelectInSeq(order, LAMBDA t : t \in c.data.kinds)
  IN  IF i = 0 THEN "None" ELSE order[i]

Unchanged(c) == [c |-> c, rebuilt |-> FALSE]
RebuildMesh(c) == [c |-> [c EXCEPT !.actual = NewMeshType(c)], rebuilt |-> TRUE]

(* Listeners hear of a rebuild that made a mesh.                            *)
Broadcasts(step) == step.rebuilt /\ step.c.actual # "None"

-----------------------------------------------------------------------------
(* Loads.  Whether the assets are in memory is `there'.                     *)

(* Mutated: an earlier load goes on. *)
LoadMeshFromTokenBeside(c, there) ==
  LET mesh == MeshFor(c.token, c.tag)
  IN  IF c.token = NoToken THEN Unchanged(c)
      ELSE IF mesh = Unsuitable THEN Unchanged(c)
      ELSE IF there THEN RebuildMesh([c EXCEPT !.data = mesh])
      ELSE Unchanged([c EXCEPT !.load = IF @ = NoLoad THEN mesh ELSE @])

(* LoadMeshFromToken: an earlier load is cancelled, unless there is no      *)
(* token.  When no mesh suits, the callback has been moved away and nobody  *)
(* is told.                                                                 *)
LoadMeshFromToken(c, there) ==
  LET mesh == MeshFor(c.token, c.tag)
  IN  IF c.token = NoToken THEN Unchanged(c)
      ELSE IF mesh = Unsuitable THEN Unchanged([c EXCEPT !.load = NoLoad])
      ELSE IF there THEN RebuildMesh([c EXCEPT !.data = mesh, !.load = NoLoad])
      ELSE Unchanged([c EXCEPT !.load = mesh])

(* Every load ends in success (HandleAsyncLoadResult); a failure is only    *)
(* told before there is a load, to the callback that has been moved away.   *)
AsyncLoadMeshReturn(c) == RebuildMesh([c EXCEPT !.data = c.load, !.load = NoLoad])

-----------------------------------------------------------------------------
(* The component's operations.                                              *)

NewComponent == [token |-> NoToken, tag |-> Default, preferred |-> "Static", load |-> NoLoad,
                 data |-> Empty, actual |-> "None"]

(* A mesh that is set directly does not cancel a load that is running.      *)
SetItemMesh(c, mesh) ==
  IF c.data = mesh THEN Unchanged(c)
  ELSE RebuildMesh([c EXCEPT !.token = NoToken, !.data = mesh])

SetItemMeshFromToken(c, token, there) ==
  IF c.token = token THEN Unchanged(c) ELSE LoadMeshFromToken([c EXCEPT !.token = token], there)

ClearItemMesh(c) ==
  Unchanged([c EXCEPT !.load = NoLoad, !.actual = "None", !.data = Empty, !.token = NoToken])

SetPreferredTag(c, tag, there) ==
  IF c.tag = tag THEN Unchanged(c) ELSE LoadMeshFromToken([c EXCEPT !.tag = tag], there)

SetPreferredMeshType(c, type) ==
  IF c.preferred = type THEN Unchanged(c) ELSE RebuildMesh([c EXCEPT !.preferred = type])

-----------------------------------------------------------------------------

(* A component whose token has a mesh for its tag, and that waits for no    *)
(* load, has that mesh and a generated component of one of its kinds; and a *)
(* load that runs for it is for no other mesh.                              *)
ShowsSource(c) ==
  c.token # NoToken /\ MeshFor(c.token, c.tag) # Unsuitable =>
    LET mesh == MeshFor(c.token, c.tag)
    IN  IF c.load = NoLoad
        THEN c.data = mesh /\ (IF mesh.kinds = {} THEN c.actual = "None" ELSE c.actual \in mesh.kinds)
        ELSE c.load = mesh
=============================================================================

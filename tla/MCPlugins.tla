------------------------------ MODULE MCPlugins ------------------------------
(***************************************************************************)
(* A small instance of Plugins for TLC: two sound plugins p and q, one     *)
(* that cannot be opened, one without ccr_register, one with another ABI   *)
(* version.  The header "shared.hpp:3" is included by the host and by both *)
(* sound plugins; the host and p both have a parameter type "colour".      *)
(***************************************************************************)
EXTENDS Plugins

MCHost      == "host"
MCLibraries == {"p", "q", "broken", "bare", "skewed"}
MCLocations == {"host.cpp:1", "p.cpp:1", "q.cpp:1", "other.cpp:1", "shared.hpp:3"}
MCNames     == {"colour", "size"}

MCDefines ==
    [o \in {MCHost} \union MCLibraries |->
        CASE o = MCHost -> {"host.cpp:1", "shared.hpp:3"}
          [] o = "p"    -> {"p.cpp:1", "shared.hpp:3"}
          [] o = "q"    -> {"q.cpp:1", "shared.hpp:3"}
          [] OTHER      -> {"other.cpp:1"}]

MCConverts ==
    [o \in {MCHost} \union MCLibraries |->
        CASE o = MCHost -> {"colour"}
          [] o = "p"    -> {"colour", "size"}
          [] o = "q"    -> {"size"}
          [] OTHER      -> {}]

File(l) == [kind |-> "library", holds |-> << l >>]
Stray(kind) == [kind |-> kind, holds |-> << >>]
Directory(s) == [kind |-> "directory", holds |-> s]

MCPaths == {File(l) : l \in MCLibraries}
           \union {Stray(k) : k \in {"missing", "device", "text"}}
           \union {Directory(s) : s \in {<< >>, << "p", "q" >>, << "bare", "p" >>}}

MCLoadLists == {<< a >> : a \in MCPaths} \union {<< a, b >> : a, b \in MCPaths}
=============================================================================

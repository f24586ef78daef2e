------------------------------ MODULE MCInstall ------------------------------
(* Two files, the hook and one entry of the older product.                 *)
EXTENDS Install

MCEntry  == {"library", "manifest", "hook", "legacy-helper"}
MCFiles  == <<"library", "manifest">>
MCLegacy == <<"legacy-helper">>
MCTrees  == {"library"}
=============================================================================

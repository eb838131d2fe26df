------------------------------ MODULE MCPatchAll ------------------------------
(***************************************************************************)
(* Small instances of PatchAll: four files of three paths: one is listed   *)
(* twice.                                                                  *)
(***************************************************************************)
EXTENDS PatchAll, TLC

(* One file is listed twice, one cannot be patched, one is no ELF file.    *)
MCPaths == {"lib", "bad", "txt"}
MCPathOf == <<"lib", "bad", "lib", "txt">>
MCFate == ("lib" :> "edit") @@ ("bad" :> "reject") @@ ("txt" :> "skip")
MCUnresolved == {"lib", "txt"}
=============================================================================

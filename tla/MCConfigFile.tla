---------------------------- MODULE MCConfigFile ----------------------------
(***************************************************************************)
(* Small instances of ConfigFile.  Inodes are interchangeable.             *)
(***************************************************************************)
EXTENDS ConfigFile, TLC

Inodes == Permutations(Inode)
=============================================================================

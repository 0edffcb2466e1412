---------------------------- MODULE MCRpcServer ----------------------------
(***************************************************************************)
(* Instances of RpcServer for TLC: a user's file "home" and one of the     *)
(* same name elsewhere, "usb", are copied to "own", which a user may name  *)
(* as a file to upload, too.                                               *)
(***************************************************************************)
EXTENDS RpcServer

CONSTANTS c1, c2, c3, c4

HomeUsbOwn == {"home", "usb", "own"}
AllToOwn == [p \in HomeUsbOwn |-> "own"]

\* One chunk and a partial one; no file; no copy yet.
HomeAtFirst == [p \in HomeUsbOwn |-> IF p = "home" THEN <<1, 2, 1>> ELSE None]
LongAndShort == {<<1, 2, 1>>, <<2>>, <<2, 2>>}

Upload(p) == [op |-> "upload", path |-> p]
Download(p) == [op |-> "download", path |-> p]

UploadsAndDownload ==
  [c \in {c1, c2, c3, c4} |-> CASE c = c1 -> Upload("home")
                                [] c = c2 -> Upload("usb")
                                [] c = c3 -> Upload("own")
                                [] c = c4 -> Download("own")]
=============================================================================

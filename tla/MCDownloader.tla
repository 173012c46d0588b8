---------------------------- MODULE MCDownloader ----------------------------
(* Instances of Downloader for TLC. *)
EXTENDS Downloader

CONSTANTS p1

DataTasks == [t \in Tasks |-> NoPath]
OnePath   == [t \in Tasks |-> p1]
=============================================================================

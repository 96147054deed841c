-------------------------- MODULE MCSandboxRuntime --------------------------
(* SandboxRuntime alone, where a runtime may stay unavailable. *)
EXTENDS SandboxRuntime

MCRuntimes == <<"docker", "podman">>

=============================================================================

----------------------- MODULE MCAutoscalingListener ------------------------
(* The instance of AutoscalingListener that TLC checks. *)
EXTENDS AutoscalingListener

(* Prompt caches; slow ones of AutoscalingListener and pod; slow ones of the rights. *)
MCLaggings == {{}, {"al", "pod"}, {"role", "rb"}}
=============================================================================

------------------------------ MODULE MCDaqTask ------------------------------
(* TLC instances of DaqTask: the acquisition thread and two operators in      *)
(* MCDaqTask.cfg, the maxRetries DigitalReader passes in MCDaqCounter.cfg.    *)
EXTENDS DaqTask

===============================================================================

---------------------------- MODULE MCModbusServer ----------------------------
(* TLC instance of ModbusServer: clients below and above the listening        *)
(* socket, and more connections than descriptors.                             *)
EXTENDS ModbusServer

===============================================================================

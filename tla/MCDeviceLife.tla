----------------------------- MODULE MCDeviceLife -----------------------------
(* DeviceLife for TLC: one host, which may have to enrol twice.               *)
EXTENDS DeviceLife
===============================================================================

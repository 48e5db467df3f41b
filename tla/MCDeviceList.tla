------------------------------ MODULE MCDeviceList ------------------------------
(* Two addresses for other devices, one for this device, and the address of a *)
(* device without one.                                                        *)
EXTENDS DeviceList

NoDetails == {}
===============================================================================

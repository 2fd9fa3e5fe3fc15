---------------------------- MODULE MCMqttClient ----------------------------
EXTENDS MqttClient
=============================================================================

\* Ten buffers to the ring, as 1024 frames are to 10240.
\* The system may stop for ever in stop and in the destructor.
SPECIFICATION AudioSpec
CONSTANTS
  cbsnd_size = 30
  Period = 3
PROPERTY
  StopReturns
CHECK_DEADLOCK FALSE
